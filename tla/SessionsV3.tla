----------------------------- MODULE SessionsV3 -----------------------------
(***************************************************************************)
(* cloudflared quic/v3: UDP sessions over datagrams.  Every registration   *)
(* datagram that arrives on a QUIC connection is handled by a goroutine    *)
(* (datagramConn.handleSessionRegistrationDatagram); the one that creates  *)
(* a session also serves it until it ends.  All connections share one      *)
(* session manager and one flow limiter.                                   *)
(*                                                                         *)
(* A session is named by the goroutine that created it.  A connection is   *)
(* one QUIC connection: when it is lost, a new one with the same index     *)
(* takes its place.  Payload, the idle timer's clock, and the read and     *)
(* write loops are reduced to the fact that a session may end at any time. *)
(***************************************************************************)
EXTENDS Integers, FiniteSets

CONSTANTS
    Handlers,     \* the goroutines, one for each registration datagram
    Ids,          \* request ids
    Conns,        \* QUIC connections
    IdOf,         \* [Handlers -> Ids], the request id of the datagram
    ConnOf,       \* [Handlers -> Conns], where the datagram arrives
    IndexOf,      \* the connection index of each connection
    Limits,       \* the limits the orchestrator may set
    None

ASSUME SessionsAssumption ==
    /\ IdOf \in [Handlers -> Ids] /\ ConnOf \in [Handlers -> Conns]
    /\ DOMAIN IndexOf = Conns
    /\ Limits \subseteq Nat /\ Limits # {}
    /\ None \notin Handlers \cup Conns

VARIABLES
    conn,      \* each connection is "down" at first, then "up", then "lost"
    pc,        \* where each goroutine is
    sessions,  \* the session manager's map
    eyeball,   \* each session's connection, session.eyeball
    bound,     \* the connection whose context each serve loop watches, connCtx
    target,    \* the session a migrating goroutine got from the manager
    active,    \* the limiter's counter
    limit,     \* the limiter's maximum
    unbound    \* history: how many sockets could not be bound

sessionVars == <<eyeball, bound>>
limiterVars == <<active, limit, unbound>>
vars == <<conn, pc, sessions, sessionVars, target, limiterVars>>

Labels == {"datagram", "register", "respond", "serve", "unregister", "resend", "get",
           "load", "store", "push", "respondMigrated", "done"}

TypeOK ==
    /\ conn \in [Conns -> {"down", "up", "lost"}]
    /\ pc \in [Handlers -> Labels]
    /\ sessions \in [Ids -> Handlers \cup {None}]
    /\ eyeball \in [Handlers -> Conns \cup {None}]
    /\ bound \in [Handlers -> Conns \cup {None}]
    /\ target \in [Handlers -> Handlers \cup {None}]
    /\ active \in 0..Cardinality(Handlers)
    /\ limit \in Limits
    /\ unbound \in 0..Cardinality(Handlers)

Init ==
    /\ conn = [c \in Conns |-> "down"]
    /\ pc = [h \in Handlers |-> "datagram"]
    /\ sessions = [id \in Ids |-> None]
    /\ eyeball = [h \in Handlers |-> None]
    /\ bound = [h \in Handlers |-> None]
    /\ target = [h \in Handlers |-> None]
    /\ active = 0
    /\ limit \in Limits
    /\ unbound = 0

Goto(h, from, to) == pc[h] = from /\ pc' = [pc EXCEPT ![h] = to]

Registered == {id \in Ids : sessions[id] # None}

\* The session that is registered under the request id of a datagram.
Existing(h) == sessions[IdOf[h]]

-----------------------------------------------------------------------------
\* Connections and the limit

\* A connection index is served by one connection at a time.
ConnectionUp(c) ==
    /\ conn[c] = "down"
    /\ \A d \in Conns : IndexOf[d] = IndexOf[c] => conn[d] # "up"
    /\ conn' = [conn EXCEPT ![c] = "up"]
    /\ UNCHANGED <<pc, sessions, sessionVars, target, limiterVars>>

\* The context of the connection is done.
ConnectionLost(c) ==
    /\ conn[c] = "up"
    /\ conn' = [conn EXCEPT ![c] = "lost"]
    /\ UNCHANGED <<pc, sessions, sessionVars, target, limiterVars>>

\* flowLimiter.SetLimit
SetLimit ==
    /\ limit' \in Limits
    /\ UNCHANGED <<conn, pc, sessions, sessionVars, target, active, unbound>>

-----------------------------------------------------------------------------
\* handleSessionRegistrationDatagram

Receive(h) ==
    /\ conn[ConnOf[h]] = "up"
    /\ Goto(h, "datagram", "register")
    /\ UNCHANGED <<conn, sessions, sessionVars, target, limiterVars>>

\* conn.ID() == session.ConnectionID()
SameConnection(h, s) == IndexOf[ConnOf[h]] = IndexOf[eyeball[s]]

\* ErrSessionAlreadyRegistered or ErrSessionBoundToOtherConn
AlreadyRegistered(h) ==
    /\ Existing(h) # None
    /\ Goto(h, "register", IF SameConnection(h, Existing(h)) THEN "resend" ELSE "get")
    /\ UNCHANGED <<conn, sessions, sessionVars, target, limiterVars>>

\* flowLimiter.Acquire refuses; a limit of 0 is no limit.
Full == limit # 0 /\ active >= limit

\* ErrSessionRegistrationRateLimited
RateLimited(h) ==
    /\ Existing(h) = None /\ Full
    /\ Goto(h, "register", "done")
    /\ UNCHANGED <<conn, sessions, sessionVars, target, limiterVars>>

\* DialUDP fails: the slot was acquired and RegisterSession just returns.
DialFails(h) ==
    /\ Existing(h) = None /\ ~Full
    /\ Goto(h, "register", "done")
    /\ active' = active + 1
    /\ unbound' = unbound + 1
    /\ UNCHANGED <<conn, sessions, sessionVars, target, limit>>

\* RegisterSession creates the session and puts it into the map.
Register(h) ==
    /\ Existing(h) = None /\ ~Full
    /\ Goto(h, "register", "respond")
    /\ active' = active + 1
    /\ sessions' = [sessions EXCEPT ![IdOf[h]] = h]
    /\ eyeball' = [eyeball EXCEPT ![h] = ConnOf[h]]
    /\ UNCHANGED <<conn, bound, target, limit, unbound>>

\* SendUDPSessionResponse(ResponseOk), then Serve on the connection's context.
Respond(h) ==
    /\ Goto(h, "respond", "serve")
    /\ conn[ConnOf[h]] = "up"
    /\ bound' = [bound EXCEPT ![h] = ConnOf[h]]
    /\ UNCHANGED <<conn, sessions, eyeball, target, limiterVars>>

\* mutant: a session that is never served is not unregistered either.
RespondFailsForgets(h) ==
    /\ Goto(h, "respond", "done")
    /\ UNCHANGED <<conn, sessions, sessionVars, target, limiterVars>>

\* The response cannot be sent, and the session is never served.
RespondFails(h) ==
    /\ Goto(h, "respond", "unregister")
    /\ UNCHANGED <<conn, sessions, sessionVars, target, limiterVars>>

\* case <-connCtx.Done()
EndByContext(h) ==
    /\ Goto(h, "serve", "unregister")
    /\ conn[bound[h]] = "lost"
    /\ UNCHANGED <<conn, sessions, sessionVars, target, limiterVars>>

\* case <-s.errChan or case <-checkIdleTimer.C
End(h) ==
    /\ Goto(h, "serve", "unregister")
    /\ UNCHANGED <<conn, sessions, sessionVars, target, limiterVars>>

\* mutant: the slot is given back only if the limit is reached.
UnregisterKeepsSlot(h) ==
    /\ Goto(h, "unregister", "done")
    /\ sessions' = [sessions EXCEPT ![IdOf[h]] = None]
    /\ active' = IF active < limit THEN active ELSE active - 1
    /\ UNCHANGED <<conn, sessionVars, target, limit, unbound>>

\* The deferred UnregisterSession: delete(s.sessions, id), s.limiter.Release()
Unregister(h) ==
    /\ Goto(h, "unregister", "done")
    /\ sessions' = [sessions EXCEPT ![IdOf[h]] = None]
    /\ active' = IF active <= 0 THEN active ELSE active - 1
    /\ UNCHANGED <<conn, sessionVars, target, limit, unbound>>

\* handleSessionAlreadyRegistered: the response again, and the idle timer.
Resend(h) ==
    /\ Goto(h, "resend", "done")
    /\ UNCHANGED <<conn, sessions, sessionVars, target, limiterVars>>

-----------------------------------------------------------------------------
\* handleSessionMigration

\* GetSession: the session may be gone by now, or be another one.
GetSession(h) ==
    /\ Goto(h, "get", IF Existing(h) = None THEN "done" ELSE "load")
    /\ target' = [target EXCEPT ![h] = Existing(h)]
    /\ UNCHANGED <<conn, sessions, sessionVars, limiterVars>>

\* Migrate: if current.ID() != eyeball.ID()
LoadEyeball(h) ==
    /\ Goto(h, "load", IF SameConnection(h, target[h]) THEN "respondMigrated" ELSE "store")
    /\ UNCHANGED <<conn, sessions, sessionVars, target, limiterVars>>

\* s.eyeball.Store(&eyeball)
StoreEyeball(h) ==
    /\ Goto(h, "store", "push")
    /\ eyeball' = [eyeball EXCEPT ![target[h]] = ConnOf[h]]
    /\ UNCHANGED <<conn, sessions, bound, target, limiterVars>>

\* s.contextChan <- ctx meets newContext := <-s.contextChan in the serve loop:
\* the channel has no buffer.
PushContext(h) ==
    /\ Goto(h, "push", "respondMigrated")
    /\ pc[target[h]] = "serve"
    /\ bound' = [bound EXCEPT ![target[h]] = ConnOf[h]]
    /\ UNCHANGED <<conn, sessions, eyeball, target, limiterVars>>

RespondMigrated(h) ==
    /\ Goto(h, "respondMigrated", "done")
    /\ UNCHANGED <<conn, sessions, sessionVars, target, limiterVars>>

-----------------------------------------------------------------------------

Handle(h) ==
    \/ AlreadyRegistered(h) \/ RateLimited(h) \/ Register(h)
    \/ Respond(h) \/ EndByContext(h) \/ Unregister(h) \/ Resend(h)
    \/ GetSession(h) \/ LoadEyeball(h) \/ StoreEyeball(h) \/ PushContext(h)
    \/ RespondMigrated(h)

Next ==
    \/ \E c \in Conns : ConnectionUp(c) \/ ConnectionLost(c)
    \/ SetLimit
    \/ \E h \in Handlers :
          Receive(h) \/ Handle(h) \/ DialFails(h) \/ RespondFails(h) \/ End(h)

\* A goroutine that can run does so; on a lost connection a response fails, and
\* a serve loop does not pass the closed context over for ever.
Fairness ==
    \A h \in Handlers : WF_vars(Handle(h) \/ RespondFails(h)) /\ WF_vars(EndByContext(h))

Spec == Init /\ [][Next]_vars /\ Fairness

-----------------------------------------------------------------------------

Owns(h) == pc[h] \in {"respond", "serve", "unregister"}

\* A session is in the map from its registration to its end, under its own id:
\* nobody replaces it, and the unregistration that follows its end by id removes
\* this session and not a newer one.
MapHoldsLiveSessions == \A h \in Handlers : Owns(h) <=> Existing(h) = h

\* Every slot of the limiter is held by a registered session, except those that
\* sockets which could not be bound have taken: no retry, migration or end of a
\* session leaks a slot or gives one back twice.
SlotsMatchSessions == active = Cardinality(Registered) + unbound

\* ErrSessionRegistrationRateLimited "is returned when a registration fails due
\* to rate limiting on the number of active flows".
RateLimitedOnlyWhenFull ==
    [][\A h \in Handlers : RateLimited(h) => Cardinality(Registered) >= limit]_vars

\* The goroutines that have migrated a session or are about to.
Migrations(s) == {h \in Handlers : target[h] = s}

\* A session that one goroutine migrates sends to the connection whose context
\* ends it, except while that migration is on its way.  (Two goroutines store
\* their eyeball and hand over their context in any order.)
EyeballFollowsContext ==
    \A s \in Handlers :
        /\ pc[s] = "serve"
        /\ Cardinality(Migrations(s)) <= 1
        /\ \A h \in Migrations(s) : pc[h] # "push"
        => eyeball[s] = bound[s]

\* No session survives the loss of all connections, also when a migration was on
\* its way to one of them.
AllLostDrains == (\A c \in Conns : conn[c] = "lost") ~> Registered = {}

\* The map and the limiter are those of the sessions that live (RegisterSession,
\* UnregisterSession).
SlotsAreOfSessions == MapHoldsLiveSessions /\ SlotsMatchSessions

\* A session lives on the connection it sends to, and on no other (Migrate, serve).
SessionsFollowContexts == []EyeballFollowsContext /\ AllLostDrains
=============================================================================
