----------------------------- MODULE DatagramsV2 -----------------------------
(***************************************************************************)
(* datagramsession and connection/quic_datagram_v2.go: UDP sessions over   *)
(* one QUIC connection, protocol version 2.  The edge registers a session  *)
(* by a call, whose goroutine takes a slot of the flow limiter, dials the  *)
(* origin and offers the session to the event loop of the manager.  The    *)
(* loop alone touches the map; a session that ends unregisters itself by   *)
(* its id through the same loop, and another goroutine reads its origin.   *)
(***************************************************************************)
EXTENDS Naturals, Sequences, FiniteSets

CONSTANTS
    Calls, \* calls of RegisterUdpSession, each with the session it makes
    Ids,   \* session ids the edge uses
    Limit, \* of the flow limiter, 0 for none
    NoSession

ASSUME V2Assumption ==
    IsFiniteSet(Calls) /\ NoSession \notin Calls \cup Ids /\ Limit \in Nat

VARIABLES
    pc,             \* where each call, and then its session, is
    sid,            \* its session id
    sessionsReader, \* its dstToTransport goroutine
    closeChan,      \* Session.closeChan: the reasons sent and not received
    slots,          \* flowLimiter.activeFlowsCounter
    sessions,       \* manager.sessions
    running,        \* manager.Serve runs
    connDone,       \* the context of the QUIC connection is done
    groupDone       \* the context that manager.Serve got is done

v2Vars == <<pc, sid, sessionsReader, closeChan, slots, sessions, running, connDone, groupDone>>

Reasons == {"remote", "local", "read"}

SessionsTypeOK ==
    /\ pc \in [Calls -> {"idle", "dialing", "offering", "serving", "closing", "ended"}]
    /\ sid \in [Calls -> Ids \cup {NoSession}]
    /\ sessionsReader \in [Calls -> {"none", "reading", "done"}]
    /\ \A r \in Calls : closeChan[r] \in Seq(Reasons)
    /\ slots \in 0..Cardinality(Calls)
    /\ sessions \in [Ids -> Calls \cup {NoSession}]
    /\ {running, connDone, groupDone} \subseteq BOOLEAN

SessionsInit ==
    /\ pc = [r \in Calls |-> "idle"]
    /\ sid = [r \in Calls |-> NoSession]
    /\ sessionsReader = [r \in Calls |-> "none"]
    /\ closeChan = [r \in Calls |-> <<>>]
    /\ slots = 0
    /\ sessions = [id \in Ids |-> NoSession]
    /\ running = TRUE /\ connDone = FALSE /\ groupDone = FALSE

GotoCall(r, from, to) == pc[r] = from /\ pc' = [pc EXCEPT ![r] = to]

\* flowLimiter.Release, which does not go below 0
Release == slots' = IF slots = 0 THEN 0 ELSE slots - 1

-----------------------------------------------------------------------------
\* RegisterUdpSession

\* flowLimiter.Acquire; a refused call ends.  Flows that are not of this connection
\* use the limiter too, so a call may be refused although this one is below Limit.
Acquire(r, id) ==
    /\ ~connDone
    /\ \E refused \in IF Limit = 0 THEN {FALSE} ELSE {TRUE, slots >= Limit} :
           /\ GotoCall(r, "idle", IF refused THEN "ended" ELSE "dialing")
           /\ slots' = IF refused THEN slots ELSE slots + 1
    /\ sid' = [sid EXCEPT ![r] = id]
    /\ UNCHANGED <<sessionsReader, closeChan, sessions, running, connDone, groupDone>>

Dial(r) ==
    /\ GotoCall(r, "dialing", "offering")
    /\ UNCHANGED <<sid, sessionsReader, closeChan, slots, sessions, running, connDone,
                   groupDone>>

\* The address or the dial is bad; or RegisterSession ends by its context, which
\* ends with the connection, or by its timeout: the loop does not block, so the
\* 5 seconds pass only when it has returned.  closedChan is never closed.
RegisterSessionFails(r) ==
    /\ \/ GotoCall(r, "dialing", "ended")
       \/ GotoCall(r, "offering", "ended") /\ (connDone \/ ~running)
    /\ Release
    /\ UNCHANGED <<sid, sessionsReader, closeChan, sessions, running, connDone, groupDone>>

-----------------------------------------------------------------------------
\* manager.Serve

\* registerSession: a running session with the same id loses its place in the map.
RegisterSession(r) ==
    /\ running
    /\ GotoCall(r, "offering", "serving")
    /\ sessions' = [sessions EXCEPT ![sid[r]] = r]
    /\ sessionsReader' = [sessionsReader EXCEPT ![r] = "reading"]
    /\ UNCHANGED <<sid, closeChan, slots, running, connDone, groupDone>>

\* unregisterSession
UnregisterSession(id, reason) ==
    IF sessions[id] = NoSession
    THEN UNCHANGED <<sessions, closeChan>>
    ELSE /\ sessions' = [sessions EXCEPT ![id] = NoSession]
         /\ closeChan' = [closeChan EXCEPT ![sessions[id]] = Append(@, reason)]

\* UnregisterUdpSession: a call of the edge.
EdgeUnregisters(id) ==
    /\ running /\ ~connDone
    /\ UnregisterSession(id, "remote")
    /\ UNCHANGED <<pc, sid, sessionsReader, slots, running, connDone, groupDone>>

\* shutdownSessions, and Serve returns.
ShutdownSessions ==
    /\ running /\ groupDone
    /\ running' = FALSE
    /\ sessions' = [id \in Ids |-> NoSession]
    /\ closeChan' = [r \in Calls |->
          IF \E id \in Ids : sessions[id] = r THEN Append(closeChan[r], "remote") ELSE closeChan[r]]
    /\ UNCHANGED <<pc, sid, sessionsReader, slots, connDone, groupDone>>

-----------------------------------------------------------------------------
\* serveUDPSession

\* Session.Serve returns; one closed by the edge needs no closeUDPSession.
ServeEnds(r, reason) ==
    /\ GotoCall(r, "serving", IF reason = "remote" THEN "ended" ELSE "closing")
    /\ IF reason = "remote" THEN Release ELSE UNCHANGED slots

\* mutant: a session relies on the manager to end it with the connection.
SessionEndsWhenTold(r) ==
    /\ closeChan[r] # <<>>
    /\ ServeEnds(r, Head(closeChan[r]))
    /\ closeChan' = [closeChan EXCEPT ![r] = Tail(@)]
    /\ UNCHANGED <<sid, sessionsReader, sessions, running, connDone, groupDone>>

\* waitForCloseCondition: a reason was sent, the context is done, or the session is idle.
SessionEnds(r) ==
    /\ \/ /\ closeChan[r] # <<>>
          /\ ServeEnds(r, Head(closeChan[r]))
          /\ closeChan' = [closeChan EXCEPT ![r] = Tail(@)]
       \/ connDone /\ ServeEnds(r, "context") /\ UNCHANGED closeChan
    /\ UNCHANGED <<sid, sessionsReader, sessions, running, connDone, groupDone>>

SessionIdle(r) ==
    /\ ServeEnds(r, "idle")
    /\ UNCHANGED <<sid, sessionsReader, closeChan, sessions, running, connDone, groupDone>>

\* dstToTransport fails to read: the origin, or waitForCloseCondition, closed dstConn.
ReadFails(r) ==
    /\ sessionsReader[r] = "reading"
    /\ sessionsReader' = [sessionsReader EXCEPT ![r] = "done"]
    /\ closeChan' = [closeChan EXCEPT ![r] = Append(@, "read")]
    /\ UNCHANGED <<pc, sid, slots, sessions, running, connDone, groupDone>>

\* closeUDPSession: UnregisterSession by the id, unless the context is done or the
\* loop has returned, a call to the edge that has a timeout, and the deferred Release.
CloseSession(r) ==
    /\ GotoCall(r, "closing", "ended")
    /\ \/ running /\ UnregisterSession(sid[r], "local")
       \/ (connDone \/ ~running) /\ UNCHANGED <<sessions, closeChan>>
    /\ Release
    /\ UNCHANGED <<sid, sessionsReader, running, connDone, groupDone>>

ConnectionEnds ==
    /\ ~connDone
    /\ connDone' = TRUE /\ groupDone' = TRUE
    /\ UNCHANGED <<pc, sid, sessionsReader, closeChan, slots, sessions, running>>

\* Another goroutine of the connection has returned; the connection is closed later.
GroupEnds ==
    /\ ~groupDone
    /\ groupDone' = TRUE
    /\ UNCHANGED <<pc, sid, sessionsReader, closeChan, slots, sessions, running, connDone>>

Continue(r) ==
    Dial(r) \/ RegisterSessionFails(r) \/ RegisterSession(r) \/ SessionEnds(r) \/ CloseSession(r)

SessionsNext ==
    \/ \E r \in Calls : (\E id \in Ids : Acquire(r, id)) \/ Continue(r) \/ SessionIdle(r) \/ ReadFails(r)
    \/ \E id \in Ids : EdgeUnregisters(id)
    \/ ShutdownSessions \/ ConnectionEnds \/ GroupEnds

\* The goroutines of the calls, the sessions and the manager go on when they can.
SessionsSpec ==
    /\ SessionsInit /\ [][SessionsNext]_v2Vars
    /\ WF_v2Vars(ShutdownSessions) /\ \A r \in Calls : WF_v2Vars(Continue(r))

-----------------------------------------------------------------------------

\* The slots count the calls that dial, offer, serve or close.
SlotsCount ==
    slots = Cardinality({r \in Calls : pc[r] \in {"dialing", "offering", "serving", "closing"}})

\* While the connection is up the map holds no session that has ended; a session
\* is closed on behalf of this side only when its id was registered twice: then
\* the end of the one that lost its place unregisters its successor; and the loop
\* never blocks on a session, whose closeChan has a capacity of 2.
MapIsOfRunningSessions ==
    /\ \A id \in Ids : (running /\ ~connDone /\ sessions[id] # NoSession) => pc[sessions[id]] # "ended"
    /\ \A r \in Calls : (pc[r] = "serving" /\ \E i \in DOMAIN closeChan[r] : closeChan[r][i] = "local")
         => \E other \in Calls \ {r} : sid[other] = sid[r]
    /\ \A r \in Calls : Len(closeChan[r]) <= 2
    /\ SlotsCount

\* When the connection is gone every slot is released, of replaced sessions too.
SlotsReleased == connDone ~> (slots = 0 /\ \A r \in Calls : pc[r] \in {"idle", "ended"})

\* The map of sessions and the limiter agree with what runs, and are empty after
\* the connection (sessionManager, registerUDPSession).
SessionsAreReleased == []MapIsOfRunningSessions /\ SlotsReleased
=============================================================================
