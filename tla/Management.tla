----------------------------- MODULE Management -----------------------------
(***************************************************************************)
(* management/service.go, logger.go and session.go: websockets that ask    *)
(* for the log.  A handler reads client events that another goroutine      *)
(* hands it, and starts goroutines that stream.  Only one actor may stream *)
(* at a time; a new session of the same actor takes over from the old one. *)
(***************************************************************************)
EXTENDS Naturals, Sequences, FiniteSets

CONSTANTS
    Sessions,  \* websocket connections, each with its session
    Actors,
    MaxEvents, \* bound: the events a client sends
    NoActor

VARIABLES
    actorOf,      \* the actor in the token of each connection
    handler,      \* where logs() of each connection is
    logsReader,   \* readEvents, and the event it holds
    sent,         \* events the client has sent
    logsActive,   \* session.active
    logsCanceled, \* the context of the connection
    idleTimer,    \* whether the idle timer runs
    streamers,    \* streamLogs goroutines that run
    listeners,    \* how often Logger.sessions, a slice, lists each session
    again,        \* history: the sessions that were listed a second time
    raced         \* history: a stream was allowed while another was about to listen

mgmtVars == <<actorOf, handler, logsReader, sent, logsActive, logsCanceled, idleTimer,
              streamers, listeners, again, raced>>

LogsTypeOK ==
    /\ actorOf \in [Sessions -> Actors \cup {NoActor}]
    /\ handler \in [Sessions -> {"none", "loop", "allowed", "ended"}]
    /\ logsReader \in [Sessions -> {"none", "reading", "start", "stop", "done"}]
    /\ sent \in [Sessions -> 0..MaxEvents]
    /\ {logsActive, logsCanceled, idleTimer} \subseteq [Sessions -> BOOLEAN]
    /\ streamers \in [Sessions -> Nat]
    /\ listeners \in [Sessions -> Nat] /\ again \subseteq Sessions /\ raced \in BOOLEAN

LogsInit ==
    /\ actorOf = [s \in Sessions |-> NoActor]
    /\ handler = [s \in Sessions |-> "none"]
    /\ logsReader = [s \in Sessions |-> "none"]
    /\ sent = [s \in Sessions |-> 0]
    /\ logsActive = [s \in Sessions |-> FALSE]
    /\ logsCanceled = [s \in Sessions |-> FALSE]
    /\ idleTimer = [s \in Sessions |-> FALSE]
    /\ streamers = [s \in Sessions |-> 0]
    /\ listeners = [s \in Sessions |-> 0]
    /\ again = {}
    /\ raced = FALSE

\* logs() begins: the websocket and the token are accepted.
Connect(s, actor) ==
    /\ handler[s] = "none"
    /\ handler' = [handler EXCEPT ![s] = "loop"]
    /\ logsReader' = [logsReader EXCEPT ![s] = "reading"]
    /\ idleTimer' = [idleTimer EXCEPT ![s] = TRUE]
    /\ actorOf' = [actorOf EXCEPT ![s] = actor]
    /\ UNCHANGED <<sent, logsActive, logsCanceled, streamers, listeners, again, raced>>

\* readEvents: a valid event is held until the handler takes it.
ReadEvent(s, type) ==
    /\ logsReader[s] = "reading" /\ ~logsCanceled[s] /\ sent[s] < MaxEvents
    /\ logsReader' = [logsReader EXCEPT ![s] = type]
    /\ sent' = [sent EXCEPT ![s] = @ + 1]
    /\ UNCHANGED <<actorOf, handler, logsActive, logsCanceled, idleTimer, streamers,
                   listeners, again, raced>>

\* The context is done, or the client is gone or sends what is no event, which
\* closes the connection but not its context.
ReaderEnds(s) ==
    /\ logsReader[s] = "reading"
    /\ logsReader' = [logsReader EXCEPT ![s] = "done"]
    /\ UNCHANGED <<actorOf, handler, sent, logsActive, logsCanceled, idleTimer, streamers,
                   listeners, again, raced>>

\* Logger.Remove takes the first entry of a session out, and leaves a second one.
Remove(s) == [listeners EXCEPT ![s] = IF @ = 0 THEN 0 ELSE @ - 1]

\* The deferred calls of logs(): Remove, the timers, cancel.
HandlerReturns(s) ==
    /\ handler' = [handler EXCEPT ![s] = "ended"]
    /\ logsCanceled' = [logsCanceled EXCEPT ![s] = TRUE]
    /\ idleTimer' = [idleTimer EXCEPT ![s] = FALSE]
    /\ listeners' = Remove(s)

\* The handler sees its context done, or the idle timer fires.
HandlerEnds(s) ==
    /\ handler[s] = "loop" /\ (logsCanceled[s] \/ idleTimer[s])
    /\ HandlerReturns(s)
    /\ UNCHANGED <<actorOf, logsReader, sent, logsActive, streamers, again, raced>>

ActiveSessions == {l \in Sessions : listeners[l] > 0 /\ logsActive[l]}
ActiveSession(actor) == {l \in ActiveSessions : actorOf[l] = actor}

Takes(s, type) ==
    /\ handler[s] = "loop" /\ logsReader[s] = type
    /\ logsReader' = [logsReader EXCEPT ![s] = "reading"]

\* canStartStream: nobody streams, or a session of the same actor does, which is
\* stopped, removed and canceled.  Which one is the first in the slice is left open.
CanStartStream(s, old) ==
    IF ActiveSessions = {} THEN old = {} ELSE old \in {{l} : l \in ActiveSession(actorOf[s])}

\* start_streaming is allowed, under the lock of canStartStream.
StartAllowed(s) ==
    /\ Takes(s, "start")
    /\ \E old \in SUBSET ActiveSessions :
          /\ CanStartStream(s, old)
          /\ logsActive' = [l \in Sessions |-> logsActive[l] /\ l \notin old]
          /\ logsCanceled' = [l \in Sessions |-> logsCanceled[l] \/ l \in old]
          /\ listeners' = [l \in Sessions |-> IF l \in old THEN Remove(l)[l] ELSE listeners[l]]
    /\ handler' = [handler EXCEPT ![s] = "allowed"]
    /\ idleTimer' = [idleTimer EXCEPT ![s] = FALSE]
    /\ raced' = (raced \/ \E other \in Sessions : handler[other] = "allowed")
    /\ UNCHANGED <<actorOf, sent, streamers, again>>

\* Another actor streams: the connection is closed.
StartRefused(s) ==
    /\ Takes(s, "start")
    /\ ActiveSessions # {} /\ ActiveSession(actorOf[s]) = {}
    /\ HandlerReturns(s)
    /\ UNCHANGED <<actorOf, sent, logsActive, streamers, again, raced>>

\* Listen, without that lock, appends the session whether it is listed or not: one
\* whose last stream could not be written to still is.  A goroutine streams for it.
Listen(s) ==
    /\ handler[s] = "allowed"
    /\ handler' = [handler EXCEPT ![s] = "loop"]
    /\ logsActive' = [logsActive EXCEPT ![s] = TRUE]
    /\ listeners' = [listeners EXCEPT ![s] = @ + 1]
    /\ again' = IF listeners[s] > 0 THEN again \cup {s} ELSE again
    /\ streamers' = [streamers EXCEPT ![s] = @ + 1]
    /\ UNCHANGED <<actorOf, logsReader, sent, logsCanceled, idleTimer, raced>>

StopStreaming(s) ==
    /\ Takes(s, "stop")
    /\ logsActive' = [logsActive EXCEPT ![s] = FALSE]
    /\ listeners' = Remove(s)
    /\ idleTimer' = [idleTimer EXCEPT ![s] = TRUE]
    /\ UNCHANGED <<actorOf, handler, sent, logsCanceled, streamers, again, raced>>

\* mutant: streamLogs does not look at its context.
StreamerEndsWhenStopped(s) ==
    /\ streamers[s] > 0 /\ ~logsActive[s]
    /\ streamers' = [streamers EXCEPT ![s] = @ - 1]
    /\ UNCHANGED <<actorOf, handler, logsReader, sent, logsActive, logsCanceled, idleTimer,
                   listeners, again, raced>>

\* streamLogs finds the session inactive, or its context done, and stops it.
StreamerEnds(s) ==
    /\ streamers[s] > 0 /\ (~logsActive[s] \/ logsCanceled[s])
    /\ streamers' = [streamers EXCEPT ![s] = @ - 1]
    /\ logsActive' = [logsActive EXCEPT ![s] = FALSE]
    /\ UNCHANGED <<actorOf, handler, logsReader, sent, logsCanceled, idleTimer, listeners,
                   again, raced>>

\* streamLogs cannot write an event to the client, and stops the session.
WriteFails(s) ==
    /\ streamers[s] > 0
    /\ streamers' = [streamers EXCEPT ![s] = @ - 1]
    /\ logsActive' = [logsActive EXCEPT ![s] = FALSE]
    /\ UNCHANGED <<actorOf, handler, logsReader, sent, logsCanceled, idleTimer, listeners,
                   again, raced>>

\* The edge ends the stream of the request.
RequestCanceled(s) ==
    /\ handler[s] \in {"loop", "allowed"} /\ ~logsCanceled[s]
    /\ logsCanceled' = [logsCanceled EXCEPT ![s] = TRUE]
    /\ UNCHANGED <<actorOf, handler, logsReader, sent, logsActive, idleTimer, streamers,
                   listeners, again, raced>>

LogsProgress(s) == (logsCanceled[s] /\ HandlerEnds(s)) \/ Listen(s) \/ StreamerEnds(s)

LogsNext ==
    \E s \in Sessions :
        \/ (\E actor \in Actors : Connect(s, actor)) \/ ReaderEnds(s) \/ HandlerEnds(s)
        \/ \E type \in {"start", "stop"} : ReadEvent(s, type)
        \/ StartAllowed(s) \/ StartRefused(s) \/ Listen(s) \/ StopStreaming(s)
        \/ StreamerEnds(s) \/ WriteFails(s) \/ RequestCanceled(s)

\* Goroutines that can go on do.
LogsSpec == LogsInit /\ [][LogsNext]_mgmtVars /\ \A s \in Sessions : WF_mgmtVars(LogsProgress(s))

-----------------------------------------------------------------------------

\* "Limits to one actor for streaming logs": it holds unless a second request is
\* allowed between canStartStream and Listen of the first, which the lock does not
\* cover.  Only connections that are being served are listed, unless one started again
\* while it was listed: Remove leaves its second entry.  Even so a session counts as
\* active only while a goroutine streams for it, so that it cannot lock others out.
OneActorStreams ==
    /\ ~raced => Cardinality({actorOf[s] : s \in ActiveSessions}) <= 1
    /\ \A s \in Sessions \ again :
          listeners[s] <= IF handler[s] \in {"none", "ended"} THEN 0 ELSE 1
    /\ \A s \in Sessions : logsActive[s] => streamers[s] > 0

\* A session that is taken over, or whose request ends, is given up whole: its
\* handler returns and every goroutine that streams for it ends, two after a stop
\* and a quick start.
CanceledSessionEnds ==
    \A s \in Sessions : logsCanceled[s] ~> (handler[s] = "ended" /\ streamers[s] = 0)

\* The log is streamed to one actor, and no longer than he asks for it
\* (canStartStream, session.Stop).
StreamsEndWithTheirActor == []OneActorStreams /\ CanceledSessionEnds
=============================================================================
