----------------------------- MODULE DatagramsV3 -----------------------------
(* The data path of datagrams v3 (quic/v3/muxer.go, session.go, datagram.go): the
   goroutines of one connection, which read datagrams and hand them on through
   bounded channels, and those of one session that runs on it.  SessionsV3 has
   how sessions are registered and migrated.                                 *)
EXTENDS Naturals, Sequences

CONSTANTS
    MaxReceived, \* bound: datagrams that come in
    DemuxCap,    \* demuxChanCapacity
    IcmpCap,     \* icmpDatagramChanCapacity
    WriteCap     \* writeChanCapacity

ASSUME LoopsAssumption ==
    MaxReceived \in Nat /\ DemuxCap \in Nat /\ IcmpCap \in Nat /\ WriteCap \in Nat

VARIABLES
    ctx,                       \* is cloudflared told to stop
    conn,                      \* is the QUIC connection there
    received,                  \* datagrams that came in
    poll,                      \* pollDatagrams: "read", "send" or "ended"
    held,                      \* the datagram it is about to send on
    demuxChan,                 \* the channel to Serve
    readErrors,                \* errors in the channel of that name
    serve,                     \* is Serve running
    icmp,                      \* the channel to processICMPDatagrams
    icmpLoop,                  \* is that running
    session,                   \* "serving", "closing" or "ended"
    errChan,                   \* errors in its channel, which has three slots
    sessionClosed,             \* are closeWrite and the origin socket closed
    active,                    \* is there an item in activeAtChan
    writeChan, writer, reader, \* the channel and the two loops of the session
    toOrigin                   \* history: the datagrams written to the origin

loopsVars == <<ctx, conn, received, poll, held, demuxChan, readErrors, serve, icmp, icmpLoop,
               session, errChan, sessionClosed, active, writeChan, writer, reader, toOrigin>>
muxer == <<received, poll, held, demuxChan, readErrors, serve, icmp, icmpLoop>>
loops == <<session, errChan, sessionClosed, active, writeChan, writer, reader, toOrigin>>

\* a payload of the session or of a flow that is not known; an ICMP packet; what
\* does not parse, is a response, or of an unknown type
Kinds == {"payload", "unknownFlow", "icmp", "invalid"}
Datagrams == [n : 1..MaxReceived, kind : Kinds]

LoopsTypeOK ==
    /\ {ctx, conn, serve, icmpLoop, sessionClosed, active, writer, reader} \subseteq BOOLEAN
    /\ received \in 0..MaxReceived /\ poll \in {"read", "send", "ended"}
    /\ readErrors \in 0..2 /\ errChan \in 0..3 /\ session \in {"serving", "closing", "ended"}
    /\ Len(demuxChan) <= DemuxCap /\ Len(icmp) <= IcmpCap /\ Len(writeChan) <= WriteCap
    /\ \A q \in {demuxChan, icmp, writeChan} : q \in Seq(Datagrams)

LoopsInit ==
    /\ ctx = FALSE /\ conn = TRUE /\ received = 0
    /\ poll = "read" /\ held = <<>> /\ demuxChan = <<>> /\ readErrors = 0
    /\ serve = TRUE /\ icmp = <<>> /\ icmpLoop = TRUE
    /\ session = "serving" /\ errChan = 0 /\ sessionClosed = FALSE /\ active = FALSE
    /\ writeChan = <<>> /\ writer = TRUE /\ reader = TRUE /\ toOrigin = <<>>

StopProgram == ~ctx /\ ctx' = TRUE /\ UNCHANGED <<conn, muxer, loops>>
ConnIsLost == conn /\ conn' = FALSE /\ UNCHANGED <<ctx, muxer, loops>>

-----------------------------------------------------------------------------
(* The connection.  The context of its readers ends with it and with Serve.  *)
ReadDone == ~conn \/ ~serve

Receive ==
    /\ poll = "read" /\ ~ReadDone /\ received < MaxReceived
    /\ received' = received + 1 /\ poll' = "send"
    /\ \E k \in Kinds : held' = <<[n |-> received + 1, kind |-> k]>>
    /\ UNCHANGED <<ctx, conn, demuxChan, readErrors, serve, icmp, icmpLoop, loops>>

ReceiveFails ==
    /\ poll = "read" /\ ReadDone
    /\ poll' = "ended" /\ readErrors' = readErrors + 1
    /\ UNCHANGED <<ctx, conn, received, held, demuxChan, serve, icmp, icmpLoop, loops>>

SendOn ==
    /\ poll = "send" /\ Len(demuxChan) < DemuxCap
    /\ demuxChan' = demuxChan \o held /\ held' = <<>> /\ poll' = "read"
    /\ UNCHANGED <<ctx, conn, received, readErrors, serve, icmp, icmpLoop, loops>>

\* a full channel drops what comes in
Put(chan, cap, d) == IF Len(chan) < cap THEN Append(chan, d) ELSE chan

\* the session is known until its Serve has returned
Demux ==
    /\ serve /\ demuxChan # <<>>
    /\ demuxChan' = Tail(demuxChan)
    /\ LET d == Head(demuxChan) IN
       /\ writeChan' = IF d.kind = "payload" /\ session # "ended"
                         THEN Put(writeChan, WriteCap, d) ELSE writeChan
       /\ icmp' = IF d.kind = "icmp" THEN Put(icmp, IcmpCap, d) ELSE icmp
    /\ UNCHANGED <<ctx, conn, received, poll, held, readErrors, serve, icmpLoop,
                   session, errChan, sessionClosed, active, writer, reader, toOrigin>>

ServeReturns ==
    /\ serve /\ (ctx \/ ~conn \/ readErrors > 0)
    /\ serve' = FALSE
    /\ UNCHANGED <<ctx, conn, received, poll, held, demuxChan, readErrors, icmp, icmpLoop,
                   loops>>

\* routed with one hop less, or answered that its hops are used up, or dropped
WriteICMP ==
    /\ icmpLoop /\ icmp # <<>> /\ icmp' = Tail(icmp)
    /\ UNCHANGED <<ctx, conn, received, poll, held, demuxChan, readErrors, serve, icmpLoop,
                   loops>>

IcmpEnds ==
    /\ icmpLoop /\ ReadDone /\ icmpLoop' = FALSE
    /\ UNCHANGED <<ctx, conn, received, poll, held, demuxChan, readErrors, serve, icmp, loops>>

-----------------------------------------------------------------------------
(* The session.  closeSession, and the one that closes, do not wait for a full
   channel of errors.                                                        *)
WithError == IF errChan < 3 THEN errChan + 1 ELSE errChan

\* a packet is copied to the edge (one of the wrong size is dropped), or reading
\* or sending fails
ReadLoop ==
    /\ reader
    /\ \/ ~sessionClosed /\ conn /\ active' = TRUE /\ UNCHANGED <<reader, errChan>>
       \/ reader' = FALSE /\ errChan' = WithError /\ UNCHANGED active
    /\ UNCHANGED <<ctx, conn, muxer, session, sessionClosed, writeChan, writer, toOrigin>>

\* a write is done, misses its deadline or is short, or fails, as it does on a
\* closed socket
WriteLoop ==
    /\ writer /\ writeChan # <<>>
    /\ writeChan' = Tail(writeChan)
    /\ \/ /\ ~sessionClosed /\ toOrigin' = Append(toOrigin, Head(writeChan).n) /\ active' = TRUE
          /\ UNCHANGED <<errChan, writer>>
       \/ ~sessionClosed /\ UNCHANGED <<errChan, writer, toOrigin, active>>
       \/ errChan' = WithError /\ writer' = FALSE /\ UNCHANGED <<toOrigin, active>>
    /\ UNCHANGED <<ctx, conn, muxer, session, sessionClosed, reader>>

WriterEnds ==
    /\ writer /\ sessionClosed /\ writer' = FALSE
    /\ UNCHANGED <<ctx, conn, muxer, session, errChan, sessionClosed, active, writeChan,
                   reader, toOrigin>>

\* waitForCloseCondition: the context of the connection, an error or the idle
\* timer, which activity stops
StopsWaiting ==
    /\ session = "serving"
    /\ \/ ~conn /\ UNCHANGED errChan
       \/ errChan > 0 /\ errChan' = errChan - 1
       \/ UNCHANGED errChan
    /\ session' = "closing"
    /\ UNCHANGED <<ctx, conn, muxer, sessionClosed, active, writeChan, writer, reader,
                   toOrigin>>

ResetTimer ==
    /\ session = "serving" /\ active /\ active' = FALSE
    /\ UNCHANGED <<ctx, conn, muxer, session, errChan, sessionClosed, writeChan, writer,
                   reader, toOrigin>>

\* closeFn; the mutant leaves the loops to find out
CloseUnannounced ==
    /\ session = "closing" /\ session' = "ended" /\ errChan' = WithError
    /\ UNCHANGED <<ctx, conn, muxer, sessionClosed, active, writeChan, writer, reader,
                   toOrigin>>

Close ==
    /\ session = "closing" /\ session' = "ended" /\ errChan' = WithError
    /\ sessionClosed' = TRUE
    /\ UNCHANGED <<ctx, conn, muxer, active, writeChan, writer, reader, toOrigin>>

LoopsNext ==
    \/ StopProgram \/ ConnIsLost \/ Receive \/ ReceiveFails \/ SendOn \/ Demux \/ ServeReturns
    \/ WriteICMP \/ IcmpEnds \/ ReadLoop \/ WriteLoop \/ WriterEnds \/ StopsWaiting
    \/ ResetTimer \/ Close

\* each goroutine goes on; the idle timer and the peers need not
MuxerGoesOn == SendOn \/ Demux \/ ReceiveFails
SessionGoesOn == ((~conn \/ errChan > 0) /\ StopsWaiting) \/ Close

LoopsSpec ==
    /\ LoopsInit /\ [][LoopsNext]_loopsVars
    /\ WF_loopsVars(MuxerGoesOn) /\ WF_loopsVars(ServeReturns) /\ WF_loopsVars(IcmpEnds)
    /\ WF_loopsVars(SessionGoesOn) /\ WF_loopsVars(WriterEnds) /\ WF_loopsVars(sessionClosed /\ ReadLoop)

-----------------------------------------------------------------------------
\* pollDatagrams waits for room that nobody makes once Serve has returned
PollIsStuck == poll = "send" /\ Len(demuxChan) = DemuxCap /\ ~serve

(* Payloads reach the origin in the order they came in, none twice, although
   full channels drop some; and when the connection is lost, everything that
   runs on it ends, whichever of the loops finds out first, but for the poller
   that waits for room in a channel that is not read any more (waitForCloseCondition,
   closeFn, pollDatagrams).                                                  *)
InOrder == \A i \in 1..Len(toOrigin) : \A j \in 1..i-1 : toOrigin[j] < toOrigin[i]
AllEnd ==
    ~conn ~> ~serve /\ ~icmpLoop /\ session = "ended" /\ ~reader /\ ~writer
             /\ (poll = "ended" \/ PollIsStuck)
LossEndsAll == []InOrder /\ AllEnd
=============================================================================
