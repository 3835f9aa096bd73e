-------------------------------- MODULE Calls --------------------------------
(* One call between cloudflared and the edge over a stream (tunnelrpc): the
   caller, the stream with its preamble, the server that decodes the call and runs
   its handler, and what the caller is told.  The calls of the control stream go to
   the edge; sessions, configurations and connect requests come from it.  Values
   are compared, never looked into.                                          *)
EXTENDS Naturals

CONSTANTS
    Values,      \* what a handler returns: details, spans, versions, metadata
    Delays,      \* the delays the edge asks for before a retry
    NoValue

VARIABLES
    op,          \* the call
    server,      \* the server at the other end
    stream,      \* "new", "open" or "closed"
    handler,     \* "none", "running" or "returned"
    runs,        \* history: how often the handler was run
    outcome,     \* what it returned
    answer,      \* the message on its way back
    result,      \* what the caller is told
    verdict      \* of a registration: what the tunnel does about it

callsVars == <<op, server, stream, handler, runs, outcome, answer, result, verdict>>

Control == {"registerConnection", "updateLocalConfiguration", "unregisterConnection"}
Sessions == {"registerUdpSession", "unregisterUdpSession"}
Ops == Control \cup Sessions \cup {"updateConfiguration", "connect"}

\* The server of an operation.  By its first six bytes the one of cloudflared takes
\* a stream for data or for calls, and that of sessions takes calls only.
Servers(o) ==
    CASE o \in Control -> {"registration"}
      [] o = "updateConfiguration" -> {"cloudflared"}
      [] OTHER -> {"cloudflared", "session"}
Understands(s) == s = "cloudflared"

\* an error has a text and, at a registration, perhaps a delay
Errors == {"EDUPCONN", "other"}
Returned == [err : Errors \cup {NoValue}, delay : Delays \cup {NoValue}, value : Values]
Outcomes(o) ==
    {r \in Returned :
        /\ r.delay # NoValue => o = "registerConnection" /\ r.err # NoValue
        /\ r.err = "EDUPCONN" => o = "registerConnection"
        /\ o = "unregisterConnection" => r.err = NoValue}

CallsTypeOK ==
    /\ op \in Ops /\ server \in Servers(op) /\ stream \in {"new", "open", "closed"}
    /\ handler \in {"none", "running", "returned"} /\ runs \in Nat
    /\ outcome \in Outcomes(op) \cup {NoValue}
    /\ verdict \in {NoValue, "connected", "duplicate", "again", "final"}

CallsInit ==
    /\ op \in Ops /\ server \in Servers(op)
    /\ stream = "new" /\ handler = "none" /\ runs = 0 /\ verdict = NoValue
    /\ outcome = NoValue /\ answer = NoValue /\ result = NoValue

-----------------------------------------------------------------------------
(* What is in an answer.  A registration has details or an error; a session the
   spans or an error; a configuration the version and perhaps an error; a connect
   request metadata and perhaps an error.  The others have no answer of their own,
   and an error of theirs is an exception of the call.                       *)
Message(form, err, delay, value) == [form |-> form, err |-> err, delay |-> delay, value |-> value]

MarshalErrorPlain(r) == Message("error", r.err, NoValue, NoValue)
MarshalError(r) == Message("error", r.err, r.delay, NoValue)

RegistrationAnswer(r) ==
    IF r.err # NoValue THEN MarshalError(r) ELSE Message("details", NoValue, NoValue, r.value)
SessionAnswer(r) ==
    IF r.err # NoValue THEN Message("struct", r.err, NoValue, NoValue)
    ELSE Message("struct", NoValue, NoValue, r.value)
ConfigurationAnswer(r) == Message("struct", r.err, NoValue, r.value)
ConnectAnswer(r) == Message("struct", r.err, NoValue, r.value)
PlainAnswer(r) ==
    Message(IF r.err # NoValue THEN "exception" ELSE "struct", r.err, NoValue, r.value)

Marshal(o, r) ==
    CASE o = "registerConnection" -> RegistrationAnswer(r)
      [] o = "registerUdpSession" -> SessionAnswer(r)
      [] o = "updateConfiguration" -> ConfigurationAnswer(r)
      [] o = "connect" -> ConnectAnswer(r)
      [] OTHER -> PlainAnswer(r)

\* What the caller gets: a value, an error of the handler, or one of the call.
NoAnswer == [rpc |-> TRUE, err |-> "rpc", delay |-> NoValue, value |-> NoValue]
Told(m, rpc) == [rpc |-> rpc, err |-> m.err, delay |-> m.delay, value |-> m.value]

ReadRegistration(m) == Told(m, FALSE)
ReadSession(m) == Told(m, FALSE)
ReadConfiguration(m) == Told(m, FALSE)
ReadConnectResponse(m) == Told(m, FALSE)
ReadPlain(o, m) == Told(m, m.form = "exception" /\ o # "unregisterUdpSession")

Unmarshal(o, m) ==
    CASE o = "registerConnection" -> ReadRegistration(m)
      [] o = "registerUdpSession" -> ReadSession(m)
      [] o = "updateConfiguration" -> ReadConfiguration(m)
      [] o = "connect" -> ReadConnectResponse(m)
      [] OTHER -> ReadPlain(o, m)

-----------------------------------------------------------------------------
\* The stream is opened, or is gone already.  Those of sessions, configurations and
\* connect requests begin with a signature.
Begin(ops) ==
    /\ op \in ops /\ stream = "new"
    /\ \/ stream' = "open" /\ UNCHANGED result
       \/ stream' = "closed" /\ result' = NoAnswer
    /\ UNCHANGED <<op, server, handler, runs, outcome, answer, verdict>>
CallEdge == Begin(Control)
CallSessions == Begin(Sessions)
CallConfiguration == Begin({"updateConfiguration"})
Connect == Begin({"connect"})

\* Serve: what is not of a protocol of the server ends the stream.
Starts == handler' = "running" /\ runs' = runs + 1 /\ UNCHANGED stream
Refused == stream' = "closed" /\ UNCHANGED <<handler, runs>>

AcceptCall ==
    /\ stream = "open" /\ handler = "none" /\ op # "connect" /\ Starts
    /\ UNCHANGED <<op, server, outcome, answer, result, verdict>>

\* Read may return a part of the version, and then the request is not understood
AcceptRequest ==
    /\ stream = "open" /\ handler = "none" /\ op = "connect"
    /\ (Understands(server) /\ Starts) \/ Refused
    /\ UNCHANGED <<op, server, outcome, answer, result, verdict>>

\* The handler goes on when the stream is gone: its answer is lost.
HandlerReturns ==
    /\ handler = "running" /\ handler' = "returned"
    /\ \E r \in Outcomes(op) :
          outcome' = r /\ answer' = IF stream = "open" THEN Marshal(op, r) ELSE NoValue
    /\ UNCHANGED <<op, server, stream, runs, result, verdict>>

\* responseTimeout, the end of the connection, a cancelled context
StreamEnds ==
    /\ stream = "open" /\ stream' = "closed"
    /\ UNCHANGED <<op, server, handler, runs, outcome, answer, result, verdict>>

\* requestTimeout and the grace period; a connect request has neither
TimesOut ==
    /\ op # "connect" /\ stream = "open" /\ result = NoValue /\ result' = NoAnswer
    /\ UNCHANGED <<op, server, stream, handler, runs, outcome, answer, verdict>>

Return ==
    /\ result = NoValue /\ stream # "new"
    /\ \/ answer # NoValue /\ result' = Unmarshal(op, answer)
       \/ stream = "closed" /\ result' = NoAnswer
    /\ UNCHANGED <<op, server, stream, handler, runs, outcome, answer, verdict>>

\* ServeControlStream: the text of a duplicate is looked for first
Judge ==
    /\ op = "registerConnection" /\ result # NoValue /\ verdict = NoValue
    /\ verdict' = CASE result.err = NoValue -> "connected"
                    [] result.err = "EDUPCONN" -> "duplicate"
                    [] result.err = "other" /\ result.delay # NoValue -> "again"
                    [] OTHER -> "final"
    /\ UNCHANGED <<op, server, stream, handler, runs, outcome, answer, result>>

CallsNext ==
    \/ CallEdge \/ CallSessions \/ CallConfiguration \/ Connect \/ AcceptCall \/ AcceptRequest
    \/ HandlerReturns \/ StreamEnds \/ TimesOut \/ Return \/ Judge
CallsSpec == CallsInit /\ [][CallsNext]_callsVars

-----------------------------------------------------------------------------
(* The caller is told of a success only when the handler was run, once, and
   succeeded with that value, of an error of the handler only when it returned
   that one, and whatever ends the call early is an error of the call; a tunnel
   is connected, tries another address or another time only because the edge said
   so (RegisterConnection, RegisterUdpSession, UpdateConfiguration,
   ServeControlStream).                                                      *)
CallsAreTruthful ==
    /\ runs <= 1
    /\ result # NoValue /\ result.err = NoValue =>
          handler = "returned" /\ outcome.err = NoValue /\ outcome.value = result.value
    /\ result # NoValue /\ result.err \in Errors =>
          handler = "returned" /\ outcome.err = result.err
    /\ verdict = "again" <=> verdict # NoValue /\ result # NoAnswer
                                /\ outcome.err = "other" /\ outcome.delay # NoValue
    /\ verdict = "duplicate" => outcome.err = "EDUPCONN"
    /\ verdict = "connected" => outcome.err = NoValue
=============================================================================
