------------------------------ MODULE LogTail ------------------------------
(***************************************************************************)
(* The way of a log line: cmd/cloudflared/tail/cmd.go, a command that asks *)
(* a daemon for its log over a websocket; management/events.go, the events *)
(* they exchange; management/logger.go and session.go, which read a line,  *)
(* filter it and put it into the window of the session.  Who may stream is *)
(* the module Management.  Beside the command there is a page, which may   *)
(* start and stop several times.                                           *)
(***************************************************************************)
EXTENDS Naturals, Sequences, FiniteSets

CONSTANTS
    Lines,     \* lines the daemon may log, as zerolog writes them
    MaxLines,  \* bound: how many it logs
    MaxStarts, \* bound: how often the page starts
    Window,    \* logWindow
    Unset

VARIABLES
    client,  \* "tail" or "page"
    option,  \* what the command line of the tail says
    tailCmd,     \* where the command is
    asked,   \* history: the filters the client last asked for
    starts,  \* history: the starts it sent
    toward,  \* events on the way to the daemon
    filters, \* session.filters
    sampler, \* session.sampler is set
    active,  \* the session listens
    streams, \* the streamLogs of the session that have not ended, by their number
    received,\* of each: the line it has received and not sent, if any, as a set
    paired,  \* history: did one begin while another had not ended
    window,  \* session.listener
    wire,    \* events on the way to the client
    close,   \* how the websocket was closed
    logged,  \* lines logged so far
    printed  \* what the client has printed

streaming == <<active, streams, received, paired>>
tailVars == <<client, option, tailCmd, asked, starts, toward, filters, sampler, streaming,
              window, wire, close, logged, printed>>
server == <<filters, sampler, streaming, window, wire, logged>>

\* LogLevel and LogEventType, with what ParseLogLevel and ParseLogEventType know.
Rank == [debug |-> 0, info |-> 1, warn |-> 2, error |-> 3]
Types == {"cloudflared", "http", "tcp", "udp"}

\* StreamingFilters.  A sampling of 0 is none given, "half" is any between.
NoFilters == [level |-> Unset, events |-> {}, sampling |-> "0"]

Options ==
    [level : {Unset, "debug", "error", "word"}, events : {{}, {"http"}, {"word"}},
     sampling : {"0", "half", "1", "2"}, token : {"given", "asked", "bad"}, connector : BOOLEAN]
ASSUME TailAssumption == \A o \in Options :
    Unset # [level |-> o.level, events |-> o.events, sampling |-> o.sampling]

TailInit ==
    /\ client \in {"tail", "page"}
    /\ option \in Options
    \* a page has no command line, and what refuses the tail is tried one by one
    /\ client = "page" => option = CHOOSE o \in Options : TRUE
    /\ \/ client = "page" \/ (option.token = "given" /\ option.connector)
       \/ (option.level = "debug" /\ option.events = {} /\ option.sampling = "1")
    /\ tailCmd = IF client = "tail" THEN "begin" ELSE "connected"
    /\ asked = Unset /\ starts = 0 /\ toward = <<>>
    /\ filters = NoFilters /\ sampler = FALSE
    /\ active = FALSE /\ streams = {} /\ received = <<>> /\ paired = FALSE
    /\ window = <<>> /\ wire = <<>> /\ close = Unset /\ logged = <<>> /\ printed = <<>>

-----------------------------------------------------------------------------
\* The command (tail.Run)

Exit == tailCmd' = "ended" /\ UNCHANGED <<client, option, asked, starts, toward, server, close,
                                          printed>>

OptionsRefused ==
    \/ option.level \notin {Unset} \cup DOMAIN Rank
    \/ ~option.events \subseteq Types
    \/ option.sampling \in {"0", "2"}

\* parseFilters: no filters at all if there is no level and no event, and the
\* sampling is NOT the default of 1.
ParsedFilters ==
    IF option.level = Unset /\ option.events = {} /\ option.sampling # "1" THEN Unset
    ELSE [level |-> option.level, events |-> option.events, sampling |-> option.sampling]

ParseFilters ==
    /\ tailCmd = "begin"
    /\ IF OptionsRefused THEN Exit
       ELSE /\ tailCmd' = "url"
            /\ UNCHANGED <<client, option, asked, starts, toward, server, close, printed>>

\* buildURL: a token is given or asked for, its claims are read, and the id of
\* the connector is parsed.  The token tells the host, and the request fails if
\* no credentials are found.
BuildURL ==
    /\ tailCmd = "url"
    /\ \/ (option.token \in {"asked", "bad"} \/ ~option.connector) /\ Exit
       \/ /\ option.token # "bad" /\ option.connector
          /\ tailCmd' = "dial"
          /\ UNCHANGED <<client, option, asked, starts, toward, server, close, printed>>

\* The middleware of the daemon or the edge refuses the request, which
\* handleValidationError reports; every failure ends the command without error.
Dial ==
    /\ tailCmd = "dial"
    /\ \/ Exit
       \/ /\ tailCmd' = "connected"
          /\ UNCHANGED <<client, option, asked, starts, toward, server, close, printed>>

\* The tail starts once, with its filters.
StartStreaming ==
    /\ client = "tail" /\ tailCmd = "connected" /\ starts = 0 /\ close = Unset
    /\ toward' = Append(toward, [type |-> "start", filters |-> ParsedFilters])
    /\ asked' = [level |-> option.level, events |-> option.events, sampling |-> option.sampling]
    /\ starts' = 1
    /\ UNCHANGED <<client, option, tailCmd, server, close, printed>>

\* A page starts and stops, or sends what is no event.
PageSends(type) ==
    /\ client = "page" /\ tailCmd = "connected" /\ starts < MaxStarts /\ close = Unset
    /\ \E f \in {Unset, [NoFilters EXCEPT !.level = "error"], [NoFilters EXCEPT !.sampling = "half"]} :
          /\ type # "start" => f = Unset
          /\ toward' = Append(toward, [type |-> type, filters |-> f])
          /\ asked' = IF type # "start" THEN asked ELSE IF f = Unset THEN NoFilters ELSE f
    /\ starts' = starts + 1
    /\ UNCHANGED <<client, option, tailCmd, server, close, printed>>

\* The reader ends at the first event it cannot read, and Run with it.
ReaderEnds ==
    /\ tailCmd = "connected" /\ close # Unset /\ wire = <<>>
    /\ Exit

\* ReadServerEvent and IntoServerEvent: a line whose type has no name was sent as
\* "", which cannot be read: the event is skipped.
Readable(line) == line.event \in Types

ReadLogs ==
    /\ tailCmd = "connected" /\ wire # <<>>
    /\ wire' = Tail(wire)
    /\ printed' = IF Readable(Head(wire)) THEN Append(printed, Head(wire)) ELSE printed
    /\ UNCHANGED <<client, option, tailCmd, asked, starts, toward, filters, sampler, streaming,
                   window, close, logged>>

\* A signal closes the websocket; the reader has a second to end.
Signal ==
    /\ client = "tail" /\ tailCmd = "connected" /\ close = Unset
    /\ close' = "normal"
    /\ tailCmd' \in {"connected", "ended"}
    /\ UNCHANGED <<client, option, asked, starts, toward, server, printed>>

-----------------------------------------------------------------------------
\* The session

\* session.Filters: a sampler is made for a sampling between 0 and 1, and never
\* removed.
SamplerAfter(f) == sampler \/ (f # Unset /\ f.sampling = "half")

\* ReadClientEvent and logs(): a start takes the filters, listens, and begins to
\* stream, also if the stream of an earlier start has not ended.  A session that
\* listens already takes over from itself, and is cancelled.
TakeStart ==
    /\ close = Unset /\ toward # <<>> /\ Head(toward).type = "start"
    /\ toward' = Tail(toward)
    /\ LET f == Head(toward).filters
       IN  /\ filters' = IF f = Unset THEN NoFilters ELSE f
           /\ sampler' = SamplerAfter(f)
    /\ active' = TRUE
    /\ received' = Append(received, {}) /\ streams' = streams \cup {Len(received) + 1}
    /\ paired' = (paired \/ streams # {})
    /\ close' = IF active THEN "normal" ELSE Unset
    /\ UNCHANGED <<client, option, tailCmd, asked, starts, window, wire, logged, printed>>

\* The window keeps the lines that were not sent.
TakeStop ==
    /\ close = Unset /\ toward # <<>> /\ Head(toward).type = "stop"
    /\ toward' = Tail(toward)
    /\ active' = FALSE
    /\ UNCHANGED <<client, option, tailCmd, asked, starts, filters, sampler, streams, received,
                   paired, window, wire, close, logged, printed>>

\* An event that cannot be read ends the connection.
TakeOther ==
    /\ close = Unset /\ toward # <<>> /\ Head(toward).type = "other"
    /\ toward' = Tail(toward)
    /\ close' = "unsupported" /\ active' = FALSE
    /\ UNCHANGED <<client, option, tailCmd, asked, starts, filters, sampler, streams, received,
                   paired, window, wire, logged, printed>>

\* parseZerologEvent: an error makes the level "error", a level without a name is
\* "debug", a line without a type is of cloudflared.
Parse(line) ==
    [n |-> Len(logged) + 1,
     level |-> IF line.error THEN "error"
               ELSE IF line.level \in DOMAIN Rank THEN line.level ELSE "debug",
     event |-> IF line.event = Unset THEN "cloudflared" ELSE line.event]

\* mutant: the level is compared the other way round.
PassesBelow(f, line) ==
    /\ f.level = Unset \/ Rank[f.level] >= Rank[line.level]
    /\ f.events = {} \/ line.event \in f.events

Passes(f, line) ==
    /\ f.level = Unset \/ Rank[f.level] <= Rank[line.level]
    /\ f.events = {} \/ line.event \in f.events

\* Logger.Write and session.Insert: a line that passes the filters, and the sampler
\* if there is one, is dropped only if the window is full.
Write(line) ==
    /\ Len(logged) < MaxLines
    /\ logged' = Append(logged, Parse(line))
    /\ window' \in IF ~active \/ ~Passes(filters, Parse(line)) THEN {window}
                   ELSE (IF sampler THEN {window} ELSE {})
                        \cup {IF Len(window) < Window THEN Append(window, Parse(line)) ELSE window}
    /\ UNCHANGED <<client, option, tailCmd, asked, starts, toward, filters, sampler, streaming,
                   wire, close, printed>>

\* streamLogs, which has found the session active, receives a line ...
Receive(i) ==
    /\ received[i] = {} /\ window # <<>>
    /\ received' = [received EXCEPT ![i] = {Head(window)}] /\ window' = Tail(window)
    /\ UNCHANGED <<client, option, tailCmd, asked, starts, toward, filters, sampler, active,
                   streams, paired, wire, close, logged, printed>>

\* ... and sends it, and looks at the session again; a failure stops the session
Stream(i) ==
    /\ \E line \in received[i] :
          \/ /\ close = Unset /\ wire' = Append(wire, line)
             /\ streams' = IF active THEN streams ELSE streams \ {i}
             /\ UNCHANGED <<active, close>>
          \/ /\ active' = FALSE /\ wire' = wire /\ streams' = streams \ {i}
             /\ close' = IF close = Unset THEN "lost" ELSE close
    /\ received' = [received EXCEPT ![i] = {}]
    /\ UNCHANGED <<client, option, tailCmd, asked, starts, toward, filters, sampler, paired,
                   window, logged, printed>>

\* it finds the session stopped, or the connection gone
StreamLogsEnds(i) ==
    /\ received[i] = {} /\ (~active \/ close # Unset)
    /\ active' = FALSE /\ streams' = streams \ {i}
    /\ UNCHANGED <<client, option, tailCmd, asked, starts, toward, filters, sampler, received,
                   paired, window, wire, close, logged, printed>>

TailNext ==
    \/ ParseFilters \/ BuildURL \/ Dial \/ StartStreaming \/ ReadLogs \/ ReaderEnds \/ Signal
    \/ \E t \in {"start", "stop", "other"} : PageSends(t)
    \/ TakeStart \/ TakeStop \/ TakeOther
    \/ \E i \in streams : Receive(i) \/ Stream(i) \/ StreamLogsEnds(i)
    \/ \E l \in Lines : Write(l)

TailSpec == TailInit /\ [][TailNext]_tailVars

-----------------------------------------------------------------------------
\* Properties

\* What the client last asked for: a level and above, of the types it names.
WasAsked(line) ==
    /\ asked.level # Unset => line.level \in {l \in DOMAIN Rank : Rank[l] >= Rank[asked.level]}
    /\ asked.events = {} \/ line.event \in asked.events

\* The tail prints lines of the log, each once and in order, and only ones that
\* its operator asked for; a page, whose window may keep lines over a restart,
\* gets them once, and in order unless it started again before the stream of an
\* earlier start had ended: two then take from one window (session.Insert,
\* streamLogs, tail.Run).
PrintsWhatWasAsked ==
    /\ \A i \in DOMAIN printed : printed[i] = logged[printed[i].n]
    /\ \A i, j \in DOMAIN printed : i < j =>
          /\ printed[i].n # printed[j].n
          /\ client = "tail" \/ ~paired => printed[i].n < printed[j].n
    /\ client = "tail" => \A i \in DOMAIN printed : WasAsked(printed[i])

\* A session samples the log exactly if its client asked for it: "Sample log events
\* by percentage (0.0 .. 1.0). No sampling by default." (tail/cmd.go).
SamplesAsAsked == active /\ toward = <<>> => sampler = (asked.sampling = "half")
=============================================================================
