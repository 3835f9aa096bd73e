------------------------------ MODULE MCDaemon ------------------------------
(* Parts of the daemon that share no variable, side by side: a behaviour runs
   the part that is named by the variable part, the others stay as they are.
   These are the parts with properties of liveness.                          *)
EXTENDS EdgeAddrs, EdgeConnection, DatagramsV2, DatagramsV3, Orchestrator, Management,
        TunnelProcess

CONSTANTS a1, a2, a3, a4, b1, b2, b3, b4

VARIABLE part

\* Two regions of two addresses of each family, and a lookup that finds one IPv4
\* address less in each.
MCAddrs == {a1, a2, a3, a4, b1, b2, b3, b4}
MCIPv6 == {b1, b2, b3, b4}
MCRegion1 == {a1, a2, b1, b2}
MCResolutions == {MCAddrs, MCAddrs \ {a2, a4}}

MCInit ==
    /\ part \in {"addrs", "conn", "sessions", "loops", "config",
                  "logs", "process"}
    \* what the parts that do not run start with is fixed
    /\ part # "addrs" => resolved = MCAddrs /\ override = "auto"
    /\ part # "conn" => transport = "quic"
    /\ AddrsInit
    /\ ConnInit
    /\ SessionsInit
    /\ LoopsInit
    /\ ConfigInit
    /\ LogsInit
    /\ ProcessInit

AddrsStep ==
    /\ part = "addrs" /\ AddrsNext
    /\ UNCHANGED <<part, connVars, v2Vars, loopsVars, orchVars, mgmtVars, processVars>>
ConnStep ==
    /\ part = "conn" /\ ConnNext
    /\ UNCHANGED <<part, addrsVars, v2Vars, loopsVars, orchVars, mgmtVars, processVars>>
SessionsStep ==
    /\ part = "sessions" /\ SessionsNext
    /\ UNCHANGED <<part, addrsVars, connVars, loopsVars, orchVars, mgmtVars, processVars>>
LoopsStep ==
    /\ part = "loops" /\ LoopsNext
    /\ UNCHANGED <<part, addrsVars, connVars, v2Vars, orchVars, mgmtVars, processVars>>
ConfigStep ==
    /\ part = "config" /\ ConfigNext
    /\ UNCHANGED <<part, addrsVars, connVars, v2Vars, loopsVars, mgmtVars, processVars>>
LogsStep ==
    /\ part = "logs" /\ LogsNext
    /\ UNCHANGED <<part, addrsVars, connVars, v2Vars, loopsVars, orchVars, processVars>>
ProcessStep ==
    /\ part = "process" /\ ProcessNext
    /\ UNCHANGED <<part, addrsVars, connVars, v2Vars, loopsVars, orchVars, mgmtVars>>

MCNext == AddrsStep \/ ConnStep \/ SessionsStep \/ LoopsStep \/ ConfigStep
          \/ LogsStep \/ ProcessStep

allVars == <<part, addrsVars, connVars, v2Vars, loopsVars, orchVars, mgmtVars, processVars>>

\* The fairness of each part, while it is the part that runs.
MCSpec ==
    /\ MCInit /\ [][MCNext]_allVars
    /\ \A c \in Conns :
          WF_addrsVars(part = "addrs" /\ ServeAgain(c)) /\ WF_addrsVars(part = "addrs" /\ V6Fails(c))
    /\ WF_connVars(part = "conn" /\ ConnProgress)
    /\ WF_v2Vars(part = "sessions" /\ ShutdownSessions)
    /\ \A r \in Calls : WF_v2Vars(part = "sessions" /\ Continue(r))
    /\ WF_loopsVars(part = "loops" /\ MuxerGoesOn)
    /\ WF_loopsVars(part = "loops" /\ ServeReturns)
    /\ WF_loopsVars(part = "loops" /\ IcmpEnds)
    /\ WF_loopsVars(part = "loops" /\ SessionGoesOn)
    /\ WF_loopsVars(part = "loops" /\ WriterEnds)
    /\ WF_loopsVars(part = "loops" /\ sessionClosed /\ ReadLoop)
    /\ \A u \in Updates : WF_orchVars(part = "config" /\ Apply(u))
    /\ SF_orchVars(part = "config" /\ WaitToCloseLastProxy)
    /\ \A s \in Sessions : WF_mgmtVars(part = "logs" /\ LogsProgress(s))
    /\ WF_processVars(part = "process" /\ Main)
    /\ WF_processVars(part = "process" /\ Update)
    /\ \A s \in Services :
          WF_processVars(part = "process" /\ (serverCtx \/ updated) /\ Ends(s))
=============================================================================
