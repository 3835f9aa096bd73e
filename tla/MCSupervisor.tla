---------------------------- MODULE MCSupervisor ----------------------------
(* The supervisor, and the tunnels it starts in more detail, side by side: a
   behaviour runs one of them.                                               *)
EXTENDS Supervisor, EdgeTunnel

CONSTANTS c0, c1

VARIABLE part

MCConns == {c0, c1}

\* QUIC blocked; both protocols, and addresses that run out; percentages that change.
MCSurroundings ==
    {[selector |-> "default", network |-> {"http2"}, spare |-> TRUE],
     [selector |-> "default", network |-> {"http2", "quic"}, spare |-> FALSE],
     [selector |-> "remote", network |-> {"http2"}, spare |-> TRUE]}

MCInit ==
    /\ part \in {"run", "edge"}
    \* what the part that does not run starts with is fixed
    /\ part # "edge" =>
          /\ selector = "remote" /\ current = "quic"
    /\ Init
    /\ EdgeInit

RunStep ==
    /\ part = "run" /\ Next
    /\ UNCHANGED <<part, edgeVars>>
EdgeStep ==
    /\ part = "edge" /\ EdgeNext
    /\ UNCHANGED <<part, vars>>

MCNext == RunStep \/ EdgeStep

allVars == <<part, vars, edgeVars>>

\* The fairness of each part, while it is the part that runs.
MCSpec ==
    /\ MCInit /\ [][MCNext]_allVars
    /\ WF_vars(part = "run" /\ Initialize) /\ WF_vars(part = "run" /\ Loop)
    /\ WF_vars(part = "run" /\ ContextDone) /\ WF_vars(part = "run" /\ ShuttingDown)
    /\ WF_vars(part = "run" /\ BackoffExpired)
    /\ \A i \in Indexes :
          /\ WF_vars(part = "run" /\ Notify(i)) /\ WF_vars(part = "run" /\ Stop(i))
          /\ WF_vars(part = "run" /\ Cancel(i))
    /\ WF_edgeVars(part = "edge" /\ DispatchEvent)
    /\ \A c \in Conns :
          /\ WF_edgeVars(part = "edge" /\ Continue(c))
          /\ SF_edgeVars(part = "edge" /\ Connected(c))
=============================================================================
