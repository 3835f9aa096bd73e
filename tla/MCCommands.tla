----------------------------- MODULE MCCommands -----------------------------
(* Parts that share no variable, side by side: a behaviour runs the part that is
   named by the variable part, the others stay as they are.  These are the
   commands of cloudflared and the requests of the workspace server.         *)
EXTENDS Token, TunnelAdmin, NetworkAdmin, ServiceInstall, Prechecks,
        Diagnostic, LogTail, ApiServer

CONSTANTS p1, p2, n1, n2, t1, t2, c1, c2, r1, r2, r3, org, app

VARIABLE part

MCApp == [p \in {p1, p2} |-> app]
MCBypasses == {{"endpoint", "logs", "trace"}, {"endpoint", "raw", "trace"}}
MCNetworks == {{1, 2}, {1}}
\* Lines of other levels, of an event and without, and one that reports an error.
MCLines ==
    {[level |-> "debug", error |-> FALSE, event |-> Unset],
     [level |-> "fatal", error |-> FALSE, event |-> "http"],
     [level |-> "warn", error |-> TRUE, event |-> "http"],
     [level |-> "error", error |-> FALSE, event |-> "other"]}

MCInit ==
    /\ part \in {"login", "admin", "network", "install",
                  "prechecks", "diag", "tail", "api"}
    \* what the parts that do not run start with is fixed
    /\ part # "install" => system = "systemd"
    /\ part # "diag" => bypass = [p \in {p1, p2} |-> CHOOSE b \in MCBypasses : TRUE]
    /\ part # "tail" => client = "page"
    /\ part # "api" => serial = TRUE
    /\ LoginInit /\ AdminInit /\ NetworkInit /\ InstallInit
    /\ PrechecksInit /\ DiagInit /\ TailInit /\ ApiInit

LoginStep ==
    /\ part = "login" /\ LoginNext
    /\ UNCHANGED <<part, adminVars, networkVars, installVars, prechecksVars,
                   diagVars, tailVars, apiVars>>
AdminStep ==
    /\ part = "admin" /\ AdminNext
    /\ UNCHANGED <<part, loginVars, networkVars, installVars, prechecksVars,
                   diagVars, tailVars, apiVars>>
NetworkStep ==
    /\ part = "network" /\ NetworkNext
    /\ UNCHANGED <<part, loginVars, adminVars, installVars, prechecksVars,
                   diagVars, tailVars, apiVars>>
InstallStep ==
    /\ part = "install" /\ InstallNext
    /\ UNCHANGED <<part, loginVars, adminVars, networkVars, prechecksVars,
                   diagVars, tailVars, apiVars>>
PrechecksStep ==
    /\ part = "prechecks" /\ PrechecksNext
    /\ UNCHANGED <<part, loginVars, adminVars, networkVars, installVars,
                   diagVars, tailVars, apiVars>>
DiagStep ==
    /\ part = "diag" /\ DiagNext
    /\ UNCHANGED <<part, loginVars, adminVars, networkVars, installVars,
                   prechecksVars, tailVars, apiVars>>
TailStep ==
    /\ part = "tail" /\ TailNext
    /\ UNCHANGED <<part, loginVars, adminVars, networkVars, installVars,
                   prechecksVars, diagVars, apiVars>>
ApiStep ==
    /\ part = "api" /\ ApiNext
    /\ UNCHANGED <<part, loginVars, adminVars, networkVars, installVars,
                   prechecksVars, diagVars, tailVars>>

MCNext == LoginStep \/ AdminStep \/ NetworkStep \/ InstallStep
          \/ PrechecksStep \/ DiagStep \/ TailStep \/ ApiStep

allVars == <<part, loginVars, adminVars, networkVars, installVars,
             prechecksVars, diagVars, tailVars, apiVars>>

MCSpec == MCInit /\ [][MCNext]_allVars
=============================================================================
