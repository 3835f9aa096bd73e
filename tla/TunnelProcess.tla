---------------------------- MODULE TunnelProcess ----------------------------
(* The process behind "cloudflared tunnel run": StartServer starts its
   goroutines and waits for the first of them, or for a signal, in
   waitToShutdown (cmd/cloudflared/tunnel/cmd.go, signal.go); one of them is
   the updater, which replaces the program's file (cmd/cloudflared/updater)
   and asks for a restart.  The process may crash at any point, and is started
   again while its file can be executed.                                     *)
EXTENDS Naturals

CONSTANT MaxStarts      \* bound: times the process is started

Services == {"updater", "metrics", "supervisor"}

VARIABLES
    main,      \* StartServer: what it sets up, "wait", "grace", "discard" or
               \* "returned"; "crashed" when the process is gone
    svc,       \* goroutine -> "off", "run", "send" (blocked on errC), "done"
    grace,     \* graceShutdownC is closed
    serverCtx, \* the server context is cancelled
    apply,     \* the step of WorkersVersion.Apply the updater is at
    updated,   \* the updater has replaced the file and is to return
    file,      \* the program's file, its .new and its .old
    stuck,     \* a rollback has failed
    starts

processVars == <<main, svc, grace, serverCtx, apply, updated, file, stuck, starts>>

SetUp == {"tunnelConfig", "orchestrator", "metricsListener", "gracePeriod"}
Steps == {"idle", "remove", "download", "verify", "moveOut", "moveIn", "clean"}

ProcessTypeOK ==
    /\ main \in SetUp \cup {"wait", "grace", "discard", "returned", "crashed"}
    /\ svc \in [Services -> {"off", "run", "send", "done"}]
    /\ grace \in BOOLEAN /\ serverCtx \in BOOLEAN /\ updated \in BOOLEAN /\ stuck \in BOOLEAN
    /\ apply \in Steps /\ starts \in 1..MaxStarts
    /\ file \in [{"target", "new", "old"} -> {"none", "whole", "bad"}]

Started == [s \in Services |-> IF s = "updater" THEN "run" ELSE "off"]

ProcessInit ==
    /\ main = "tunnelConfig" /\ svc = Started /\ grace = FALSE /\ serverCtx = FALSE
    /\ apply = "idle" /\ updated = FALSE /\ stuck = FALSE /\ starts = 1
    /\ file = [target |-> "whole", new |-> "none", old |-> "none"]

Up == main \notin {"returned", "crashed"}
DiskVars == <<apply, updated, file, stuck>>

-----------------------------------------------------------------------------
(* StartServer up to waitToShutdown: an error of a stage returns from it, with
   the goroutines started so far; its deferred calls cancel the context.     *)

After(stage) ==
    CASE stage = "tunnelConfig"    -> "orchestrator"
      [] stage = "orchestrator"    -> "metricsListener"
      [] stage = "metricsListener" -> "gracePeriod"
      [] stage = "gracePeriod"     -> "wait"

StartServer ==
    /\ main \in SetUp
    /\ \/ /\ main' = After(main)
          /\ svc' = IF main = "metricsListener"
                      THEN [svc EXCEPT !["metrics"] = "run", !["supervisor"] = "run"] ELSE svc
          /\ UNCHANGED serverCtx
       \/ main' = "returned" /\ serverCtx' = TRUE /\ UNCHANGED svc
    /\ UNCHANGED <<grace, starts, DiskVars>>

\* SIGTERM, SIGINT or a channel closed by the service manager
WaitForSignal ==
    /\ Up /\ ~grace /\ grace' = TRUE
    /\ UNCHANGED <<main, svc, serverCtx, starts, DiskVars>>

-----------------------------------------------------------------------------
(* The goroutines: each sends one value on the unbuffered channel errC.      *)

\* ServeMetrics returns with the context, the supervisor also by itself or
\* after a graceful shutdown, the updater also when it has updated; Apply is
\* not interrupted by the context
Ends(s) ==
    /\ Up /\ svc[s] = "run"
    /\ \/ serverCtx /\ apply = "idle"
       \/ serverCtx /\ s # "updater"
       \/ s = "supervisor"
       \/ s = "updater" /\ updated
    /\ svc' = [svc EXCEPT ![s] = "send"]
    /\ UNCHANGED <<main, grace, serverCtx, starts, DiskVars>>

Received(s) == svc[s] = "send" /\ svc' = [svc EXCEPT ![s] = "done"]

\* waitToShutdown: the first value of errC, or the shutdown channel
Wait ==
    /\ main = "wait"
    /\ \/ /\ \E s \in Services : Received(s)
          /\ main' = "discard" /\ serverCtx' = TRUE
       \/ /\ grace /\ UNCHANGED svc
          /\ \/ main' = "grace" /\ UNCHANGED serverCtx
             \/ main' = "discard" /\ serverCtx' = TRUE      \* no grace period
    /\ UNCHANGED <<grace, starts, DiskVars>>

\* the grace period is over, or a goroutine has ended
GraceEnds ==
    /\ main = "grace" /\ main' = "discard" /\ serverCtx' = TRUE
    /\ UNCHANGED svc \/ \E s \in Services : Received(s)
    /\ UNCHANGED <<grace, starts, DiskVars>>

\* the mutant receives from the supervisor only
DiscardOne ==
    /\ main = "discard" /\ Received("supervisor")
    /\ UNCHANGED <<main, grace, serverCtx, starts, DiskVars>>

\* while the WaitGroup waits, errors are received and dropped
Discard ==
    /\ main = "discard" /\ \E s \in Services : Received(s)
    /\ UNCHANGED <<main, grace, serverCtx, starts, DiskVars>>

Return ==
    /\ main = "discard" /\ \A s \in Services : svc[s] = "done"
    /\ main' = "returned"
    /\ UNCHANGED <<svc, grace, serverCtx, starts, DiskVars>>

-----------------------------------------------------------------------------
(* AutoUpdater.Run, loggedUpdate, applyUpdate and WorkersVersion.Apply.      *)

\* a step of Apply leads to the next one or, with an error, back to the ticker
Step(from, to, contents) ==
    /\ Up /\ svc["updater"] = "run" /\ apply = from
    /\ apply' = to /\ file' = contents
    /\ UNCHANGED <<main, svc, grace, serverCtx, updated, starts>>
File(f, c) == [file EXCEPT ![f] = c]

\* the ticker fires, the check answers with a version and updates are enabled
Tick == ~updated /\ ~serverCtx /\ Step("idle", "remove", file) /\ UNCHANGED stuck

\* the client may fail part-way: what is written stays
Download ==
    /\ \/ Step("remove", "download", File("new", "none"))
       \/ \E c \in {"whole", "bad"} : Step("download", "verify", File("new", c))
       \/ Step("download", "idle", file)
       \/ Step("download", "idle", File("new", "bad"))
    /\ UNCHANGED stuck

\* the checksum of the answer, and that of the running program
Verify ==
    /\ \/ file["new"] = "whole" /\ Step("verify", "moveOut", file)
       \/ file["new"] = "whole" /\ Step("verify", "idle", File("new", "none"))
       \/ file["new"] = "bad" /\ Step("verify", "idle", file)
    /\ UNCHANGED stuck

MoveOut ==
    /\ \/ /\ file["target"] # "none"
          /\ Step("moveOut", "moveIn", [file EXCEPT !["old"] = file["target"], !["target"] = "none"])
       \/ Step("moveOut", "idle", file)
    /\ UNCHANGED stuck

\* a failed rename is rolled back, and the error of that is ignored
MoveIn ==
    \/ /\ Step("moveIn", "clean", [file EXCEPT !["target"] = file["new"], !["new"] = "none"])
       /\ UNCHANGED stuck
    \/ /\ Step("moveIn", "idle", [file EXCEPT !["target"] = file["old"], !["old"] = "none"])
       /\ UNCHANGED stuck
    \/ Step("moveIn", "idle", file) /\ stuck' = TRUE

\* the updater reports that the process is to be restarted, under SysV after
\* it has started the new one or failed to
Clean ==
    /\ Up /\ svc["updater"] = "run" /\ apply = "clean"
    /\ apply' = "idle" /\ updated' = TRUE /\ file' = File("old", "none")
    /\ UNCHANGED <<main, svc, grace, serverCtx, stuck, starts>>

-----------------------------------------------------------------------------
Crash ==
    /\ Up /\ main' = "crashed"
    /\ UNCHANGED <<svc, grace, serverCtx, starts, DiskVars>>

\* the service manager starts the program again
Restart ==
    /\ ~Up /\ starts < MaxStarts /\ file["target"] = "whole"
    /\ main' = "tunnelConfig" /\ svc' = Started /\ starts' = starts + 1
    /\ grace' = FALSE /\ serverCtx' = FALSE /\ apply' = "idle" /\ updated' = FALSE
    /\ UNCHANGED <<file, stuck>>

Update == Download \/ Verify \/ MoveOut \/ MoveIn \/ Clean

Main == StartServer \/ Wait \/ GraceEnds \/ Discard \/ Return

ProcessNext ==
    \/ Main \/ WaitForSignal
    \/ \E s \in Services : Ends(s)
    \/ Tick \/ Update \/ Crash \/ Restart

\* goroutines run; downloads have a timeout; a supervisor whose context is
\* cancelled ends, as module Supervisor shows
ProcessFairness ==
    /\ WF_processVars(Main) /\ WF_processVars(Update)
    /\ \A s \in Services : WF_processVars((serverCtx \/ updated) /\ Ends(s))

ProcessSpec == ProcessInit /\ [][ProcessNext]_processVars /\ ProcessFairness

-----------------------------------------------------------------------------
(* Whatever fails or crashes between two steps of Apply, a whole program is
   left under its name or as .old, and under its name unless Apply is between
   its two renames or its rollback failed: what is executed at the next start
   was verified (WorkersVersion.Apply).                                      *)
ProgramSurvives ==
    /\ "whole" \in {file["target"], file["old"]}
    /\ file["target"] # "bad"
    /\ file["target"] = "none" => apply = "moveIn" \/ stuck

(* A signal, an update or a goroutine that fails ends the process, and all
   its goroutines first: none of them stays blocked on errC, also when several
   end at once (waitToShutdown).                                             *)
AskedToStop == Up /\ (grace \/ updated \/ \E s \in Services : svc[s] = "send")
StopsWhenAsked == AskedToStop ~> ~Up

\* The process ends when it is asked to, and leaves a program for the next start
\* (waitToShutdown, WorkersVersion.Apply).
ProcessEndsWhole == []ProgramSurvives /\ StopsWhenAsked
=============================================================================
