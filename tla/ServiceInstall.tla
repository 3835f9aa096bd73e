--------------------------- MODULE ServiceInstall ---------------------------
(* `cloudflared service install` and `uninstall` (cmd/cloudflared/
   linux_service.go, macos_service.go, windows_service.go, service_template.go)
   on the service manager of the system, which is external: a command is a
   sequence of steps, any of which may fail, and the machine may be rebooted
   between any two.                                                          *)
EXTENDS Sequences, FiniteSets

CONSTANTS Tokens,                \* of tunnels the service may be installed for
          Nothing

Config == "config"               \* the service is to read the configuration file
Broken == "broken"               \* a file whose writing broke off
Args == Tokens \cup {Config}
ASSUME InstallAssumption == Nothing \notin Args \cup {Broken} /\ Broken \notin Args

\* launchd: a daemon of the system if root installs, else an agent of the user
Systems == {"systemd", "sysv", "launchDaemon", "launchAgent", "windows"}
Units == {"service", "update", "timer"}

VARIABLES
    system,    \* which of Systems the machine has
    unit,      \* what each unit file, or the entry of the service manager, starts
    marked,    \* Windows: the entry goes when the service stops
    installConfig,    \* is there a configuration file in /etc/cloudflared
    enabled,   \* units that are linked to be started at boot
    running,   \* what the service was started with, or Nothing
    timer,     \* does the timer of the updates run
    updating,  \* does the update unit run, which may restart the service
    revived,   \* the service runs since the update unit started it behind an uninstall
    loggedIn,   \* is the user of the launch agent logged in
    installCmd, todo, \* the command, and its steps that are left
    installLeft,      \* unit files the command still has to remove
    installDone       \* the last command, if it has reported success and none followed

beside == <<updating, revived, loggedIn>>
installVars == <<system, unit, marked, installConfig, enabled, running, timer, beside, installCmd,
                 todo, installLeft, installDone>>
machine == <<system, unit, marked, installConfig, enabled, running, timer, beside>>

InstallTypeOK ==
    /\ system \in Systems /\ unit \in [Units -> Args \cup {Broken, Nothing}]
    /\ {marked, installConfig, timer, updating, revived, loggedIn} \subseteq BOOLEAN
    /\ enabled \subseteq Units
    /\ running \in Args \cup {Nothing} /\ installLeft \subseteq Units

InstallInit ==
    /\ system \in Systems /\ unit = [u \in Units |-> Nothing] /\ marked = FALSE
    /\ installConfig = FALSE /\ enabled = {} /\ running = Nothing /\ timer = FALSE
    /\ updating = FALSE /\ revived = FALSE /\ loggedIn = TRUE
    /\ installCmd = Nothing /\ todo = <<>> /\ installLeft = {} /\ installDone = Nothing

Usable(u) == unit[u] \notin {Nothing, Broken}

\* buildArgsForConfig, then installSystemd, installSysv, installLaunchd or
\* installWindowsService
InstallSteps(args, autoUpdate) ==
    LET copy == IF args = Config THEN <<"copy">> ELSE <<>> IN
    CASE system = "systemd" /\ autoUpdate ->
            copy \o <<"service", "update", "timer", "enable", "startTimer", "reload", "start">>
      [] system = "systemd" /\ ~autoUpdate -> copy \o <<"service", "enable", "reload", "start">>
      [] system = "sysv"    -> copy \o <<"service", "enable", "start">>
      [] system \in {"launchDaemon", "launchAgent"} -> <<"service", "start">>
      [] system = "windows" -> <<"service", "events", "start">>

UninstallSteps ==
    CASE system = "systemd" -> <<"query">>
      [] system = "sysv"    -> <<"stop", "remove", "disable">>
      [] system \in {"launchDaemon", "launchAgent"} -> <<"stop", "remove">>
      [] system = "windows" -> <<"stop", "remove", "events">>

-----------------------------------------------------------------------------
Begins(c, steps, remove) ==
    /\ todo = <<>> /\ loggedIn
    /\ installCmd' = c /\ todo' = steps /\ installLeft' = remove /\ installDone' = Nothing
    /\ UNCHANGED machine

Install == \E args \in Args, autoUpdate \in BOOLEAN :
    /\ system # "systemd" => autoUpdate
    /\ Begins([op |-> "install", args |-> args, autoUpdate |-> autoUpdate],
              InstallSteps(args, autoUpdate), {})

Uninstall ==
    /\ system = "windows" => unit["service"] # Nothing
    /\ Begins([op |-> "uninstall", skipped |-> {}], UninstallSteps, {"service"})

InstallAt(step) == todo # <<>> /\ Head(todo) = step
Advance == todo' = Tail(todo) /\ installDone' = (IF Len(todo) = 1 THEN installCmd ELSE Nothing)
Abort == todo' = <<>> /\ installDone' = Nothing

\* the step has no effect: what is there already is refused, what is not there
\* cannot be started or removed, or the system fails.  Symbolic links of SysV,
\* and the stop on Windows, are not insisted on.
StepFails ==
    /\ todo # <<>>
    /\ \/ system = "sysv" /\ Head(todo) \in {"enable", "disable"} /\ Advance
       \/ system = "windows" /\ InstallAt("stop") /\ installCmd.op = "uninstall" /\ Advance
       \/ Abort
    /\ UNCHANGED <<machine, installCmd, installLeft>>

\* the file in /etc/cloudflared is copied, or is the one the command was given
CopyConfig ==
    /\ InstallAt("copy") /\ installConfig' = TRUE /\ Advance
    /\ UNCHANGED <<system, unit, marked, enabled, running, timer, installCmd, installLeft, beside>>

\* Generate refuses to write a file that exists; the mutant replaces it
AbsentOrNot(u) == TRUE
Absent(u) == unit[u] = Nothing

Generate(u) ==
    /\ InstallAt(u) /\ Absent(u)
    /\ \/ unit' = [unit EXCEPT ![u] = installCmd.args] /\ Advance
       \/ system # "windows" /\ unit' = [unit EXCEPT ![u] = Broken] /\ Abort
    /\ UNCHANGED <<system, marked, installConfig, enabled, running, timer, installCmd,
                   installLeft, beside>>

Enable ==
    /\ InstallAt("enable") /\ unit["service"] # Nothing
    /\ enabled' = enabled \cup {"service"} /\ Advance
    /\ UNCHANGED <<system, unit, marked, installConfig, running, timer, installCmd, installLeft,
                   beside>>

StartTimer ==
    /\ InstallAt("startTimer") /\ Usable("timer") /\ timer' = TRUE /\ Advance
    /\ UNCHANGED <<system, unit, marked, installConfig, enabled, running, installCmd,
                   installLeft, beside>>

\* a service that runs already is left as it is; a start that is reported to
\* have failed may come about later
StartService ==
    /\ InstallAt("start") /\ Usable("service")
    /\ running' = (IF running = Nothing THEN unit["service"] ELSE running)
    /\ Advance \/ Abort
    /\ UNCHANGED <<system, unit, marked, installConfig, enabled, timer, installCmd, installLeft,
                   beside>>

\* daemon-reload, and the event log of Windows
Other ==
    /\ InstallAt("reload") \/ InstallAt("events")
    /\ Advance
    /\ UNCHANGED <<machine, installCmd, installLeft>>

InstallEventsFails ==
    /\ system = "windows" /\ InstallAt("events") /\ installCmd.op = "install"
    /\ unit' = [unit EXCEPT !["service"] = Nothing]
    /\ Abort
    /\ UNCHANGED <<system, marked, installConfig, enabled, running, timer, installCmd,
                   installLeft, beside>>

-----------------------------------------------------------------------------
\* uninstallSystemd asks for the units one by one; those it does not get an
\* answer for are skipped
Query ==
    /\ InstallAt("query")
    /\ \E found \in SUBSET Units :
          /\ installLeft' = found /\ installCmd' = [installCmd EXCEPT !.skipped = Units \ found]
          /\ todo' = (IF "service" \in found THEN <<"disable", "stop">> ELSE <<>>)
                  \o (IF "timer" \in found THEN <<"stopTimer">> ELSE <<>>)
                  \o (IF found # {} THEN <<"remove">> ELSE <<>>) \o <<"reload">>
    /\ UNCHANGED <<machine, installDone>>

\* systemctl knows the units that have a file
Disable ==
    /\ InstallAt("disable") /\ (system = "systemd" => unit["service"] # Nothing)
    /\ enabled' = enabled \ {"service"} /\ Advance
    /\ UNCHANGED <<system, unit, marked, installConfig, running, timer, installCmd, installLeft,
                   beside>>

\* on Windows the service is asked to stop
Stop ==
    /\ InstallAt("stop") /\ (system = "systemd" => unit["service"] # Nothing)
    /\ \/ ~marked /\ running' = Nothing /\ revived' = FALSE
       \/ system = "windows" /\ UNCHANGED <<running, revived>>
    /\ Advance
    /\ UNCHANGED <<system, unit, marked, installConfig, enabled, timer, updating, loggedIn,
                   installCmd, installLeft>>

StopTimer ==
    /\ InstallAt("stopTimer") /\ unit["timer"] # Nothing /\ timer' = FALSE /\ Advance
    /\ UNCHANGED <<system, unit, marked, installConfig, enabled, running, installCmd,
                   installLeft, beside>>

\* in the order of a map; what is missing fails
RemoveUnit ==
    /\ InstallAt("remove")
    /\ \E u \in installLeft :
          /\ unit[u] # Nothing /\ installLeft' = installLeft \ {u}
          /\ IF system = "windows" /\ running # Nothing
               THEN marked' = TRUE /\ UNCHANGED unit
               ELSE unit' = [unit EXCEPT ![u] = Nothing] /\ UNCHANGED marked
          /\ IF installLeft = {u} THEN Advance ELSE UNCHANGED <<todo, installDone>>
    /\ UNCHANGED <<system, installConfig, enabled, running, timer, installCmd, beside>>

ServiceEnds ==
    /\ marked /\ marked' = FALSE /\ running' = Nothing
    /\ unit' = [unit EXCEPT !["service"] = Nothing]
    /\ UNCHANGED <<system, installConfig, enabled, timer, installCmd, todo, installLeft,
                   installDone, beside>>

-----------------------------------------------------------------------------
\* The update unit runs by itself, and no command stops it: when it has put a
\* new binary in place it restarts the service, also one that was stopped.
UpdateBegins ==
    /\ timer /\ Usable("update") /\ updating' = TRUE
    /\ UNCHANGED <<system, unit, marked, installConfig, enabled, running, timer, revived,
                   loggedIn, installCmd, todo, installLeft, installDone>>

Uninstalling == todo # <<>> /\ installCmd.op = "uninstall"

UpdateEnds ==
    /\ updating /\ updating' = FALSE
    /\ \/ UNCHANGED <<running, revived>>
       \/ /\ Usable("service") /\ running' = unit["service"]
          /\ revived' = (revived \/ (Uninstalling /\ running = Nothing))
    /\ UNCHANGED <<system, unit, marked, installConfig, enabled, timer, loggedIn, installCmd,
                   todo, installLeft, installDone>>

\* a launch agent runs while its user is logged in, as the commands do
Logout ==
    /\ system = "launchAgent" /\ loggedIn /\ loggedIn' = FALSE /\ running' = Nothing
    /\ todo' = <<>> /\ installDone' = (IF todo = <<>> THEN installDone ELSE Nothing)
    /\ UNCHANGED <<system, unit, marked, installConfig, enabled, timer, updating, revived,
                   installCmd, installLeft>>

Login ==
    /\ ~loggedIn /\ loggedIn' = TRUE
    /\ running' = (IF Usable("service") THEN unit["service"] ELSE Nothing)
    /\ UNCHANGED <<system, unit, marked, installConfig, enabled, timer, updating, revived,
                   installCmd, todo, installLeft, installDone>>

StartsAtBoot(u) ==
    Usable(u) /\ system # "launchAgent" /\ (system \in {"systemd", "sysv"} => u \in enabled)

Reboot ==
    /\ unit' = (IF marked THEN [unit EXCEPT !["service"] = Nothing] ELSE unit)
    /\ running' = (IF StartsAtBoot("service") /\ ~marked THEN unit["service"] ELSE Nothing)
    /\ timer' = (system = "systemd" /\ StartsAtBoot("timer"))
    /\ marked' = FALSE /\ updating' = FALSE /\ revived' = FALSE
    /\ loggedIn' = (system # "launchAgent")
    /\ todo' = <<>> /\ installDone' = (IF todo = <<>> THEN installDone ELSE Nothing)
    /\ UNCHANGED <<system, installConfig, enabled, installCmd, installLeft>>

InstallNext ==
    \/ Install \/ Uninstall \/ StepFails \/ CopyConfig \/ Enable \/ StartTimer \/ StartService
    \/ Other \/ InstallEventsFails \/ Query \/ Disable \/ Stop \/ StopTimer \/ RemoveUnit
    \/ ServiceEnds \/ UpdateBegins \/ UpdateEnds \/ Logout \/ Login \/ Reboot
    \/ \E u \in Units : Generate(u)

InstallSpec == InstallInit /\ [][InstallNext]_installVars

-----------------------------------------------------------------------------
Reported(op) == installDone # Nothing /\ installDone.op = op

(* A command that has reported success has done what it says, whatever commands
   broke off before it and although the machine is rebooted after it.  The
   installed service is the one of this installation and runs with its
   arguments, except that SysV may lack the links to start it again and a
   launch agent waits for its user.  Of an uninstalled one nothing is left but
   units systemd was said not to have.  A service that the update unit restarts
   while it is uninstalled runs on: without its unit, or with the arguments it
   had although another is installed (Generate, uninstallSystemd).           *)
ReportIsTrue ==
    /\ Reported("install") =>
          /\ unit["service"] = installDone.args
          /\ \/ running = installDone.args \/ revived
             \/ system = "sysv" /\ running = Nothing /\ enabled = {}
             \/ ~loggedIn /\ running = Nothing
    /\ Reported("uninstall") =>
          /\ \A u \in Units \ installDone.skipped : unit[u] = Nothing \/ marked
          /\ "service" \notin installDone.skipped => running = Nothing \/ marked \/ revived
          /\ "timer" \notin installDone.skipped => ~timer
=============================================================================
