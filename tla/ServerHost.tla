----------------------------- MODULE ServerHost -----------------------------
(***************************************************************************)
(* The server's process on a desktop machine: the lock that keeps a second *)
(* one out (relay_server/instance_lock.py), the installer of the inference *)
(* runtime, a child process of its own (relay_server/runtime_bootstrap.py),*)
(* and the tray application that starts the server, builds it anew when    *)
(* its settings change, and quits (relay_server/tray.py).                  *)
(***************************************************************************)
EXTENDS Integers, FiniteSets

CONSTANTS Launch,      \* the times the program is started
          NoLaunch,    \* none of them
          MaxChanges   \* bound: settings applied or restarts asked for

ASSUME HostAssumption == NoLaunch \notin Launch /\ MaxChanges \in Nat

VARIABLES
  app,       \* each process: place; setup cancelled; _busy; a start or
             \* restart that wants the controller; _quitting; restart tasks
  lock,      \* who holds the instance lock
  installer, \* each process's installer child: place
  installLock, \* the installer that holds the install lock
  staging,   \* each installer's directory: "none", "some", "all", "checked"
  runtime,   \* the published directory: "none" or "ready"
  checked,   \* what is published was complete and validated
  ctl,       \* what holds the lock of each ServerController
  server,    \* its RelayServer: "none", "up", "stuck" (its stop failed)
  built,     \* the settings that server was built with
  settings   \* the newest settings that were applied

appVars == <<app, lock>>
setupVars == <<installer, installLock, staging, runtime, checked>>
serverVars == <<ctl, server, built, settings>>
hostVars == <<appVars, setupVars, serverVars>>

NoApp == [at |-> "new", cancelled |-> FALSE, busy |-> FALSE, asked |-> FALSE,
          quitting |-> FALSE, restarts |-> 0]

HostTypeOK ==
  /\ app \in [Launch -> [at : {"new", "setup", "failed", "tray", "leaving", "ended"},
                         cancelled : BOOLEAN, busy : BOOLEAN, asked : BOOLEAN,
                         quitting : BOOLEAN, restarts : 0..MaxChanges]]
  /\ lock \in Launch \cup {NoLaunch}
  /\ installer \in [Launch -> {"none", "asking", "waiting", "copying", "checking",
                               "marking", "clearing", "publishing", "done"}]
  /\ installLock \in Launch \cup {NoLaunch}
  /\ staging \in [Launch -> {"none", "some", "all", "checked"}]
  /\ runtime \in {"none", "ready"} /\ checked \in BOOLEAN
  /\ ctl \in [Launch -> {"idle", "stopping", "building", "listening", "quitting"}]
  /\ server \in [Launch -> {"none", "up", "stuck"}]
  /\ built \in [Launch -> 0..MaxChanges] /\ settings \in [Launch -> 0..MaxChanges]

HostInit ==
  /\ app = [p \in Launch |-> NoApp] /\ lock = NoLaunch
  /\ installer = [p \in Launch |-> "none"] /\ installLock = NoLaunch
  /\ staging = [p \in Launch |-> "none"] /\ runtime = "none" /\ checked = FALSE
  /\ ctl = [p \in Launch |-> "idle"] /\ server = [p \in Launch |-> "none"]
  /\ built = [p \in Launch |-> 0] /\ settings = [p \in Launch |-> 0]

AppAt(p, place) == app[p].at = place
AppGoes(p, place) == app' = [app EXCEPT ![p].at = place]
Ctl(p, place) == ctl' = [ctl EXCEPT ![p] = place]
Child(p, place) == installer' = [installer EXCEPT ![p] = place]

-----------------------------------------------------------------------------
(* Starting the program (main)                                             *)

(* TrayApp.start, the first thing the tray does.                           *)
Tray(p) == app' = [app EXCEPT ![p].at = "tray", ![p].busy = TRUE, ![p].asked = TRUE]

(* A second process finds the lock taken and ends. With a runtime in place *)
(* the tray starts its server, otherwise the installer runs first.         *)
StartProgram(p) ==
  /\ AppAt(p, "new")
  /\ \/ /\ lock # NoLaunch
        /\ AppGoes(p, "ended") /\ UNCHANGED <<lock, installer>>
     \/ /\ lock = NoLaunch /\ lock' = p
        /\ IF runtime = "ready"
             THEN Tray(p) /\ UNCHANGED installer
             ELSE AppGoes(p, "setup") /\ Child(p, "asking")
  /\ UNCHANGED <<installLock, staging, runtime, checked, serverVars>>

(* Cancel, or the setup window closed.                                     *)
CancelSetup(p) ==
  /\ AppAt(p, "setup") /\ ~app[p].cancelled
  /\ app' = [app EXCEPT ![p].cancelled = TRUE]
  /\ UNCHANGED <<lock, setupVars, serverVars>>

(* terminate_process_tree: what the installer was writing stays, and the   *)
(* operating system gives its lock back.                                   *)
Terminated(p) ==
  /\ app[p].cancelled /\ ~(installer[p] \in {"none", "done"})
  /\ Child(p, "none")
  /\ installLock' = IF installLock = p THEN NoLaunch ELSE installLock
  /\ UNCHANGED <<appVars, staging, runtime, checked, serverVars>>

(* The installer has ended (ensure_runtime_gui): the tray, or the end, or  *)
(* a dialog that tells of the failure first.                               *)
SetupEnds(p) ==
  /\ AppAt(p, "setup") /\ installer[p] \in {"none", "done"}
  /\ CASE installer[p] = "done" /\ runtime = "ready" -> Tray(p) /\ UNCHANGED lock
       [] installer[p] = "none" /\ app[p].cancelled ->
            AppGoes(p, "ended") /\ lock' = NoLaunch
       [] OTHER -> AppGoes(p, "failed") /\ UNCHANGED lock
  /\ UNCHANGED <<setupVars, serverVars>>

CloseFailure(p) ==
  /\ AppAt(p, "failed")
  /\ AppGoes(p, "ended") /\ lock' = NoLaunch
  /\ UNCHANGED <<setupVars, serverVars>>

-----------------------------------------------------------------------------
(* The installer (install_runtime), which may outlive the tray             *)

Ask(p) ==
  /\ installer[p] = "asking"
  /\ Child(p, IF runtime = "ready" THEN "done" ELSE "waiting")
  /\ UNCHANGED <<appVars, installLock, staging, runtime, checked, serverVars>>

(* One installer at a time. It looks again, and removes what others left.  *)
EnterInstall(p) ==
  /\ installer[p] = "waiting" /\ installLock = NoLaunch
  /\ IF runtime = "ready"
       THEN Child(p, "done") /\ UNCHANGED <<installLock, staging>>
       ELSE /\ Child(p, "copying") /\ installLock' = p
            /\ staging' = [q \in Launch |-> IF q = p THEN "some" ELSE "none"]
  /\ UNCHANGED <<appVars, runtime, checked, serverVars>>

InstallFails(p) ==
  /\ Child(p, "none")
  /\ staging' = [staging EXCEPT ![p] = "none"]
  /\ installLock' = NoLaunch

CopyRuntime(p) ==
  /\ installer[p] = "copying"
  /\ \/ /\ Child(p, "checking") /\ UNCHANGED installLock
        /\ staging' = [staging EXCEPT ![p] = "all"]
     \/ InstallFails(p)
  /\ UNCHANGED <<appVars, runtime, checked, serverVars>>

(* A bug: the probe's answer is not looked at.                             *)
CheckLoosely(p) ==
  /\ installer[p] = "checking"
  /\ Child(p, "marking")
  /\ UNCHANGED <<appVars, installLock, staging, runtime, checked, serverVars>>

(* A disposable process loads what was installed.                          *)
CheckRuntime(p) ==
  /\ installer[p] = "checking"
  /\ \/ /\ staging[p] = "all"
        /\ Child(p, "marking") /\ UNCHANGED installLock
        /\ staging' = [staging EXCEPT ![p] = "checked"]
     \/ InstallFails(p)
  /\ UNCHANGED <<appVars, runtime, checked, serverVars>>

Mark(p) ==
  /\ installer[p] = "marking"
  /\ Child(p, "publishing")
  /\ UNCHANGED <<appVars, installLock, staging, runtime, checked, serverVars>>

(* The directory takes its final name with the marker in it.               *)
PublishRuntime(p) ==
  /\ installer[p] = "publishing"
  /\ runtime' = "ready" /\ checked' = (staging[p] = "checked")
  /\ staging' = [staging EXCEPT ![p] = "none"]
  /\ Child(p, "done") /\ installLock' = NoLaunch
  /\ UNCHANGED <<appVars, serverVars>>

-----------------------------------------------------------------------------
(* The tray and its controller                                             *)

AppIdle(p) == AppAt(p, "tray") /\ ~app[p].busy

(* ConfigDialog._on_apply: the settings change now, the restart is a task. *)
Apply(p) ==
  /\ AppIdle(p) /\ app[p].restarts < MaxChanges /\ settings[p] < MaxChanges
  /\ settings' = [settings EXCEPT ![p] = @ + 1]
  /\ app' = [app EXCEPT ![p].restarts = @ + 1]
  /\ UNCHANGED <<lock, setupVars, ctl, server, built>>

(* Restart in the menu.                                                    *)
AskRestart(p) ==
  /\ AppIdle(p) /\ app[p].restarts < MaxChanges
  /\ app' = [app EXCEPT ![p].restarts = @ + 1]
  /\ UNCHANGED <<lock, setupVars, serverVars>>

(* restart(): one that finds the tray busy is dropped.                     *)
Restart(p) ==
  /\ AppAt(p, "tray") /\ app[p].restarts > 0
  /\ app' = [app EXCEPT ![p].restarts = @ - 1,
                        ![p].asked = @ \/ ~app[p].busy, ![p].busy = TRUE]
  /\ UNCHANGED <<lock, setupVars, serverVars>>

(* A start is over: _set_status, even when the tray is quitting.           *)
StartOver(p) == Ctl(p, "idle") /\ app' = [app EXCEPT ![p].busy = FALSE]

(* ServerController.start takes its lock.                                  *)
Enter(p) ==
  /\ AppAt(p, "tray") /\ app[p].asked /\ ctl[p] = "idle"
  /\ Ctl(p, "stopping")
  /\ app' = [app EXCEPT ![p].asked = FALSE]
  /\ UNCHANGED <<lock, setupVars, server, built, settings>>

(* _stop_locked: a stop that failed keeps the server, and every later one  *)
(* fails as well (its task is shared).                                     *)
StopServer(p) ==
  /\ ctl[p] = "stopping" /\ AppAt(p, "tray")
  /\ \/ /\ server[p] # "stuck"
        /\ server' = [server EXCEPT ![p] = "none"]
        /\ Ctl(p, "building") /\ UNCHANGED app
     \/ /\ server[p] # "none"
        /\ server' = [server EXCEPT ![p] = "stuck"]
        /\ StartOver(p)
  /\ UNCHANGED <<lock, setupVars, built, settings>>

(* RelayServer(...), from the settings there are now; it may raise.        *)
Build(p) ==
  /\ ctl[p] = "building" /\ AppAt(p, "tray")
  /\ \/ /\ built' = [built EXCEPT ![p] = settings[p]]
        /\ Ctl(p, "listening") /\ UNCHANGED app
     \/ StartOver(p) /\ UNCHANGED built
  /\ UNCHANGED <<lock, setupVars, server, settings>>

(* server.start(); one that fails is stopped again and dropped.            *)
Listen(p) ==
  /\ ctl[p] = "listening" /\ AppAt(p, "tray")
  /\ StartOver(p)
  /\ \E up \in {"up", "none"} : server' = [server EXCEPT ![p] = up]
  /\ UNCHANGED <<lock, setupVars, built, settings>>

(* quit(): from the menu at any time; a timer of its own is armed.         *)
Quit(p) ==
  /\ AppAt(p, "tray") /\ ~app[p].quitting
  /\ app' = [app EXCEPT ![p].quitting = TRUE, ![p].busy = TRUE]
  /\ UNCHANGED <<lock, setupVars, serverVars>>

QuitEnters(p) ==
  /\ AppAt(p, "tray") /\ app[p].quitting /\ ctl[p] = "idle"
  /\ Ctl(p, "quitting")
  /\ UNCHANGED <<appVars, setupVars, server, built, settings>>

(* The stop ends, well or not, or it has taken 10 seconds, or the lock has.*)
QuitStops(p) ==
  /\ AppAt(p, "tray") /\ app[p].quitting
  /\ \/ /\ ctl[p] = "quitting" /\ server[p] # "stuck"
        /\ server' = [server EXCEPT ![p] = "none"]
     \/ UNCHANGED server
  /\ AppGoes(p, "leaving")
  /\ UNCHANGED <<lock, setupVars, ctl, built, settings>>

AppEnded(p) ==
  /\ app' = [app EXCEPT ![p] = [NoApp EXCEPT !.at = "ended"]]
  /\ lock' = IF lock = p THEN NoLaunch ELSE lock
  /\ Ctl(p, "idle") /\ server' = [server EXCEPT ![p] = "none"]
  /\ built' = [built EXCEPT ![p] = 0] /\ settings' = [settings EXCEPT ![p] = 0]
  /\ UNCHANGED setupVars

Leave(p) == AppAt(p, "leaving") /\ AppEnded(p)

(* _arm_exit_watchdog: 25 seconds after Quit the process exits hard.       *)
Watchdog(p) ==
  /\ app[p].quitting /\ app[p].at \in {"tray", "leaving"}
  /\ AppEnded(p)

(* The process dies; an installer it started goes on.                      *)
ProcessCrash(p) == ~(app[p].at \in {"new", "ended"}) /\ AppEnded(p)

-----------------------------------------------------------------------------
Setup(p) ==
  \/ Ask(p) \/ EnterInstall(p) \/ CopyRuntime(p) \/ CheckRuntime(p) \/ Mark(p)
  \/ PublishRuntime(p)

HostNext == \E p \in Launch :
  \/ StartProgram(p) \/ CancelSetup(p) \/ Terminated(p) \/ SetupEnds(p) \/ CloseFailure(p)
  \/ Setup(p)
  \/ Apply(p) \/ AskRestart(p) \/ Restart(p)
  \/ Enter(p) \/ StopServer(p) \/ Build(p) \/ Listen(p)
  \/ Quit(p) \/ QuitEnters(p) \/ QuitStops(p) \/ Leave(p) \/ Watchdog(p) \/ ProcessCrash(p)

HostSpec == HostInit /\ [][HostNext]_hostVars

-----------------------------------------------------------------------------
(* One process at a time serves, it is the one that holds the instance     *)
(* lock, a runtime it may load was complete and loaded once ("publishing   *)
(* it atomically", install_runtime), and when the tray is at rest the      *)
(* server has the newest settings.                                         *)
HostSafe ==
  /\ \A p \in Launch : server[p] # "none" \/ ctl[p] \in {"building", "listening"} =>
       lock = p
  /\ runtime = "ready" => checked
  /\ \A p \in Launch :
       /\ AppIdle(p) /\ ~app[p].quitting /\ app[p].restarts = 0 /\ ~app[p].asked
       /\ server[p] = "up"
       => built[p] = settings[p]

(* A process that Quit was chosen in, and that has not ended.              *)
QuitAtWork == \E p \in Launch : app[p].quitting
=============================================================================
