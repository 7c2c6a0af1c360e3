------------------------- MODULE Components_proofs -------------------------
(***************************************************************************)
(* What the components without shared state promise, each on its own: the  *)
(* server's process, the cache of subtitle fonts, the files that a client  *)
(* opens, what keeps the desktop awake and the index of subtitles. Every   *)
(* component has an inductive invariant, which every step of it keeps.     *)
(***************************************************************************)
EXTENDS ServerHost, AttachmentCache, SourceOpening, IdleInhibit, AuxiliaryTrack,
        SequenceTheorems, FiniteSetTheorems, TLAPS

-----------------------------------------------------------------------------
(* The server's process (ServerHost).                                      *)

(* The processes that are under way: they hold the instance lock.          *)
Runs(p) == app[p].at \in {"setup", "failed", "tray", "leaving"}
StartAtWork(p) == ctl[p] \in {"stopping", "building", "listening"}

(* The instance lock is held by the process under way, and only a tray     *)
(* has a controller at work or a server.                                   *)
Locked ==
  \A p \in Launch :
    /\ Runs(p) => lock = p
    /\ server[p] # "none" \/ ctl[p] # "idle" => app[p].at \in {"tray", "leaving"}

(* The installer at work holds the install lock, and what it marks and     *)
(* publishes was checked.                                                  *)
Installed ==
  /\ \A p \in Launch :
       /\ installer[p] \in {"copying", "checking", "marking", "publishing"} =>
            installLock = p
       /\ installer[p] \in {"marking", "publishing"} => staging[p] = "checked"
  /\ runtime = "ready" => checked

(* A start keeps the tray busy from the time it is asked for, drops the    *)
(* server before it builds, and serves with the newest settings.           *)
Started ==
  \A p \in Launch :
    /\ app[p].asked => app[p].busy /\ ctl[p] \in {"idle", "quitting"}
    /\ StartAtWork(p) => app[p].busy
    /\ ctl[p] \in {"building", "listening"} => server[p] = "none"
    /\ ctl[p] = "listening" => built[p] = settings[p]
    /\ /\ AppIdle(p) /\ ~app[p].quitting /\ app[p].restarts = 0
       /\ server[p] = "up"
       => built[p] = settings[p]

(* The type of app, and the types of the others.                           *)
AppRecord == [at : {"new", "setup", "failed", "tray", "leaving", "ended"},
              cancelled : BOOLEAN, busy : BOOLEAN, asked : BOOLEAN,
              quitting : BOOLEAN, restarts : 0..MaxChanges]
AppsOK == app \in [Launch -> AppRecord]
OthersOK ==
  /\ lock \in Launch \cup {NoLaunch}
  /\ installer \in [Launch -> {"none", "asking", "waiting", "copying", "checking",
                               "marking", "clearing", "publishing", "done"}]
  /\ installLock \in Launch \cup {NoLaunch}
  /\ staging \in [Launch -> {"none", "some", "all", "checked"}]
  /\ runtime \in {"none", "ready"} /\ checked \in BOOLEAN
  /\ ctl \in [Launch -> {"idle", "stopping", "building", "listening", "quitting"}]
  /\ server \in [Launch -> {"none", "up", "stuck"}]
  /\ built \in [Launch -> 0..MaxChanges] /\ settings \in [Launch -> 0..MaxChanges]

HostInv == HostTypeOK /\ Locked /\ Installed /\ Started


(* The machine has no server and nobody installs at first.                 *)
LEMMA HostBegins == HostInit => HostInv
<1> SUFFICES ASSUME HostInit PROVE HostInv
  OBVIOUS
<1>1. NoApp \in AppRecord  BY HostAssumption DEF NoApp, AppRecord
<1>2. AppsOK  BY <1>1 DEF HostInit, AppsOK
<1>3. OthersOK
  <2>1. 0 \in 0..MaxChanges  BY HostAssumption
  <2> QED  BY <2>1 DEF HostInit, OthersOK
<1>4. \A p \in Launch : app[p] = NoApp /\ ctl[p] = "idle" /\ server[p] = "none" /\ installer[p] = "none"
  BY DEF HostInit
<1>5. Locked /\ Started  BY <1>4 DEF NoApp, Locked, Started, Runs, StartAtWork, AppIdle, AppAt
<1>6. Installed  BY <1>4 DEF HostInit, Installed
<1> QED  BY <1>2, <1>3, <1>5, <1>6 DEF HostInv, HostTypeOK, AppsOK, OthersOK, AppRecord

(* The types in two parts.                                                 *)
LEMMA HostTypes == HostTypeOK <=> AppsOK /\ OthersOK
BY DEF HostTypeOK, AppsOK, OthersOK, AppRecord

(* What the steps make of the record of a process.                         *)
LEMMA Updated ==
  ASSUME NEW r \in AppRecord
  PROVE  /\ \A place \in {"new", "setup", "failed", "tray", "leaving", "ended"} :
              [r EXCEPT !.at = place] \in AppRecord
         /\ [r EXCEPT !.at = "tray", !.busy = TRUE, !.asked = TRUE] \in AppRecord
         /\ [r EXCEPT !.cancelled = TRUE] \in AppRecord
         /\ [r EXCEPT !.busy = FALSE] \in AppRecord
         /\ [r EXCEPT !.asked = FALSE] \in AppRecord
         /\ [r EXCEPT !.quitting = TRUE, !.busy = TRUE] \in AppRecord
         /\ [NoApp EXCEPT !.at = "ended"] \in AppRecord
         /\ r.restarts < MaxChanges => [r EXCEPT !.restarts = @ + 1] \in AppRecord
         /\ r.restarts > 0 => [r EXCEPT !.restarts = @ - 1, !.asked = @ \/ ~r.busy,
                                        !.busy = TRUE] \in AppRecord
<1>1. /\ \A place \in {"new", "setup", "failed", "tray", "leaving", "ended"} :
           [r EXCEPT !.at = place] \in AppRecord
      /\ [r EXCEPT !.at = "tray", !.busy = TRUE, !.asked = TRUE] \in AppRecord
      /\ [r EXCEPT !.cancelled = TRUE] \in AppRecord
      /\ [r EXCEPT !.busy = FALSE] \in AppRecord
      /\ [r EXCEPT !.asked = FALSE] \in AppRecord
      /\ [r EXCEPT !.quitting = TRUE, !.busy = TRUE] \in AppRecord
  BY DEF AppRecord
<1>2. [NoApp EXCEPT !.at = "ended"] \in AppRecord
  <2>1. 0 \in 0..MaxChanges  BY HostAssumption
  <2> QED  BY <2>1 DEF AppRecord, NoApp
<1>3. r.restarts < MaxChanges => [r EXCEPT !.restarts = @ + 1] \in AppRecord
  BY HostAssumption DEF AppRecord
<1>4. ASSUME r.restarts > 0
      PROVE  [r EXCEPT !.restarts = @ - 1, !.asked = @ \/ ~r.busy, !.busy = TRUE] \in AppRecord
  <2>1. r.restarts - 1 \in 0..MaxChanges  BY <1>4, HostAssumption DEF AppRecord
  <2>2. (r.asked \/ ~r.busy) \in BOOLEAN  OBVIOUS
  <2> QED  BY <2>1, <2>2 DEF AppRecord
<1> QED  BY <1>1, <1>2, <1>3, <1>4


(* The installer leaves the processes and their servers alone.             *)
LEMMA InstallerSteps ==
  ASSUME HostInv, NEW p \in Launch, Terminated(p) \/ Setup(p)
  PROVE  HostInv'
<1>1. HostTypeOK /\ Locked /\ Installed /\ Started  BY DEF HostInv
<1>2. UNCHANGED <<app, lock, ctl, server, built, settings>>
  BY DEF Terminated, Setup, Ask, EnterInstall, CopyRuntime, CheckRuntime, Mark,
         PublishRuntime, InstallFails, appVars, serverVars
<1>3. Locked' /\ Started'
  BY <1>1, <1>2 DEF Locked, Started, Runs, StartAtWork, AppIdle, AppAt
<1>4. HostTypeOK'
  BY <1>1, <1>2, HostAssumption
  DEF HostTypeOK, Terminated, Setup, Ask, EnterInstall, CopyRuntime, CheckRuntime, Mark,
      PublishRuntime, InstallFails, Child
<1>5. Installed'
  <2>1. CASE Terminated(p)
    BY <1>1, <2>1, HostAssumption DEF HostTypeOK, Installed, Terminated, Child
  <2>2. CASE Ask(p) \/ Mark(p)
    BY <1>1, <2>2 DEF HostTypeOK, Installed, Ask, Mark, Child
  <2>3. CASE EnterInstall(p)
    BY <1>1, <2>3, HostAssumption DEF HostTypeOK, Installed, EnterInstall, Child
  <2>4. CASE CopyRuntime(p) \/ CheckRuntime(p)
    BY <1>1, <2>4 DEF HostTypeOK, Installed, CopyRuntime, CheckRuntime, InstallFails, Child
  <2>5. CASE PublishRuntime(p)
    BY <1>1, <2>5 DEF HostTypeOK, Installed, PublishRuntime, Child
  <2> QED  BY <2>1, <2>2, <2>3, <2>4, <2>5 DEF Setup
<1> QED  BY <1>3, <1>4, <1>5 DEF HostInv

(* A step of a process changes its own record only.                        *)
LEMMA OneRecord ==
  ASSUME AppsOK, NEW p \in Launch, NEW r \in AppRecord, app' = [app EXCEPT ![p] = r]
  PROVE  AppsOK' /\ app'[p] = r /\ \A q \in Launch \ {p} : app'[q] = app[q]
BY DEF AppsOK

(* A process starts, sets itself up, and ends.                             *)
LEMMA ProcessSteps ==
  ASSUME HostInv, NEW p \in Launch,
         \/ StartProgram(p) \/ CancelSetup(p) \/ SetupEnds(p) \/ CloseFailure(p)
         \/ Leave(p) \/ Watchdog(p) \/ ProcessCrash(p)
  PROVE  HostInv'
<1>1. AppsOK /\ OthersOK /\ Locked /\ Installed /\ Started  BY HostTypes DEF HostInv
<1>2. app[p] \in AppRecord  BY <1>1 DEF AppsOK
<1>3. UNCHANGED <<installLock, staging, runtime, checked>>
  BY DEF StartProgram, CancelSetup, SetupEnds, CloseFailure, Leave, Watchdog, ProcessCrash, AppEnded,
         setupVars
<1>4. Installed'  BY <1>1, <1>3 
  DEF OthersOK, Installed, StartProgram, CancelSetup, SetupEnds, CloseFailure, Leave, Watchdog, ProcessCrash, AppEnded,
         setupVars, Child
<1>5. CASE \/ StartProgram(p) \/ CancelSetup(p) \/ SetupEnds(p) \/ CloseFailure(p)
  <2>1. /\ UNCHANGED <<ctl, server, built, settings>>
        /\ app[p].at \in {"new", "setup", "failed"}
    BY <1>5
    DEF StartProgram, CancelSetup, SetupEnds, CloseFailure, serverVars, AppAt
  <2> DEFINE Becomes(r) ==
        /\ app' = [app EXCEPT ![p] = r]
        /\ r.asked => r.busy
        /\ r.at = "tray" => r.busy
        /\ r.at # "leaving" /\ r.at # "new"
        /\ \/ r.at \in {"tray", "setup", "failed"} /\ lock' = p /\ lock \in {NoLaunch, p}
           \/ r.at = "ended" /\ lock = p /\ lock' = NoLaunch
           \/ r.at = "ended" /\ lock # NoLaunch /\ app[p].at = "new" /\ lock' = lock
  <2>2. \E r \in AppRecord : Becomes(r)
    <3> DEFINE at(place) == [app[p] EXCEPT !.at = place]
               tray == [app[p] EXCEPT !.at = "tray", !.busy = TRUE, !.asked = TRUE]
               stopped == [app[p] EXCEPT !.cancelled = TRUE]
    <3>1. /\ at("setup") \in AppRecord /\ at("failed") \in AppRecord /\ at("ended") \in AppRecord
          /\ tray \in AppRecord /\ stopped \in AppRecord
      BY <1>2, Updated
    <3>2. /\ \A place \in {"setup", "failed", "ended"} :
               /\ at(place).at = place /\ at(place).asked = app[p].asked
               /\ at(place).busy = app[p].busy
          /\ tray.at = "tray" /\ tray.busy
          /\ stopped.at = app[p].at /\ stopped.asked = app[p].asked /\ stopped.busy = app[p].busy
      BY <1>2 DEF AppRecord
    <3>3. /\ app[p].asked => app[p].busy
          /\ app[p].at \in {"setup", "failed"} => lock = p
      BY <1>1 DEF Started, Locked, Runs
    <3>4. \/ app' = [app EXCEPT ![p] = at("setup")] /\ lock' = p /\ lock = NoLaunch
          \/ app' = [app EXCEPT ![p] = at("failed")] /\ lock' = lock /\ app[p].at = "setup"
          \/ app' = [app EXCEPT ![p] = tray] /\ lock' = p /\ lock \in {NoLaunch, p}
          \/ app' = [app EXCEPT ![p] = stopped] /\ lock' = lock /\ app[p].at = "setup"
          \/ /\ app' = [app EXCEPT ![p] = at("ended")]
             /\ \/ lock = p /\ lock' = NoLaunch
                \/ lock # NoLaunch /\ app[p].at = "new" /\ lock' = lock
      <4>1. CASE StartProgram(p)  BY <4>1 DEF StartProgram, Tray, AppGoes, AppAt
      <4>2. CASE CancelSetup(p)  BY <4>2 DEF CancelSetup, AppAt
      <4>3. CASE SetupEnds(p)
        BY <3>3, <4>3 DEF SetupEnds, Tray, AppGoes, AppAt
      <4>4. CASE CloseFailure(p)  BY <3>3, <4>4 DEF CloseFailure, AppGoes, AppAt
      <4> QED  BY <1>5, <4>1, <4>2, <4>3, <4>4
    <3> HIDE DEF at, tray, stopped
    <3> QED  BY <3>1, <3>2, <3>3, <3>4
  <2> PICK r \in AppRecord : Becomes(r)  BY <2>2
  <2>3. AppsOK' /\ app'[p] = r /\ \A q \in Launch \ {p} : app'[q] = app[q]
    BY <1>1, <2>2, OneRecord
  <2>4. OthersOK'
    BY <1>1, <1>3, <2>1, <2>2, <1>5 DEF OthersOK, StartProgram, CancelSetup, SetupEnds, CloseFailure, setupVars, Child
  <2>5. Locked'  BY <1>1, <2>1, <2>2, <2>3, HostAssumption DEF Locked, Runs
  <2>6. Started'
    BY <1>1, <2>1, <2>2, <2>3 DEF Locked, Started, StartAtWork, AppIdle, AppAt
  <2> QED  BY <1>4, <2>3, <2>4, <2>5, <2>6 DEF HostInv, HostTypeOK, AppsOK, OthersOK, AppRecord
<1>6. CASE Leave(p) \/ Watchdog(p) \/ ProcessCrash(p)
  <2>1. AppEnded(p)  BY <1>6 DEF Leave, Watchdog, ProcessCrash
  <2> DEFINE r == [NoApp EXCEPT !.at = "ended"]
  <2>2. r \in AppRecord /\ r.at = "ended" /\ ~r.busy /\ ~r.asked  BY <1>2, Updated DEF NoApp
  <2>3. AppsOK' /\ app'[p] = r /\ \A q \in Launch \ {p} : app'[q] = app[q]
    BY <1>1, <2>1, <2>2, OneRecord DEF AppEnded
  <2> HIDE DEF r
  <2>4. /\ ctl' = [ctl EXCEPT ![p] = "idle"] /\ server' = [server EXCEPT ![p] = "none"]
        /\ built' = [built EXCEPT ![p] = 0] /\ settings' = [settings EXCEPT ![p] = 0]
        /\ lock' = (IF lock = p THEN NoLaunch ELSE lock) /\ UNCHANGED installer
    BY <2>1 DEF AppEnded, Ctl, setupVars
  <2>5. OthersOK'
    <3>1. 0 \in 0..MaxChanges  BY HostAssumption
    <3> QED  BY <1>1, <1>3, <2>4, <3>1 DEF OthersOK
  <2>6. Locked'  BY <1>1, <2>2, <2>3, <2>4 DEF OthersOK, Locked, Runs
  <2>7. Started'  BY <1>1, <2>2, <2>3, <2>4 DEF OthersOK, Started, StartAtWork, AppIdle, AppAt
  <2> QED  BY <1>4, <2>3, <2>5, <2>6, <2>7 DEF HostInv, HostTypeOK, AppsOK, OthersOK, AppRecord
<1> QED  BY <1>5, <1>6


(* The tray and its controller.                                            *)
LEMMA TraySteps ==
  ASSUME HostInv, NEW p \in Launch,
         \/ Apply(p) \/ AskRestart(p) \/ Restart(p)
         \/ Enter(p) \/ StopServer(p) \/ Build(p) \/ Listen(p)
         \/ Quit(p) \/ QuitEnters(p) \/ QuitStops(p)
  PROVE  HostInv'
<1> DEFINE R == app[p]
<1>1. AppsOK /\ OthersOK /\ Locked /\ Installed /\ Started  BY HostTypes DEF HostInv
<1>2. R \in AppRecord /\ R.at = "tray"
  BY <1>1
  DEF AppsOK, Apply, AskRestart, Restart, Enter, StopServer, Build, Listen, Quit, QuitEnters,
      QuitStops, AppIdle, AppAt
<1>3. UNCHANGED <<lock, installer, installLock, staging, runtime, checked>>
  BY DEF Apply, AskRestart, Restart, Enter, StopServer, Build, Listen, Quit, QuitEnters,
         QuitStops, appVars, setupVars
<1>4. Installed'  BY <1>1, <1>3 DEF Installed
<1> DEFINE Others == /\ \A q \in Launch \ {p} :
                          /\ ctl'[q] = ctl[q] /\ server'[q] = server[q]
                          /\ built'[q] = built[q] /\ settings'[q] = settings[q]
           Becomes(r) == /\ app' = [app EXCEPT ![p] = r] /\ r.at \in {"tray", "leaving"}
                         /\ r.asked => r.busy /\ ctl'[p] \in {"idle", "quitting"}
                         /\ ctl'[p] \in {"stopping", "building", "listening"} => r.busy
                         /\ ctl'[p] \in {"building", "listening"} => server'[p] = "none"
                         /\ ctl'[p] = "listening" => built'[p] = settings'[p]
                         /\ /\ r.at = "tray" /\ ~r.busy /\ ~r.quitting /\ r.restarts = 0
                            /\ server'[p] = "up"
                            => built'[p] = settings'[p]
<1>5. OthersOK' /\ Others
  BY <1>1, <1>3, HostAssumption
  DEF OthersOK, Apply, AskRestart, Restart, Enter, StopServer, Build, Listen, Quit, QuitEnters,
      QuitStops, StartOver, AppGoes, Ctl, appVars, setupVars, serverVars
<1>6. /\ R.asked => R.busy /\ ctl[p] \in {"idle", "quitting"}
      /\ ctl[p] \in {"stopping", "building", "listening"} => R.busy
      /\ ctl[p] \in {"building", "listening"} => server[p] = "none"
      /\ ctl[p] = "listening" => built[p] = settings[p]
      /\ /\ ~R.busy /\ ~R.quitting /\ R.restarts = 0 /\ server[p] = "up"
         => built[p] = settings[p]
  BY <1>1, <1>2 DEF Started, StartAtWork, AppIdle, AppAt
<1>7. \E r \in AppRecord : Becomes(r)
  <2>1. CASE Apply(p) \/ AskRestart(p)
    <3> DEFINE r == [R EXCEPT !.restarts = @ + 1]
    <3>1. r \in AppRecord  BY <1>2, <2>1, Updated DEF Apply, AskRestart
    <3>2. /\ r.at = R.at /\ r.asked = R.asked /\ r.busy = R.busy /\ r.restarts # 0
      BY <1>2 DEF AppRecord
    <3>3. app' = [app EXCEPT ![p] = r] /\ ~R.busy /\ ctl' = ctl /\ server' = server
      BY <2>1 DEF Apply, AskRestart, AppIdle, serverVars
    <3> HIDE DEF r
    <3> QED  BY <1>2, <1>6, <3>1, <3>2, <3>3
  <2>2. CASE Restart(p)
    <3> DEFINE r == [R EXCEPT !.restarts = @ - 1, !.asked = @ \/ ~R.busy, !.busy = TRUE]
    <3>1. r \in AppRecord  BY <1>2, <2>2, Updated DEF Restart
    <3>2. r.at = R.at /\ r.asked = (R.asked \/ ~R.busy) /\ r.busy  BY <1>2 DEF AppRecord
    <3>3. app' = [app EXCEPT ![p] = r] /\ UNCHANGED <<ctl, server, built, settings>>
      BY <2>2 DEF Restart, serverVars
    <3>4. ctl[p] \in {"idle", "stopping", "building", "listening", "quitting"}  BY <1>1 DEF OthersOK
    <3> HIDE DEF r
    <3> QED  BY <1>2, <1>6, <3>1, <3>2, <3>3, <3>4
  <2>3. CASE Enter(p)
    <3> DEFINE r == [R EXCEPT !.asked = FALSE]
    <3>1. r \in AppRecord  BY <1>2, Updated
    <3>2. r.at = R.at /\ ~r.asked /\ r.busy = R.busy /\ R.asked  BY <1>2, <2>3 DEF AppRecord, Enter
    <3>3. app' = [app EXCEPT ![p] = r] /\ ctl'[p] = "stopping"
      BY <1>1, <2>3 DEF Enter, Ctl, OthersOK
    <3> HIDE DEF r
    <3> QED  BY <1>2, <1>6, <3>1, <3>2, <3>3
  <2>4. CASE StopServer(p) \/ Build(p) \/ Listen(p)
    <3> DEFINE r == [R EXCEPT !.busy = FALSE]
    <3>1. r \in AppRecord  BY <1>2, Updated
    <3>2. r.at = R.at /\ r.asked = R.asked /\ ~r.busy  BY <1>2 DEF AppRecord
    <3>3. /\ \/ app' = [app EXCEPT ![p] = r] /\ ctl'[p] = "idle"
             \/ app' = app /\ ctl'[p] = "building" /\ server'[p] = "none"
             \/ app' = app /\ ctl'[p] = "listening" /\ built'[p] = settings'[p] /\ server' = server
                /\ ctl[p] = "building"
          /\ \/ ctl[p] = "stopping" /\ (ctl'[p] = "idle" => server'[p] = "stuck")
             \/ ctl[p] = "building" /\ server' = server
             \/ ctl[p] = "listening" /\ UNCHANGED <<built, settings>>
      BY <1>1, <2>4 DEF StopServer, Build, Listen, StartOver, Ctl, OthersOK
    <3>4. app = [app EXCEPT ![p] = R]  BY <1>1 DEF AppsOK
    <3> HIDE DEF r
    <3> QED  BY <1>2, <1>6, <3>1, <3>2, <3>3, <3>4
  <2>5. CASE Quit(p)
    <3> DEFINE r == [R EXCEPT !.quitting = TRUE, !.busy = TRUE]
    <3>1. r \in AppRecord  BY <1>2, Updated
    <3>2. r.at = R.at /\ r.asked = R.asked /\ r.busy /\ r.quitting  BY <1>2 DEF AppRecord
    <3>3. app' = [app EXCEPT ![p] = r] /\ UNCHANGED <<ctl, server, built, settings>>
      BY <2>5 DEF Quit, serverVars
    <3> HIDE DEF r
    <3> QED  BY <1>2, <1>6, <3>1, <3>2, <3>3
  <2>6. CASE QuitEnters(p)
    <3>1. app' = app /\ ctl'[p] = "quitting" /\ UNCHANGED <<server, built, settings>>
      BY <1>1, <2>6 DEF QuitEnters, Ctl, OthersOK, appVars
    <3>2. app = [app EXCEPT ![p] = R]  BY <1>1 DEF AppsOK
    <3> QED  BY <1>2, <1>6, <3>1, <3>2
  <2>7. CASE QuitStops(p)
    <3> DEFINE r == [R EXCEPT !.at = "leaving"]
    <3>1. r \in AppRecord  BY <1>2, Updated
    <3>2. r.at = "leaving" /\ r.asked = R.asked /\ r.busy = R.busy  BY <1>2 DEF AppRecord
    <3>3. app' = [app EXCEPT ![p] = r] /\ UNCHANGED <<ctl, built, settings>>
          /\ (server'[p] = "none" \/ server' = server)
      BY <1>1, <2>7 DEF QuitStops, AppGoes, OthersOK
    <3> HIDE DEF r
    <3> QED  BY <1>2, <1>6, <3>1, <3>2, <3>3
  <2> QED  BY <2>1, <2>2, <2>3, <2>4, <2>5, <2>6, <2>7
<1> PICK r \in AppRecord : Becomes(r)  BY <1>7
<1>8. AppsOK' /\ app'[p] = r /\ \A q \in Launch \ {p} : app'[q] = app[q]
  BY <1>1, OneRecord
<1>9. Locked'  BY <1>1, <1>2, <1>3, <1>5, <1>8 DEF Locked, Runs
<1>10. Started'  BY <1>1, <1>5, <1>8 DEF Started, StartAtWork, AppIdle, AppAt
<1> QED
  BY <1>4, <1>5, <1>8, <1>9, <1>10 DEF HostInv, HostTypeOK, AppsOK, OthersOK, AppRecord

(* Every step of the machine keeps its invariant.                          *)
LEMMA HostSteps ==
  ASSUME HostInv, [HostNext]_hostVars
  PROVE  HostInv'
<1>1. CASE HostNext
  BY <1>1, InstallerSteps, ProcessSteps, TraySteps DEF HostNext
<1>2. CASE UNCHANGED hostVars
  BY <1>2
  DEF HostInv, HostTypeOK, Locked, Installed, Started, Runs, StartAtWork, AppIdle, AppAt, hostVars,
      appVars, setupVars, serverVars
<1> QED  BY <1>1, <1>2

(* However many processes are started, and however they crash, are         *)
(* cancelled and quit: one at a time serves, with a runtime that was       *)
(* complete, and at rest with the newest settings.                         *)
THEOREM OneServer == HostSpec => []HostSafe
<1>1. HostInv => HostSafe
  BY HostAssumption
  DEF HostInv, HostTypeOK, HostSafe, Locked, Installed, Started, Runs
<1> QED  BY HostBegins, HostSteps, <1>1, PTL DEF HostSpec

-----------------------------------------------------------------------------
(* The cache of subtitle fonts (AttachmentCache).                          *)

IsStore(s) ==
  /\ s \subseteq [digest : Digest, good : BOOLEAN, age : Nat]
  /\ \A x, y \in s : x.digest = y.digest => x = y

(* The good links to the entries before n.                                 *)
Linked(o, n) == {Link(Wanted[o][i], TRUE) : i \in 1..n - 1}

(* The view of an open is leased from its first step to its end, and links *)
(* a good copy of every entry up to where the open is; the one it hashes   *)
(* may be damaged. One that is done and was not stopped is complete.       *)
Materialised(o) ==
  LET at == opening[o].at
      n == opening[o].entry
      links == view[o].links
  IN /\ at \in {"idle", "open"} => n = 1
     /\ at \in {"acquire", "verify", "fetch", "publish", "done"} => view[o].leased
     /\ at \in {"acquire", "verify", "fetch", "publish"} => n \in 1..Len(Wanted[o])
     /\ at \in {"acquire", "fetch", "publish"} => links = Linked(o, n)
     /\ at = "verify" =>
          \E good \in BOOLEAN : links = Linked(o, n) \cup {Link(Wanted[o][n], good)}
     /\ at = "done" => links = Linked(o, n)
     /\ at = "done" /\ ~opening[o].stopped => n = Len(Wanted[o]) + 1
     /\ o \in published => at \in {"done", "gone", "crashed"} /\ (at = "done" => ~opening[o].stopped)
     /\ at = "gone" => view[o] = NoView
     /\ at = "crashed" => ~view[o].leased

OpeningsOK ==
  opening \in [Opens -> [at : {"idle", "open", "acquire", "verify", "fetch", "publish", "done",
                               "gone", "crashed"},
                         entry : Nat, stopped : BOOLEAN]]
ViewsOK ==
  /\ view \in [Opens -> [there : BOOLEAN, leased : BOOLEAN, links : SUBSET Object]]
  /\ \A o \in Opens : view[o].leased => view[o].there

CacheInv ==
  /\ IsStore(store) /\ OpeningsOK /\ ViewsOK /\ published \subseteq Opens
  /\ \A o \in Opens : Materialised(o)

(* No two objects have one digest, so there are no more than digests.      *)
LEMMA StoreFinite ==
  ASSUME NEW s, IsStore(s)
  PROVE  IsFiniteSet(s)
<1> DEFINE f == [x \in s |-> x.digest]
<1>1. f \in Injection(s, Digest)
  BY DEF IsStore, Injection, IsInjective
<1> QED  BY <1>1, FS_Injection, CacheAssumption

(* Uses and evictions keep a store a store.                                *)
LEMMA StoreSteps ==
  ASSUME NEW s, IsStore(s), NEW x \in [digest : Digest, good : BOOLEAN]
  PROVE  /\ IsStore(Used(s, x))
         /\ \A keep : IsStore(Evicted(s, keep))
<1>1. ASSUME NEW n \in Nat, NEW y \in s
      PROVE  /\ Aged(y, n) \in [digest : Digest, good : BOOLEAN, age : Nat]
             /\ Aged(y, n).digest = y.digest /\ Aged(y, n).age = n
  BY DEF IsStore, Aged
<1> DEFINE t == Without(s, x.digest)
           rank(y) == Cardinality({z \in t : z.age < y.age})
<1>2. t \subseteq s /\ \A y \in t : y.digest # x.digest  BY DEF Without
<1>3. \A y \in t : rank(y) \in Nat
  <2>1. IsFiniteSet(s)  BY StoreFinite
  <2>2. \A y \in t : {z \in t : z.age < y.age} \in SUBSET s  BY <1>2
  <2> QED  BY <2>1, <2>2, FS_Subset, FS_CardinalityType
<1> HIDE DEF t
<1>4. Ranked(t) = {Aged(y, rank(y)) : y \in t}  BY DEF Ranked
<1> HIDE DEF rank
<1>5. \A r \in Ranked(t) :
        \E y \in t : r = Aged(y, rank(y)) /\ r.digest = y.digest /\ r.age \in Nat
                     /\ r.good = y.good
  BY <1>1, <1>2, <1>3, <1>4 DEF Aged
<1>6. \A r \in Ranked(t) : /\ Aged(r, r.age + 1) \in [digest : Digest, good : BOOLEAN, age : Nat]
                           /\ Aged(r, r.age + 1).digest = r.digest /\ r.digest # x.digest
  BY <1>2, <1>5 DEF IsStore, Aged
<1>7. \A r, q \in Ranked(t) : r.digest = q.digest => r = q
  BY <1>2, <1>5 DEF IsStore
<1>8. Aged(x, 0) \in [digest : Digest, good : BOOLEAN, age : Nat] /\ Aged(x, 0).digest = x.digest
  BY DEF Aged
<1>9. Used(s, x) = {Aged(x, 0)} \cup {Aged(r, r.age + 1) : r \in Ranked(t)}  BY DEF Used, t
<1>10. IsStore(Used(s, x))
  BY <1>6, <1>7, <1>8, <1>9 DEF IsStore
<1>11. \A keep : Evicted(s, keep) \subseteq s  BY DEF Evicted
<1>12. \A keep : IsStore(Evicted(s, keep))  BY <1>11 DEF IsStore
<1> QED  BY <1>10, <1>12


(* Nothing is open at first, and the store has one object to a digest.     *)
LEMMA CacheBegins == CacheInit => CacheInv
<1> SUFFICES ASSUME CacheInit PROVE CacheInv
  OBVIOUS
<1>1. IsStore(store)
  <2>1. PICK S \in SUBSET Digest : store = {Aged(Link(d, FALSE), 0) : d \in S}  BY DEF CacheInit
  <2>2. \A d \in S : /\ Aged(Link(d, FALSE), 0) \in [digest : Digest, good : BOOLEAN, age : Nat]
                     /\ Aged(Link(d, FALSE), 0).digest = d
    BY DEF Aged, Link
  <2>3. \A x \in store : x.digest \in S /\ x = Aged(Link(x.digest, FALSE), 0)
    BY <2>1, <2>2
  <2> QED  BY <2>1, <2>2, <2>3 DEF IsStore
<1>2. OpeningsOK /\ ViewsOK /\ published \subseteq Opens
  BY DEF CacheInit, OpeningsOK, ViewsOK, NoView, Object
<1>3. \A o \in Opens : Materialised(o)  BY DEF CacheInit, Materialised
<1> QED  BY <1>1, <1>2, <1>3 DEF CacheInv

(* The links of the next entry.                                            *)
LEMMA NextLink ==
  ASSUME NEW o \in Opens, NEW n \in 1..Len(Wanted[o])
  PROVE  /\ Wanted[o] \in Seq(Digest) /\ Wanted[o][n] \in Digest
         /\ Linked(o, 1) = {}
         /\ Linked(o, n + 1) = Linked(o, n) \cup {Link(Wanted[o][n], TRUE)}
         /\ \A good : Link(Wanted[o][n], good) \notin Linked(o, n)
         /\ \A m \in Nat : m <= Len(Wanted[o]) + 1 => Linked(o, m) \subseteq Object
<1>1. Wanted[o] \in Seq(Digest)  BY CacheAssumption
<1>2. Wanted[o][n] \in Digest  BY <1>1
<1>3. 1..(n + 1) - 1 = (1..n - 1) \cup {n}  OBVIOUS
<1>4. Linked(o, n + 1) = Linked(o, n) \cup {Link(Wanted[o][n], TRUE)}  BY <1>3 DEF Linked
<1>5. Linked(o, 1) = {}  BY DEF Linked
<1>6. ASSUME NEW good PROVE Link(Wanted[o][n], good) \notin Linked(o, n)
  <2>1. ASSUME NEW i \in 1..n - 1 PROVE Wanted[o][i] # Wanted[o][n]
    <3>1. i \in DOMAIN Wanted[o] /\ n \in DOMAIN Wanted[o] /\ i # n  BY <1>1
    <3> QED  BY <3>1, CacheAssumption
  <2> QED  BY <2>1 DEF Linked, Link
<1>7. ASSUME NEW m \in Nat, m <= Len(Wanted[o]) + 1
      PROVE  Linked(o, m) \subseteq Object
  <2>1. \A i \in 1..m - 1 : Wanted[o][i] \in Digest  BY <1>1, <1>7
  <2>2. \A d \in Digest : Link(d, TRUE) \in Object  BY DEF Link, Object
  <2> QED  BY <2>1, <2>2 DEF Linked
<1> QED  BY <1>1, <1>2, <1>4, <1>5, <1>6, <1>7

(* A step of one open leaves the others as they are, except that the views *)
(* nobody leases go: those of opens that have ended.                       *)
LEMMA OtherOpens ==
  ASSUME CacheInv, NEW o \in Opens, NEW q \in Opens \ {o},
         opening'[q] = opening[q], q \in published' <=> q \in published,
         view'[q] = view[q] \/ view'[q] = Pruned(view)[q]
  PROVE  Materialised(q)'
<1>1. Materialised(q) /\ view[q] \in [there : BOOLEAN, leased : BOOLEAN, links : SUBSET Object]
  BY DEF CacheInv, ViewsOK
<1>2. view'[q] = view[q] \/ (~view[q].leased /\ view'[q] = NoView)  BY DEF Pruned
<1>3. NoView.leased = FALSE  BY DEF NoView
<1> QED  BY <1>1, <1>2, <1>3 DEF Materialised

(* What a step makes of its open and its view.                             *)
LEMMA OwnOpen ==
  ASSUME OpeningsOK, ViewsOK, NEW o \in Opens,
         NEW a \in [at : {"idle", "open", "acquire", "verify", "fetch", "publish", "done",
                          "gone", "crashed"}, entry : Nat, stopped : BOOLEAN],
         opening' = [opening EXCEPT ![o] = a],
         NEW v \in [there : BOOLEAN, leased : BOOLEAN, links : SUBSET Object],
         v.leased => v.there,
         view' = [view EXCEPT ![o] = v] \/ view' = [Pruned(view) EXCEPT ![o] = v]
  PROVE  /\ OpeningsOK' /\ ViewsOK' /\ opening'[o] = a /\ view'[o] = v
         /\ \A q \in Opens \ {o} :
              opening'[q] = opening[q] /\ (view'[q] = view[q] \/ view'[q] = Pruned(view)[q])
<1>1. OpeningsOK' /\ opening'[o] = a /\ \A q \in Opens \ {o} : opening'[q] = opening[q]
  BY DEF OpeningsOK
<1>2. \A q \in Opens : /\ Pruned(view)[q] = IF view[q].leased THEN view[q] ELSE NoView
                       /\ NoView \in [there : BOOLEAN, leased : BOOLEAN, links : SUBSET Object]
                       /\ ~NoView.leased
  BY DEF Pruned, NoView
<1>3. Pruned(view) \in [Opens -> [there : BOOLEAN, leased : BOOLEAN, links : SUBSET Object]]
      /\ \A q \in Opens : Pruned(view)[q].leased => Pruned(view)[q].there
  BY <1>2 DEF ViewsOK, Pruned
<1>4. ViewsOK' /\ view'[o] = v
      /\ \A q \in Opens \ {o} : view'[q] = view[q] \/ view'[q] = Pruned(view)[q]
  <2>1. CASE view' = [view EXCEPT ![o] = v]  BY <2>1 DEF ViewsOK
  <2>2. CASE view' = [Pruned(view) EXCEPT ![o] = v]  BY <1>3, <2>2 DEF ViewsOK
  <2> QED  BY <2>1, <2>2
<1> QED  BY <1>1, <1>4


(* One open goes from place to place.                                      *)
LEMMA OpenSteps ==
  ASSUME CacheInv, NEW o \in Opens,
         \/ Begin(o) \/ OpenView(o) \/ Acquire(o) \/ Verify(o) \/ Fetch(o) \/ PublishObject(o)
         \/ Cancel(o)
  PROVE  CacheInv'
<1> DEFINE a == opening[o]
           v == view[o]
           n == opening[o].entry
           Places == {"idle", "open", "acquire", "verify", "fetch", "publish", "done", "gone",
                      "crashed"}
           OpenType == [at : Places, entry : Nat, stopped : BOOLEAN]
           ViewType == [there : BOOLEAN, leased : BOOLEAN, links : SUBSET Object]
           Onward(b) == [b EXCEPT !.entry = @ + 1,
                                !.at = IF b.stopped \/ b.entry = Len(Wanted[o]) THEN "done"
                                       ELSE "acquire"]
<1>1. /\ IsStore(store) /\ OpeningsOK /\ ViewsOK /\ published \subseteq Opens
      /\ Materialised(o) /\ \A q \in Opens \ {o} : Materialised(q)
  BY DEF CacheInv
<1>2. a \in OpenType /\ v \in ViewType /\ (v.leased => v.there) /\ n \in Nat
  BY <1>1 DEF OpeningsOK, ViewsOK
<1>3. published' = published
  BY DEF Begin, OpenView, Acquire, Verify, Fetch, PublishObject, Cancel
<1>4. o \in published => a.at \in {"done", "gone", "crashed"}  BY <1>1 DEF Materialised
<1>5. IsStore(store')
  <2>1. CASE Acquire(o)
    <3>1. store' = store \/ \E x \in store : store' = Used(store, x)  BY <2>1 DEF Acquire
    <3>2. \A x \in store : Used(store, x) = Used(store, Link(x.digest, x.good))
      BY DEF Used, Aged, Link
    <3>3. \A x \in store : Link(x.digest, x.good) \in [digest : Digest, good : BOOLEAN]
      BY <1>1 DEF IsStore, Link
    <3> QED  BY <1>1, <3>1, <3>2, <3>3, StoreSteps
  <2>2. CASE PublishObject(o)
    <3>1. n \in 1..Len(Wanted[o])  BY <1>1, <2>2 DEF PublishObject, OpenAt, Materialised
    <3>2. Link(Entry(o), TRUE) \in [digest : Digest, good : BOOLEAN]
      BY <3>1, NextLink DEF Entry, Link
    <3>3. store' = Evicted(Used(store, Link(Entry(o), TRUE)), Protected(o))
      BY <2>2 DEF PublishObject
    <3> QED  BY <1>1, <3>2, <3>3, StoreSteps
  <2>3. CASE Begin(o) \/ OpenView(o) \/ Verify(o) \/ Fetch(o) \/ Cancel(o)
    BY <1>1, <2>3 DEF Begin, OpenView, Verify, Fetch, Cancel
  <2> QED  BY <2>1, <2>2, <2>3
<1> DEFINE Goes(b, w) ==
      /\ b \in OpenType /\ w \in ViewType /\ (w.leased => w.there)
      /\ opening' = [opening EXCEPT ![o] = b]
      /\ view' = [view EXCEPT ![o] = w] \/ view' = [Pruned(view) EXCEPT ![o] = w]
      /\ b.at \in {"open", "acquire", "verify", "fetch", "publish", "done"}
      /\ b.at = "open" => b.entry = 1
      /\ b.at # "open" => w.leased
      /\ b.at \in {"acquire", "verify", "fetch", "publish"} => b.entry \in 1..Len(Wanted[o])
      /\ b.at \in {"acquire", "fetch", "publish", "done"} => w.links = Linked(o, b.entry)
      /\ b.at = "verify" =>
           \E good \in BOOLEAN :
             w.links = Linked(o, b.entry) \cup {Link(Wanted[o][b.entry], good)}
      /\ b.at = "done" /\ ~b.stopped => b.entry = Len(Wanted[o]) + 1
      /\ o \notin published
<1>6. ASSUME NEW b, NEW w, Goes(b, w)
      PROVE  CacheInv'
  <2>1. /\ OpeningsOK' /\ ViewsOK' /\ opening'[o] = b /\ view'[o] = w
        /\ \A q \in Opens \ {o} :
             opening'[q] = opening[q] /\ (view'[q] = view[q] \/ view'[q] = Pruned(view)[q])
    BY <1>1, <1>6, OwnOpen
  <2>2. Materialised(o)'  BY <1>3, <1>6, <2>1 DEF Materialised
  <2>3. \A q \in Opens \ {o} : Materialised(q)'
    BY <1>3, <2>1, OtherOpens
  <2> QED  BY <1>1, <1>3, <1>5, <2>1, <2>2, <2>3 DEF CacheInv
<1>7. view = [view EXCEPT ![o] = v]  BY <1>1 DEF ViewsOK
<1>8. ASSUME n \in 1..Len(Wanted[o])
      PROVE  /\ Onward(a) \in OpenType /\ Onward(a).entry = n + 1 /\ Onward(a).stopped = a.stopped
             /\ Onward(a).at \in {"done", "acquire"}
             /\ Onward(a).at = "acquire" => n + 1 \in 1..Len(Wanted[o])
             /\ Onward(a).at = "done" /\ ~a.stopped => n + 1 = Len(Wanted[o]) + 1
  <2>1. Len(Wanted[o]) \in Nat  BY <1>8, NextLink
  <2> DEFINE place == IF a.stopped \/ n = Len(Wanted[o]) THEN "done" ELSE "acquire"
  <2>2. place \in Places /\ n + 1 \in Nat  BY <1>2
  <2>3. Onward(a) = [a EXCEPT !.entry = n + 1, !.at = place]  OBVIOUS
  <2>4. /\ Onward(a) \in OpenType /\ Onward(a).entry = n + 1 /\ Onward(a).stopped = a.stopped
        /\ Onward(a).at = IF a.stopped \/ n = Len(Wanted[o]) THEN "done" ELSE "acquire"
    BY <1>2, <2>2, <2>3
  <2> HIDE DEF Onward, place
  <2> QED  BY <1>8, <2>1, <2>4
<1>9. CASE Begin(o)
  <2> DEFINE b == [a EXCEPT !.at = "open"]
  <2>1. b \in OpenType /\ b.at = "open" /\ b.entry = n  BY <1>2
  <2>2. opening' = [opening EXCEPT ![o] = b] /\ view' = view /\ a.at = "idle"
    BY <1>9 DEF Begin, OpenGoes, OpenAt
  <2>3. n = 1 /\ o \notin published  BY <1>1, <1>4, <2>2 DEF Materialised
  <2> HIDE DEF b
  <2>4. Goes(b, v)  BY <1>2, <1>7, <2>1, <2>2, <2>3
  <2> QED  BY <1>6, <2>4
<1>10. CASE OpenView(o)
  <2> DEFINE place == IF a.stopped \/ Wanted[o] = <<>> THEN "done" ELSE "acquire"
             b == [a EXCEPT !.at = place]
             w == [there |-> TRUE, leased |-> TRUE, links |-> {}]
  <2>1. b \in OpenType /\ b.at = place /\ b.entry = n /\ b.stopped = a.stopped  BY <1>2
  <2>2. w \in ViewType /\ w.leased /\ w.there /\ w.links = {}  OBVIOUS
  <2>3. opening' = [opening EXCEPT ![o] = b] /\ view' = [Pruned(view) EXCEPT ![o] = w] /\ a.at = "open"
    BY <1>10 DEF OpenView, OpenGoes, OpenAt
  <2>4. n = 1 /\ o \notin published  BY <1>1, <1>4, <2>3 DEF Materialised
  <2>5. IF Wanted[o] = <<>> THEN Len(Wanted[o]) = 0 ELSE 1 \in 1..Len(Wanted[o])
    BY CacheAssumption
  <2>6. Linked(o, 1) = {}  BY DEF Linked
  <2>7. place \in {"done", "acquire"}
        /\ (place = "acquire" => n \in 1..Len(Wanted[o]))
        /\ (place = "done" /\ ~a.stopped => n = Len(Wanted[o]) + 1)
    BY <2>4, <2>5
  <2> HIDE DEF b, w, place
  <2>8. Goes(b, w)  BY <2>1, <2>2, <2>3, <2>4, <2>6, <2>7
  <2> QED  BY <1>6, <2>8
<1>11. CASE Acquire(o)
  <2>1. a.at = "acquire"  BY <1>11 DEF Acquire, OpenAt
  <2>2. n \in 1..Len(Wanted[o]) /\ v.leased /\ v.links = Linked(o, n) /\ o \notin published
    BY <1>1, <1>4, <2>1 DEF Materialised
  <2>3. CASE /\ OpenGoes(o, "fetch") /\ view' = view
    <3> DEFINE b == [a EXCEPT !.at = "fetch"]
    <3>1. b \in OpenType /\ b.at = "fetch" /\ b.entry = n  BY <1>2
    <3>2. opening' = [opening EXCEPT ![o] = b]  BY <2>3 DEF OpenGoes
    <3> HIDE DEF b
    <3>3. Goes(b, v)  BY <1>2, <1>7, <2>2, <2>3, <3>1, <3>2
    <3> QED  BY <1>6, <3>3
  <2>4. ASSUME NEW x \in store, x.digest = Entry(o), OpenGoes(o, "verify"),
               view' = [view EXCEPT ![o].links = @ \cup {Link(x.digest, x.good)}]
        PROVE  CacheInv'
    <3> DEFINE b == [a EXCEPT !.at = "verify"]
               w == [v EXCEPT !.links = @ \cup {Link(x.digest, x.good)}]
    <3>1. b \in OpenType /\ b.at = "verify" /\ b.entry = n  BY <1>2
    <3>2. opening' = [opening EXCEPT ![o] = b] /\ view' = [view EXCEPT ![o] = w]
      BY <2>4 DEF OpenGoes
    <3>3. x.good \in BOOLEAN /\ x.digest = Wanted[o][n] /\ x.digest \in Digest
      BY <1>1, <2>4 DEF IsStore, Entry
    <3>4. Link(x.digest, x.good) \in Object  BY <3>3 DEF Link, Object
    <3>5. w \in ViewType /\ w.leased = v.leased /\ w.there = v.there
          /\ w.links = Linked(o, n) \cup {Link(Wanted[o][n], x.good)}
      BY <1>2, <2>2, <3>3, <3>4
    <3> HIDE DEF b, w
    <3>6. Goes(b, w)  BY <1>2, <2>2, <3>1, <3>2, <3>3, <3>5
    <3> QED  BY <1>6, <3>6
  <2> QED  BY <1>11, <2>3, <2>4 DEF Acquire
<1>12. CASE Verify(o)
  <2>1. a.at = "verify"  BY <1>12 DEF Verify, OpenAt
  <2>2. n \in 1..Len(Wanted[o]) /\ v.leased /\ o \notin published
    BY <1>1, <1>4, <2>1 DEF Materialised
  <2>3. PICK good \in BOOLEAN : v.links = Linked(o, n) \cup {Link(Wanted[o][n], good)}
    BY <1>1, <2>1 DEF Materialised
  <2> DEFINE bad == Link(Wanted[o][n], FALSE)
  <2>4. /\ Linked(o, n + 1) = Linked(o, n) \cup {Link(Wanted[o][n], TRUE)}
        /\ Link(Wanted[o][n], TRUE) \notin Linked(o, n) /\ bad \notin Linked(o, n)
    BY <2>2, NextLink
  <2>5. bad # Link(Wanted[o][n], TRUE)  BY DEF Link
  <2>6. CASE Link(Entry(o), TRUE) \in v.links
    <3>1. v.links = Linked(o, n + 1)
      BY <2>3, <2>4, <2>5, <2>6 DEF Entry
    <3>2. opening' = [opening EXCEPT ![o] = Onward(a)] /\ view' = view
      BY <1>12, <2>6 DEF Verify, NextEntry
    <3> HIDE DEF Onward
    <3>3. Goes(Onward(a), v)  BY <1>2, <1>7, <1>8, <2>2, <3>1, <3>2
    <3> QED  BY <1>6, <3>3
  <2>7. CASE Link(Entry(o), TRUE) \notin v.links
    <3> DEFINE b == [a EXCEPT !.at = "fetch"]
               w == [v EXCEPT !.links = @ \ {bad}]
    <3>1. b \in OpenType /\ b.at = "fetch" /\ b.entry = n  BY <1>2
    <3>2. opening' = [opening EXCEPT ![o] = b] /\ view' = [view EXCEPT ![o] = w]
      BY <1>12, <2>7 DEF Verify, OpenGoes, Entry
    <3>3. good = FALSE  BY <2>3, <2>7 DEF Entry
    <3>4. v.links \ {bad} = Linked(o, n)  BY <2>3, <2>4, <3>3
    <3>5. w \in ViewType /\ w.leased = v.leased /\ w.there = v.there /\ w.links = Linked(o, n)
      BY <1>2, <3>4
    <3> HIDE DEF b, w
    <3>6. Goes(b, w)  BY <1>2, <2>2, <3>1, <3>2, <3>5
    <3> QED  BY <1>6, <3>6
  <2> QED  BY <2>6, <2>7
<1>13. CASE Fetch(o)
  <2>1. a.at = "fetch"  BY <1>13 DEF Fetch, OpenAt
  <2>2. n \in 1..Len(Wanted[o]) /\ v.leased /\ v.links = Linked(o, n) /\ o \notin published
    BY <1>1, <1>4, <2>1 DEF Materialised
  <2> DEFINE b == [a EXCEPT !.at = "publish"]
             c == [a EXCEPT !.stopped = TRUE]
  <2>3. b \in OpenType /\ b.at = "publish" /\ b.entry = n  BY <1>2
  <2>4. c \in OpenType /\ c.at = "fetch" /\ c.entry = n  BY <1>2, <2>1
  <2>5. /\ opening' = [opening EXCEPT ![o] = b] \/ opening' = [opening EXCEPT ![o] = c]
        /\ view' = view
    BY <1>13 DEF Fetch, OpenGoes
  <2> HIDE DEF b, c
  <2>6. Goes(b, v) \/ Goes(c, v)  BY <1>2, <1>7, <2>2, <2>3, <2>4, <2>5
  <2> QED  BY <1>6, <2>6
<1>14. CASE PublishObject(o)
  <2>1. a.at = "publish"  BY <1>14 DEF PublishObject, OpenAt
  <2>2. n \in 1..Len(Wanted[o]) /\ v.leased /\ v.links = Linked(o, n) /\ o \notin published
    BY <1>1, <1>4, <2>1 DEF Materialised
  <2> DEFINE w == [v EXCEPT !.links = @ \cup {Link(Wanted[o][n], TRUE)}]
  <2>3. opening' = [opening EXCEPT ![o] = Onward(a)] /\ view' = [view EXCEPT ![o] = w]
    BY <1>14 DEF PublishObject, NextEntry, Entry
  <2>4. Link(Wanted[o][n], TRUE) \in Object  BY <2>2, NextLink DEF Link, Object
  <2>5. w \in ViewType /\ w.leased = v.leased /\ w.there = v.there /\ w.links = Linked(o, n + 1)
    BY <1>2, <2>2, <2>4, NextLink
  <2> HIDE DEF w, Onward
  <2>6. Goes(Onward(a), w)  BY <1>2, <1>8, <2>2, <2>3, <2>5
  <2> QED  BY <1>6, <2>6
<1>15. CASE Cancel(o)
  <2> DEFINE b == [a EXCEPT !.stopped = TRUE]
  <2>1. b \in OpenType /\ b.at = a.at /\ b.entry = n /\ b.stopped  BY <1>2
  <2>2. /\ opening' = [opening EXCEPT ![o] = b] /\ view' = view /\ o \notin published
        /\ ~(a.at \in {"idle", "gone", "crashed"})
    BY <1>15 DEF Cancel
  <2> HIDE DEF b
  <2>3. Goes(b, v)  BY <1>1, <1>2, <1>7, <2>1, <2>2 DEF Materialised
  <2> QED  BY <1>6, <2>3
<1> QED  BY <1>9, <1>10, <1>11, <1>12, <1>13, <1>14, <1>15


(* A view is handed on, or goes with its open, its session or its player.  *)
LEMMA EndSteps ==
  ASSUME CacheInv, NEW o \in Opens,
         Hand(o) \/ Abandon(o) \/ EndSession(o) \/ PlayerCrash(o)
  PROVE  CacheInv'
<1> DEFINE a == opening[o]
           v == view[o]
           OpenType == [at : {"idle", "open", "acquire", "verify", "fetch", "publish", "done",
                              "gone", "crashed"}, entry : Nat, stopped : BOOLEAN]
           ViewType == [there : BOOLEAN, leased : BOOLEAN, links : SUBSET Object]
<1>1. /\ IsStore(store) /\ OpeningsOK /\ ViewsOK /\ published \subseteq Opens
      /\ Materialised(o) /\ \A q \in Opens \ {o} : Materialised(q)
  BY DEF CacheInv
<1>2. a \in OpenType /\ v \in ViewType /\ (v.leased => v.there)
  BY <1>1 DEF OpeningsOK, ViewsOK
<1>3. store' = store  BY DEF Hand, Abandon, EndSession, PlayerCrash
<1>4. ASSUME Hand(o)
      PROVE  CacheInv'
  <2>1. /\ published' = published \cup {o} /\ opening' = opening /\ view' = view
        /\ a.at = "done" /\ ~a.stopped
    BY <1>4 DEF Hand, OpenAt
  <2>2. OpeningsOK' /\ ViewsOK' /\ published' \subseteq Opens
    BY <1>1, <2>1 DEF OpeningsOK, ViewsOK
  <2>3. Materialised(o)'  BY <1>1, <2>1 DEF Materialised
  <2>4. ASSUME NEW q \in Opens \ {o} PROVE Materialised(q)'
    BY <2>1, OtherOpens
  <2> QED  BY <1>1, <1>3, <2>2, <2>3, <2>4 DEF CacheInv
<1>5. ASSUME NEW b \in OpenType, NEW w \in ViewType, w.leased => w.there,
             opening' = [opening EXCEPT ![o] = b], view' = [view EXCEPT ![o] = w],
             published' = published,
             \/ b.at = "gone" /\ w = NoView
             \/ b.at = "crashed" /\ ~w.leased
      PROVE  CacheInv'
  <2>1. /\ OpeningsOK' /\ ViewsOK' /\ opening'[o] = b /\ view'[o] = w
        /\ \A q \in Opens \ {o} :
             opening'[q] = opening[q] /\ (view'[q] = view[q] \/ view'[q] = Pruned(view)[q])
    BY <1>1, <1>5, OwnOpen
  <2>2. Materialised(o)'  BY <1>5, <2>1 DEF Materialised
  <2>3. ASSUME NEW q \in Opens \ {o} PROVE Materialised(q)'
    BY <1>5, <2>1, OtherOpens
  <2> QED  BY <1>1, <1>3, <1>5, <2>1, <2>2, <2>3 DEF CacheInv
<1>6. CASE Abandon(o) \/ EndSession(o)
  <2> DEFINE b == [a EXCEPT !.at = "gone"]
  <2>1. b \in OpenType /\ b.at = "gone"  BY <1>2
  <2>2. /\ opening' = [opening EXCEPT ![o] = b] /\ view' = [view EXCEPT ![o] = NoView]
        /\ published' = published
    BY <1>6 DEF Abandon, EndSession, OpenGoes
  <2>3. NoView \in ViewType /\ ~NoView.leased  BY DEF NoView
  <2> HIDE DEF b
  <2> QED  BY <1>5, <2>1, <2>2, <2>3
<1>7. CASE PlayerCrash(o)
  <2> DEFINE b == [a EXCEPT !.at = "crashed"]
             w == [v EXCEPT !.leased = FALSE]
  <2>1. b \in OpenType /\ b.at = "crashed"  BY <1>2
  <2>2. w \in ViewType /\ ~w.leased  BY <1>2
  <2>3. /\ opening' = [opening EXCEPT ![o] = b] /\ view' = [view EXCEPT ![o] = w]
        /\ published' = published
    BY <1>7 DEF PlayerCrash, OpenGoes
  <2> HIDE DEF b, w
  <2> QED  BY <1>5, <2>1, <2>2, <2>3
<1> QED  BY <1>4, <1>6, <1>7

(* The invariant of every run of the cache.                                *)
THEOREM CacheInvariant == CacheSpec => []CacheInv
<1>1. CacheInit => CacheInv  BY CacheBegins
<1>2. CacheInv /\ [CacheNext]_cacheVars => CacheInv'
  <2> SUFFICES ASSUME CacheInv, [CacheNext]_cacheVars PROVE CacheInv'
    OBVIOUS
  <2>1. CASE UNCHANGED cacheVars
    BY <2>1 DEF cacheVars, CacheInv, OpeningsOK, ViewsOK, Materialised
  <2>2. CASE CacheNext
    <3>1. PICK o \in Opens :
            Step(o) \/ Begin(o) \/ Cancel(o) \/ EndSession(o) \/ PlayerCrash(o)
      BY <2>2 DEF CacheNext
    <3>2. \/ Begin(o) \/ OpenView(o) \/ Acquire(o) \/ Verify(o) \/ Fetch(o) \/ PublishObject(o)
          \/ Cancel(o)
          \/ Hand(o) \/ Abandon(o) \/ EndSession(o) \/ PlayerCrash(o)
      BY <3>1 DEF Step
    <3> QED  BY <3>2, OpenSteps, EndSteps
  <2> QED  BY <2>1, <2>2
<1> QED  BY <1>1, <1>2, PTL DEF CacheSpec

(* The cache's variables keep their types, and the store holds no object   *)
(* under two names.                                                        *)
THEOREM CacheTyped == CacheSpec => []CacheTypeOK
<1>1. CacheInv => CacheTypeOK
  BY DEF CacheInv, IsStore, OpeningsOK, ViewsOK, CacheTypeOK
<1> QED  BY <1>1, CacheInvariant, PTL

(* A player that was handed its view keeps a good copy of every object of  *)
(* its manifest, whatever other players do (attachments.py).               *)
THEOREM LeasedViews == CacheSpec => []LeasedStays
<1>1. ASSUME CacheInv, NEW o \in Opens
      PROVE  /\ o \in published /\ OpenAt(o, "done") =>
                  view[o].links = {Link(d, TRUE) : d \in Protected(o)}
             /\ OpenAt(o, "gone") => view[o] = NoView
             /\ OpenAt(o, "crashed") => ~view[o].leased
  <2>1. Materialised(o)  BY <1>1 DEF CacheInv
  <2>2. CASE o \in published /\ OpenAt(o, "done")
    <3>1. view[o].links = Linked(o, Len(Wanted[o]) + 1)
      BY <2>1, <2>2 DEF Materialised, OpenAt
    <3>2. Wanted[o] \in Seq(Digest)  BY CacheAssumption
    <3>3. DOMAIN Wanted[o] = 1..(Len(Wanted[o]) + 1) - 1  BY <3>2
    <3>4. Linked(o, Len(Wanted[o]) + 1) = {Link(d, TRUE) : d \in Protected(o)}
      BY <3>3 DEF Linked, Protected
    <3> QED  BY <2>1, <2>2, <3>1, <3>4 DEF Materialised, OpenAt
  <2>3. CASE ~(o \in published /\ OpenAt(o, "done"))
    BY <2>1, <2>3 DEF Materialised, OpenAt
  <2> QED  BY <2>2, <2>3
<1>2. CacheInv => LeasedStays  BY <1>1 DEF LeasedStays
<1> QED  BY <1>2, CacheInvariant, PTL

-----------------------------------------------------------------------------
(* The files a client opens (SourceOpening).                               *)

Begun(o) == open_call[o] # "idle"

(* One call is under way at a time, and every open source has one owner:   *)
(* the worker until it hands it over, the result until it is taken or      *)
(* abandoned, the client until the call fails or the client closes, and    *)
(* then a close that runs. Nothing else is open.                           *)
Owned(o) ==
  LET worker == opener[o] \in {"inspects", "hands", "closes"}
      client == track = o
  IN /\ source[o] # "twice"
     /\ worker => source[o] = "open"
     /\ o \in result => source[o] = "open" /\ opener[o] = "ended" /\ open_call[o] = "awaits"
     /\ client => /\ source[o] = "open" /\ opener[o] = "ended"
                  /\ open_call[o] \in {"requests", "serves"}
     /\ closes[o] > 0 => closes[o] = 1 /\ source[o] = "open" /\ opener[o] = "ended"
     /\ ~(client /\ closes[o] > 0) /\ ~(o \in result /\ closes[o] > 0)
     /\ source[o] = "open" => worker \/ o \in result \/ client \/ closes[o] = 1
     /\ opener[o] \in {"idle", "opens"} => source[o] = "none"
     /\ o \in abandoned => open_call[o] = "ended"
     /\ opener[o] \in {"opens", "inspects", "hands"} /\ o \notin abandoned =>
          open_call[o] = "awaits"
     /\ open_call[o] = "idle" => opener[o] = "idle"

InTurn == \A o, p \in Call : p < o /\ Begun(o) => open_call[p] = "ended"

SourceInv == OpeningTypeOK /\ InTurn /\ \A o \in Call : Owned(o)

(* What a step does not touch keeps its owner.                             *)
LEMMA OtherSource ==
  ASSUME NEW q \in Call, Owned(q),
         opener'[q] = opener[q], source'[q] = source[q], open_call'[q] = open_call[q],
         closes'[q] = closes[q], q \in result' <=> q \in result,
         q \in abandoned' <=> q \in abandoned, track' = q <=> track = q
  PROVE  Owned(q)'
BY DEF Owned

(* The worker and the closes on the executor.                              *)
LEMMA OpenerSteps ==
  ASSUME SourceInv, NEW o \in Call, OpenerStep(o)
  PROVE  SourceInv'
<1>1. OpeningTypeOK /\ InTurn /\ Owned(o)  BY DEF SourceInv
<1>2. open_call' = open_call /\ abandoned' = abandoned /\ track' = track
  BY DEF OpenerStep, OpenFile, InspectFile, HandOver, CloseOwn, RunClose
<1>3. InTurn'  BY <1>1, <1>2 DEF InTurn, Begun
<1>4. ASSUME OpenFile(o) \/ InspectFile(o) \/ CloseOwn(o)
      PROVE  SourceInv'
  <2>1. /\ OpeningTypeOK' /\ Owned(o)'
        /\ \A q \in Call \ {o} : opener'[q] = opener[q] /\ source'[q] = source[q]
    BY <1>1, <1>2, <1>4
    DEF OpenFile, InspectFile, CloseOwn, Works, CloseSource, OpeningTypeOK, Owned
  <2>2. result' = result /\ closes' = closes  BY <1>4 DEF OpenFile, InspectFile, CloseOwn
  <2>3. \A q \in Call \ {o} : Owned(q)'  BY <1>2, <2>1, <2>2, OtherSource DEF SourceInv
  <2> QED  BY <1>3, <2>1, <2>3 DEF SourceInv
<1>5. ASSUME HandOver(o)
      PROVE  SourceInv'
  <2>1. /\ OpeningTypeOK' /\ Owned(o)'
        /\ \A q \in Call \ {o} : opener'[q] = opener[q] /\ (q \in result' <=> q \in result)
    BY <1>1, <1>2, <1>5 DEF HandOver, Works, OpeningTypeOK, Owned
  <2>2. source' = source /\ closes' = closes  BY <1>5 DEF HandOver
  <2>3. \A q \in Call \ {o} : Owned(q)'  BY <1>2, <2>1, <2>2, OtherSource DEF SourceInv
  <2> QED  BY <1>3, <2>1, <2>3 DEF SourceInv
<1>6. ASSUME RunClose(o)
      PROVE  SourceInv'
  <2>1. /\ OpeningTypeOK' /\ Owned(o)'
        /\ \A q \in Call \ {o} : closes'[q] = closes[q] /\ source'[q] = source[q]
    BY <1>1, <1>2, <1>6 DEF RunClose, CloseSource, OpeningTypeOK, Owned
  <2>2. opener' = opener /\ result' = result  BY <1>6 DEF RunClose
  <2>3. \A q \in Call \ {o} : Owned(q)'  BY <1>2, <2>1, <2>2, OtherSource DEF SourceInv
  <2> QED  BY <1>3, <2>1, <2>3 DEF SourceInv
<1> QED  BY <1>4, <1>5, <1>6 DEF OpenerStep

(* The source of the track has no close at work when it is taken.          *)
LEMMA TrackTaken ==
  ASSUME OpeningTypeOK, \A q \in Call : Owned(q), track # NoSource, TakeTrack
  PROVE  /\ track \in Call /\ closes[track] = 0 /\ \A q \in Call : q # NoSource
         /\ closes' \in [Call -> 0..2] /\ closes'[track] = 1 /\ track' \in Call \cup {NoSource}
         /\ \A q \in Call \ {track} : closes'[q] = closes[q]
<1>1. track \in Call /\ closes \in [Call -> 0..2]  BY DEF OpeningTypeOK
<1>2. closes[track] = 0  BY <1>1 DEF Owned
<1>3. closes' = [closes EXCEPT ![track] = 1] /\ track' = NoSource
  BY <1>1, <1>2 DEF TakeTrack, CloseOnExecutor
<1>4. \A q \in Call : q # NoSource  BY DEF Call, NoSource
<1> QED  BY <1>1, <1>2, <1>3, <1>4

(* open_session begins, goes on, fails, and is cancelled or closed.        *)
LEMMA CallerSteps ==
  ASSUME SourceInv, NEW o \in Call, BeginOpening(o) \/ CallerStep(o)
  PROVE  SourceInv'
<1>1. /\ OpeningTypeOK /\ InTurn /\ Owned(o)
      /\ \A q \in Call : Owned(q)
  BY DEF SourceInv
<1>2. source' = source
  BY DEF BeginOpening, CallerStep, CancelOpening, OpeningFailed, ClosedWhileOpening, TakeSource,
         SessionOpened, OpenRefused
<1>3. ASSUME BeginOpening(o)
      PROVE  SourceInv'
  <2>1. /\ OpeningTypeOK' /\ Owned(o)'
        /\ \A q \in Call \ {o} : opener'[q] = opener[q] /\ open_call'[q] = open_call[q]
    BY <1>1, <1>3 DEF BeginOpening, Works, Calls, OpeningTypeOK, Owned
  <2>2. result' = result /\ closes' = closes /\ abandoned' = abandoned /\ track' = track
    BY <1>3 DEF BeginOpening
  <2>3. \A q \in Call \ {o} : Owned(q)'  BY <1>1, <1>2, <2>1, <2>2, OtherSource
  <2>4. InTurn'
    BY <1>1, <1>3 DEF BeginOpening, Calls, InTurn, Begun, OpeningTypeOK, Call
  <2> QED  BY <2>1, <2>3, <2>4 DEF SourceInv
<1>4. ASSUME CallerStep(o)
      PROVE  /\ opener' = opener /\ InTurn'
             /\ \A q \in Call \ {o} : open_call'[q] = open_call[q]
  <2>1. opener' = opener
    BY <1>4 DEF CallerStep, CancelOpening, OpeningFailed, ClosedWhileOpening, TakeSource,
                SessionOpened, OpenRefused
  <2>2. PICK from \in {"awaits", "requests"}, to \in {"ended", "requests", "serves"} :
          Calls(o, from, to)
    BY <1>4 DEF CallerStep, CancelOpening, OpeningFailed, ClosedWhileOpening, TakeSource,
                SessionOpened, OpenRefused
  <2> QED  BY <1>1, <2>1, <2>2 DEF Calls, InTurn, Begun, OpeningTypeOK
<1>5. ASSUME CancelOpening(o) \/ OpeningFailed(o) \/ ClosedWhileOpening(o)
      PROVE  SourceInv'
  <2>1. /\ OpeningTypeOK' /\ Owned(o)'
        /\ \A q \in Call \ {o} : /\ closes'[q] = closes[q]
                                 /\ q \in result' <=> q \in result
                                 /\ q \in abandoned' <=> q \in abandoned
    <3>1. CASE CancelOpening(o) \/ ClosedWhileOpening(o)
      <4>1. Calls(o, "awaits", "ended") /\ AbandonSource(o) /\ UNCHANGED <<opener, track, source, client_state>>
        BY <3>1 DEF CancelOpening, ClosedWhileOpening
      <4>2. CASE o \in result
        BY <1>1, <4>1, <4>2 DEF Calls, AbandonSource, CloseOnExecutor, OpeningTypeOK, Owned
      <4>3. CASE o \notin result
        BY <1>1, <4>1, <4>3 DEF Calls, AbandonSource, OpeningTypeOK, Owned
      <4> QED  BY <4>2, <4>3
    <3>2. CASE OpeningFailed(o)
      BY <1>1, <3>2 DEF OpeningFailed, Calls, OpeningTypeOK, Owned
    <3> QED  BY <1>5, <3>1, <3>2
  <2>2. track' = track  BY <1>5 DEF CancelOpening, OpeningFailed, ClosedWhileOpening
  <2>3. CallerStep(o)  BY <1>5 DEF CallerStep
  <2>4. \A q \in Call \ {o} : Owned(q)'
    BY <1>1, <1>2, <1>4, <2>1, <2>2, <2>3, OtherSource
  <2> QED  BY <1>4, <2>1, <2>3, <2>4 DEF SourceInv
<1>6. ASSUME TakeSource(o)
      PROVE  SourceInv'
  <2>1. track = NoSource
    <3>1. ASSUME NEW p \in Call, track = p PROVE FALSE
      <4>1. open_call[p] \in {"requests", "serves"} /\ open_call[o] = "awaits"
        BY <1>1, <1>6, <3>1 DEF TakeSource, Calls, Owned
      <4>2. p < o \/ o < p  BY <4>1 DEF Call
      <4> QED  BY <1>1, <4>1, <4>2 DEF InTurn, Begun
    <3> QED  BY <1>1, <3>1 DEF OpeningTypeOK
  <2>2. /\ OpeningTypeOK' /\ Owned(o)'
        /\ \A q \in Call \ {o} : q \in result' <=> q \in result
    BY <1>1, <1>6, <2>1 DEF TakeSource, Calls, OpeningTypeOK, Owned
  <2>3. /\ closes' = closes /\ abandoned' = abandoned
        /\ \A q \in Call \ {o} : track' # q /\ track # q
    BY <1>6, <2>1 DEF TakeSource, NoSource, Call
  <2>4. CallerStep(o)  BY <1>6 DEF CallerStep
  <2>5. \A q \in Call \ {o} : Owned(q)'
    BY <1>1, <1>2, <1>4, <2>2, <2>3, <2>4, OtherSource
  <2> QED  BY <1>4, <2>2, <2>4, <2>5 DEF SourceInv
<1>7. ASSUME SessionOpened(o)
      PROVE  SourceInv'
  <2>1. OpeningTypeOK' /\ Owned(o)'
    BY <1>1, <1>7 DEF SessionOpened, Calls, OpeningTypeOK, Owned
  <2>2. result' = result /\ closes' = closes /\ abandoned' = abandoned /\ track' = track
    BY <1>7 DEF SessionOpened
  <2>3. CallerStep(o)  BY <1>7 DEF CallerStep
  <2>4. \A q \in Call \ {o} : Owned(q)'
    BY <1>1, <1>2, <1>4, <2>2, <2>3, OtherSource
  <2> QED  BY <1>4, <2>1, <2>3, <2>4 DEF SourceInv
<1>8. ASSUME OpenRefused(o)
      PROVE  SourceInv'
  <2>1. /\ Calls(o, "requests", "ended") /\ TakeTrack
        /\ UNCHANGED <<opener, abandoned, result, source, client_state>>
    BY <1>8 DEF OpenRefused
  <2>2. OpeningTypeOK' /\ \A q \in Call : Owned(q)'
    <3>1. CASE track = NoSource
      BY <1>1, <2>1, <3>1 DEF Calls, TakeTrack, OpeningTypeOK, Owned, NoSource, Call
    <3>2. CASE track # NoSource
      <4>1. /\ OpeningTypeOK' /\ closes'[track] = 1
            /\ \A q \in Call \ {track} : Owned(q) /\ closes'[q] = closes[q]
        BY <1>1, <2>1, <3>2, TrackTaken DEF Calls, OpeningTypeOK
      <4>2. \A q \in Call \ {o} : open_call'[q] = open_call[q]  BY <2>1 DEF Calls
      <4>3. open_call[o] = "requests" /\ open_call'[o] = "ended"
        BY <1>1, <2>1 DEF Calls, OpeningTypeOK
      <4>4. track \in Call /\ Owned(track) /\ closes[track] = 0 /\ track' = NoSource
            /\ \A q \in Call : q # NoSource
        BY <1>1, <2>1, <3>2, TrackTaken DEF TakeTrack
      <4>5. ASSUME NEW q \in Call \ {o} PROVE Owned(q)'
        BY <2>1, <4>1, <4>2, <4>4, <4>5 DEF Owned
      <4>6. Owned(o)'
        BY <1>1, <2>1, <4>1, <4>3, <4>4 DEF Owned
      <4> QED  BY <4>1, <4>5, <4>6
    <3> QED  BY <3>1, <3>2
  <2>3. CallerStep(o)  BY <1>8 DEF CallerStep
  <2> QED  BY <1>4, <2>2, <2>3 DEF SourceInv
<1> QED  BY <1>3, <1>5, <1>6, <1>7, <1>8 DEF CallerStep

(* The client closes.                                                      *)
LEMMA ClosingSteps ==
  ASSUME SourceInv, BeginClientClose \/ CloseTakesTrack
  PROVE  SourceInv'
<1>1. OpeningTypeOK /\ InTurn /\ \A q \in Call : Owned(q)  BY DEF SourceInv
<1>2. InTurn'  BY <1>1 DEF BeginClientClose, CloseTakesTrack, InTurn, Begun
<1>3. CASE BeginClientClose
  BY <1>1, <1>2, <1>3 DEF BeginClientClose, SourceInv, OpeningTypeOK, Owned
<1>4. CASE CloseTakesTrack
  <2>1. CASE track = NoSource
    BY <1>1, <1>2, <1>4, <2>1
    DEF CloseTakesTrack, TakeTrack, SourceInv, OpeningTypeOK, Owned, NoSource, Call
  <2>2. CASE track # NoSource
    <3>1. TakeTrack /\ UNCHANGED <<opener, abandoned, result, open_call, source>>
          /\ client_state' = "taken"
      BY <1>4 DEF CloseTakesTrack
    <3>2. /\ OpeningTypeOK' /\ closes'[track] = 1
          /\ \A q \in Call \ {track} : Owned(q) /\ closes'[q] = closes[q]
      BY <1>1, <2>2, <3>1, TrackTaken DEF OpeningTypeOK
    <3>3. track \in Call /\ Owned(track) /\ closes[track] = 0 /\ track' = NoSource
          /\ \A q \in Call : q # NoSource
      BY <1>1, <2>2, <3>1, TrackTaken DEF TakeTrack
    <3>4. \A q \in Call : Owned(q)'  BY <3>1, <3>2, <3>3 DEF Owned
    <3> QED  BY <1>2, <3>2, <3>4 DEF SourceInv
  <2> QED  BY <2>1, <2>2
<1> QED  BY <1>3, <1>4

OpeningSpec == OpeningInit /\ [][OpeningNext]_openingVars

(* The invariant of every run of the opens of a client.                    *)
THEOREM SourceInvariant == OpeningSpec => []SourceInv
<1>1. OpeningInit => SourceInv
  BY DEF OpeningInit, SourceInv, OpeningTypeOK, InTurn, Begun, Owned, NoSource, Call
<1>2. ASSUME SourceInv, [OpeningNext]_openingVars PROVE SourceInv'
  <2>1. CASE UNCHANGED openingVars
    BY <1>2, <2>1 DEF openingVars, SourceInv, OpeningTypeOK, InTurn, Begun, Owned
  <2>2. CASE OpeningNext
    BY <1>2, <2>2, OpenerSteps, CallerSteps, ClosingSteps DEF OpeningNext
  <2> QED  BY <1>2, <2>1, <2>2
<1> QED  BY <1>1, <1>2, PTL DEF OpeningSpec

(* An open file has one owner that will close it, nothing is closed twice  *)
(* and nothing is left to nobody (client.py, _SourceOpening).              *)
THEOREM OneOwnerOfSource == OpeningSpec => []SourceOwned
<1> DEFINE Owner(o) == {x \in {"worker", "result", "client"} :
                          \/ x = "worker" /\ opener[o] \in {"inspects", "hands", "closes"}
                          \/ x = "result" /\ o \in result /\ open_call[o] = "awaits"
                          \/ x = "client" /\ track = o}
<1>1. ASSUME SourceInv, NEW o \in Call
      PROVE  Cardinality(Owner(o)) + closes[o] = IF source[o] = "open" THEN 1 ELSE 0
  <2>1. Owned(o) /\ closes[o] \in 0..2  BY <1>1 DEF SourceInv, OpeningTypeOK
  <2>2. \A x : Cardinality({x}) = 1  BY FS_Singleton
  <2>3. Cardinality({}) = 0  BY FS_EmptySet
  <2>4. CASE source[o] # "open"
    <3>1. Owner(o) = {} /\ closes[o] = 0  BY <2>1, <2>4 DEF Owned
    <3> QED  BY <2>3, <2>4, <3>1
  <2>5. CASE source[o] = "open" /\ closes[o] > 0
    <3>1. Owner(o) = {} /\ closes[o] = 1  BY <2>1, <2>5 DEF Owned
    <3> QED  BY <2>3, <2>5, <3>1
  <2>6. CASE source[o] = "open" /\ ~(closes[o] > 0)
    <3>1. closes[o] = 0  BY <2>1, <2>6
    <3>2. Owner(o) = {"worker"} \/ Owner(o) = {"result"} \/ Owner(o) = {"client"}
      BY <2>1, <2>6, <3>1 DEF Owned
    <3> HIDE DEF Owner
    <3>3. Cardinality(Owner(o)) = 1  BY <2>2, <3>2
    <3> QED  BY <2>6, <3>1, <3>3
  <2> QED  BY <2>4, <2>5, <2>6
<1>2. SourceInv => SourceOwned  BY <1>1 DEF SourceOwned
<1> QED  BY <1>2, SourceInvariant, PTL

-----------------------------------------------------------------------------
(* What keeps the desktop awake (IdleInhibit).                             *)

(* A bus that is up is listed, what is listed and held belongs to the      *)
(* video that plays, and only its tasks can still ask.                     *)
Inhibited(r) ==
  /\ request[r].bus = "up" => r \in buses
  /\ r \in buses => awake /\ r[1] = turn
  /\ r \in lock_fds => awake /\ r[1] = turn
  /\ request[r].at = "new" /\ ~request[r].stopped => awake /\ r[1] = turn

IdleInv == IdleTypeOK /\ \A r \in Requests : Inhibited(r)

IdleSpec == IdleInit /\ [][IdleNext]_idleVars

(* The invariant of every run of the inhibitors.                           *)
THEOREM IdleInvariant == IdleSpec => []IdleInv
<1> DEFINE RequestType == [at : {"none", "new", "asking", "holding", "ended"}, stopped : BOOLEAN,
                           bus : {"none", "up", "down"}, reply : {"none", "sent", "read"}]
<1>1. IdleInit => IdleInv
  <2>1. 0 \in 0..MaxActivations  BY IdleAssumption
  <2>2. NoRequest \in RequestType /\ NoRequest.bus = "none" /\ NoRequest.at = "none"
    BY DEF NoRequest
  <2> SUFFICES ASSUME IdleInit PROVE IdleInv
    OBVIOUS
  <2>3. /\ request \in [Requests -> RequestType] /\ buses = {} /\ lock_fds = {}
        /\ \A r \in Requests : request[r] = NoRequest
        /\ turn = 0 /\ awake = FALSE
    BY <2>2 DEF IdleInit
  <2> QED  BY <2>1, <2>2, <2>3 DEF IdleInv, IdleTypeOK, Inhibited
<1>2. ASSUME IdleInv, NEW r \in Requests,
             AskService(r) \/ Grant(r) \/ AdoptLock(r) \/ RequestReturns(r) \/ HoldEnds(r)
               \/ BusLost(r)
      PROVE  IdleInv'
  <2>1. IdleTypeOK /\ Inhibited(r) /\ request[r] \in RequestType /\ awake' = awake /\ turn' = turn
    BY <1>2 DEF IdleInv, IdleTypeOK, AskService, Grant, AdoptLock, ReplyRead, RequestReturns,
                HoldEnds, BusLost
  <2> DEFINE Becomes(b) ==
        /\ b \in RequestType /\ request' = [request EXCEPT ![r] = b]
        /\ b.bus = "up" => r \in buses'
        /\ b.at = "new" => b.stopped = request[r].stopped /\ request[r].at = "new"
        /\ buses' \in {buses, buses \cup {r}, buses \ {r}}
        /\ lock_fds' \in {lock_fds, lock_fds \cup {r}}
        /\ r \in buses' \/ r \in lock_fds' => awake /\ r[1] = turn
  <2>2. ASSUME NEW b, Becomes(b)
        PROVE  IdleInv'
    <3>1. IdleTypeOK' /\ request'[r] = b /\ \A q \in Requests \ {r} : request'[q] = request[q]
      BY <2>1, <2>2 DEF IdleTypeOK
    <3>2. Inhibited(r)'  BY <2>1, <2>2, <3>1 DEF Inhibited
    <3>3. \A q \in Requests \ {r} : Inhibited(q)'
      BY <1>2, <2>1, <2>2, <3>1 DEF IdleInv, Inhibited
    <3> QED  BY <3>1, <3>2, <3>3 DEF IdleInv
  <2> DEFINE ended == [request[r] EXCEPT !.at = "ended",
                         !.bus = IF request[r].bus = "none" THEN "none" ELSE "down"]
  <2>3. /\ ended \in RequestType /\ ended.at = "ended" /\ ended.bus # "up"
        /\ RequestEnds(r) => request' = [request EXCEPT ![r] = ended]
    <3> DEFINE bus == IF request[r].bus = "none" THEN "none" ELSE "down"
    <3>1. bus \in {"none", "down"}  OBVIOUS
    <3>2. ended = [request[r] EXCEPT !.at = "ended", !.bus = bus]  OBVIOUS
    <3>3. RequestEnds(r) => request' = [request EXCEPT ![r] = ended]
      BY DEF RequestEnds
    <3> HIDE DEF bus
    <3> QED  BY <2>1, <3>1, <3>2, <3>3
  <2> HIDE DEF ended
  <2>4. CASE RequestEnds(r) /\ buses' \in {buses, buses \ {r}} /\ lock_fds' = lock_fds
    <3>1. Becomes(ended)  BY <2>1, <2>3, <2>4 DEF Inhibited
    <3> QED  BY <2>2, <3>1
  <2>5. CASE AskService(r) /\ ~request[r].stopped /\ request[r].at = "new"
             /\ request' = [request EXCEPT ![r].at = "asking", ![r].bus = "up"]
             /\ buses' = buses \cup {r} /\ lock_fds' = lock_fds
    <3> DEFINE b == [request[r] EXCEPT !.at = "asking", !.bus = "up"]
    <3>1. b \in RequestType /\ b.at = "asking" /\ request' = [request EXCEPT ![r] = b]
      BY <2>1, <2>5 DEF IdleTypeOK
    <3> HIDE DEF b
    <3>2. Becomes(b)  BY <2>1, <2>5, <3>1 DEF Inhibited
    <3> QED  BY <2>2, <3>2
  <2>6. CASE Grant(r)
    <3> DEFINE b == [request[r] EXCEPT !.reply = "sent"]
    <3>1. /\ b \in RequestType /\ b.at = request[r].at /\ b.stopped = request[r].stopped
          /\ b.bus = request[r].bus /\ request' = [request EXCEPT ![r] = b]
          /\ buses' = buses /\ lock_fds' = lock_fds
      BY <2>1, <2>6 DEF Grant
    <3> HIDE DEF b
    <3>2. Becomes(b)  BY <2>1, <3>1 DEF Inhibited
    <3> QED  BY <2>2, <3>2
  <2>7. CASE AdoptLock(r)
    <3> DEFINE b == [request[r] EXCEPT !.reply = "read"]
    <3>1. /\ b \in RequestType /\ b.at = request[r].at /\ b.stopped = request[r].stopped
          /\ b.bus = request[r].bus /\ request' = [request EXCEPT ![r] = b]
          /\ buses' = buses /\ lock_fds' \in {lock_fds, lock_fds \cup {r}}
          /\ r \in lock_fds' => r \in lock_fds \/ r \in buses
      BY <2>1, <2>7 DEF AdoptLock, ReplyRead
    <3> HIDE DEF b
    <3>2. Becomes(b)  BY <2>1, <3>1 DEF Inhibited
    <3> QED  BY <2>2, <3>2
  <2>8. CASE /\ request' = [request EXCEPT ![r].at = "holding"] /\ buses' = buses /\ lock_fds' = lock_fds
    <3> DEFINE b == [request[r] EXCEPT !.at = "holding"]
    <3>1. /\ b \in RequestType /\ b.at = "holding" /\ b.bus = request[r].bus
          /\ request' = [request EXCEPT ![r] = b]
      BY <2>1, <2>8
    <3> HIDE DEF b
    <3>2. Becomes(b)  BY <2>1, <2>8, <3>1 DEF Inhibited
    <3> QED  BY <2>2, <3>2
  <2>9. CASE BusLost(r)
    <3> DEFINE b == [request[r] EXCEPT !.bus = "down"]
    <3>1. /\ b \in RequestType /\ b.at = request[r].at /\ b.stopped = request[r].stopped
          /\ b.bus = "down" /\ request' = [request EXCEPT ![r] = b]
          /\ buses' = buses /\ lock_fds' = lock_fds
      BY <2>1, <2>9 DEF BusLost
    <3> HIDE DEF b
    <3>2. Becomes(b)  BY <2>1, <3>1 DEF Inhibited
    <3> QED  BY <2>2, <3>2
  <2>10. CASE AskService(r)
    BY <2>4, <2>5, <2>10 DEF AskService, RequestAt
  <2>11. CASE RequestReturns(r) \/ HoldEnds(r)
    BY <2>4, <2>8, <2>11 DEF RequestReturns, HoldEnds
  <2> QED  BY <1>2, <2>6, <2>7, <2>9, <2>10, <2>11
<1>3. ASSUME IdleInv, Activate
      PROVE  IdleInv'
  <2> DEFINE new == [NoRequest EXCEPT !.at = "new"]
  <2>1. /\ IdleTypeOK /\ ~awake /\ awake' /\ turn' = turn + 1 /\ turn' \in 0..MaxActivations
        /\ buses' = buses /\ lock_fds' = lock_fds
        /\ request' = [r \in Requests |-> IF r[1] = turn + 1 THEN new ELSE request[r]]
    <3>1. turn \in 0..MaxActivations /\ turn < MaxActivations /\ turn' = turn + 1
      BY <1>3 DEF IdleInv, IdleTypeOK, Activate
    <3>2. turn' \in 0..MaxActivations  BY <3>1, IdleAssumption
    <3> QED  BY <1>3, <3>1, <3>2 DEF IdleInv, Activate
  <2>2. \A r \in Requests : request[r] \in RequestType /\ Inhibited(r)
    BY <1>3 DEF IdleInv, IdleTypeOK
  <2>3. new \in RequestType /\ new.bus = "none"  BY DEF NoRequest
  <2> HIDE DEF new
  <2>4. \A r \in Requests : request'[r] \in RequestType /\ Inhibited(r)'
    BY <2>1, <2>2, <2>3 DEF Inhibited
  <2>5. IdleTypeOK'  BY <2>1, <2>3, <2>4 DEF IdleTypeOK, Activate
  <2> QED  BY <2>4, <2>5 DEF IdleInv
<1>4. ASSUME IdleInv, Deactivate
      PROVE  IdleInv'
  <2>1. /\ IdleTypeOK /\ awake' = FALSE /\ turn' = turn /\ buses' = {} /\ lock_fds' = {}
    BY <1>4 DEF IdleInv, Deactivate
  <2>2. ASSUME NEW r \in Requests
        PROVE  request'[r] \in RequestType /\ Inhibited(r)'
    <3>1. request[r] \in RequestType /\ Inhibited(r)  BY <1>4 DEF IdleInv, IdleTypeOK
    <3> DEFINE bus == IF r \in buses THEN "down" ELSE request[r].bus
               stop == request[r].stopped \/ r[1] = turn
    <3>2. request'[r] = [request[r] EXCEPT !.bus = bus, !.stopped = stop]
      BY <1>4 DEF Deactivate
    <3>3. bus \in {"none", "up", "down"} /\ stop \in BOOLEAN  BY <3>1
    <3>4. bus # "up"  BY <3>1 DEF Inhibited
    <3> HIDE DEF bus
    <3>5. /\ request'[r] \in RequestType /\ request'[r].bus = bus
          /\ request'[r].at = request[r].at /\ request'[r].stopped = stop
      BY <3>1, <3>2, <3>3
    <3> QED  BY <2>1, <3>1, <3>4, <3>5 DEF Inhibited
  <2>3. request' \in [Requests -> RequestType]
    <3>1. request' = [r \in Requests |-> request'[r]]  BY <1>4 DEF Deactivate
    <3> QED  BY <2>2, <3>1
  <2>4. IdleTypeOK'  BY <2>1, <2>3 DEF IdleTypeOK
  <2> QED  BY <2>2, <2>4 DEF IdleInv
<1>5. ASSUME IdleInv, UNCHANGED idleVars PROVE IdleInv'
  BY <1>5 DEF IdleInv, IdleTypeOK, Inhibited, idleVars
<1>6. IdleInv /\ [IdleNext]_idleVars => IdleInv'
  BY <1>2, <1>3, <1>4, <1>5 DEF IdleNext
<1> QED  BY <1>1, <1>6, PTL DEF IdleSpec

(* No connection and no descriptor of a request outlives the video it was  *)
(* for (idle_inhibit.py).                                                  *)
THEOREM ScreenGoesOff == IdleSpec => []ScreenReleased
<1>1. IdleInv => ScreenReleased  BY DEF IdleInv, Inhibited, ScreenReleased
<1> QED  BY <1>1, IdleInvariant, PTL

-----------------------------------------------------------------------------
(* The subtitles of a library file (AuxiliaryTrack).                       *)

(* The subtitles that begin within a span of time are in the index.        *)
Known(from, to) == \A i \in Texts : from <= File[i].at /\ File[i].at < to => i \in index

(* What is taken to be covered is.                                         *)
Coverage ==
  /\ Known(0, covered.upto)
  /\ covered.eof => Texts \subseteq index
  /\ \A w \in covered.windows : Known(w[1], w[2])

(* A catch-up holds the lock, and knows what it has read.                  *)
Scanning ==
  scan.by # 0 =>
    /\ scan.by \in DOMAIN iters /\ IterAt(scan.by, "scan") /\ aux_closed # "closed"
    /\ iters[scan.by].target # FromStart
    /\ Known(scan.from, scan.seen)
    /\ \A i \in Texts : i < position /\ scan.from <= File[i].at => i \in index
    /\ scan.from = WindowStart(iters[scan.by].target)
    /\ scan.contiguous => scan.from <= covered.upto

(* The iterator without a target is the first, and has read the file from  *)
(* its beginning.                                                          *)
FirstIter ==
  /\ iters = <<>> => position = 1
  /\ \A g \in DOMAIN iters : iters[g].target = FromStart => g = 1
  /\ \A g \in DOMAIN iters : CurrentIter(g) /\ iters[g].target = FromStart =>
       /\ IterAt(g, "new") => position = 1
       /\ \A i \in Texts : i < position => i \in index

(* What an iterator has passed on, at each of its places, when the next    *)
(* packet is p.                                                            *)
Due(t, i) == DueAt(t, File[i])
Shows(r, p) ==
  LET t == r.target
      out == ToSet(r.out)
  IN /\ r.at # "ended"
     /\ Cardinality(out) = Len(r.out)
     /\ \A i \in out : File[i].to > t \/ File[i].at >= t - Preroll
     /\ r.at \in {"new", "scan"} => r.out = <<>> /\ r.rows = {} /\ r.replayed = {}
     /\ r.at = "replay" =>
          /\ out = r.replayed /\ r.rows \cap r.replayed = {} /\ t # FromStart
          /\ \A i \in r.rows \cup r.replayed : File[i].at < t /\ File[i].to > t
          /\ \A i \in Texts : Due(t, i) /\ File[i].at < t => i \in r.rows \cup r.replayed
          /\ \A i \in DOMAIN File : i < p => File[i].at < t
     /\ r.at \in {"read", "done"} =>
          /\ r.replayed \subseteq out
          /\ \A i \in out : i \in r.replayed \/ i < p
          /\ \A i \in DOMAIN File : i < p /\ Due(t, i) => i \in out
     /\ r.at = "done" => p = EndOfFile

(* The current iterator does, and reads only when no catch-up holds the    *)
(* lock.                                                                   *)
Shown(g) ==
  /\ Shows(iters[g], position)
  /\ IterAt(g, "scan") => scan.by = g
  /\ iters[g].at \in {"replay", "read", "done"} => scan.by = 0

AuxInv ==
  /\ AuxTypeOK /\ Coverage /\ Scanning /\ FirstIter
  /\ \A g \in DOMAIN iters : CurrentIter(g) => Shown(g)

-----------------------------------------------------------------------------
(* The greater of two numbers is one of them.                              *)
LEMMA MaxOfTwo ==
  ASSUME NEW a \in Int, NEW b \in Int
  PROVE  Max({a, b}) \in {a, b} /\ Max({a, b}) >= a /\ Max({a, b}) >= b
<1>1. CASE a >= b
  <2>1. a \in {a, b} /\ \A y \in {a, b} : a >= y  BY <1>1
  <2> QED  BY <2>1 DEF Max
<1>2. CASE b >= a
  <2>1. b \in {a, b} /\ \A y \in {a, b} : b >= y  BY <1>2
  <2> QED  BY <2>1 DEF Max
<1> QED  BY <1>1, <1>2

(* The packets of the file are in the order of their times.                *)
LEMMA FileIs ==
  /\ DOMAIN File = 1..Len(File) /\ Len(File) \in Nat /\ EndOfFile = Len(File) + 1
  /\ Infinity \in Nat /\ Lookback \in Nat /\ Preroll \in Nat /\ MaxIters \in Nat
  /\ \A i \in DOMAIN File :
       /\ File[i].at \in Nat /\ File[i].at < Infinity /\ File[i].to \in Nat
       /\ File[i].kind \in {"key", "video", "audio", "text"}
  /\ \A i, j \in DOMAIN File : i < j =>
       File[i].at <= File[j].at /\ (File[j].kind = "key" => File[i].at < File[j].at)
<1>1. \A i \in DOMAIN File :
        File[i] \in [kind : {"key", "video", "audio", "text"}, at : 0..Infinity - 1, to : Nat]
  <2> DEFINE P == [kind : {"key", "video", "audio", "text"}, at : 0..Infinity - 1, to : Nat]
  <2>1. File \in Seq(P)  BY AuxAssumption
  <2> HIDE DEF P
  <2>2. \A i \in DOMAIN File : File[i] \in P  BY <2>1
  <2> QED  BY <2>2 DEF P
<1>2. DOMAIN File = 1..Len(File) /\ Len(File) \in Nat /\ EndOfFile = Len(File) + 1
  BY AuxAssumption DEF EndOfFile
<1>3. Infinity \in Nat /\ Lookback \in Nat /\ Preroll \in Nat /\ MaxIters \in Nat
  BY AuxAssumption
<1>4. \A i \in DOMAIN File :
       /\ File[i].at \in Nat /\ File[i].at < Infinity /\ File[i].to \in Nat
       /\ File[i].kind \in {"key", "video", "audio", "text"}
  BY <1>1, <1>3
<1>5. \A i, j \in DOMAIN File : i < j =>
       File[i].at <= File[j].at /\ (File[j].kind = "key" => File[i].at < File[j].at)
  <2>1. \A i, j \in DOMAIN File : i < j =>
          File[i].at < File[j].at \/ (File[i].at = File[j].at /\ File[j].kind # "key")
    BY AuxAssumption
  <2> QED  BY <1>4, <2>1
<1> QED  BY <1>2, <1>3, <1>4, <1>5

(* Targets are times; the window before one begins no later.               *)
LEMMA Targets ==
  ASSUME NEW t \in SeekTargets \cup {FromStart}
  PROVE  /\ t \in Int /\ t >= -1 /\ (t # FromStart => t \in Nat /\ t < Infinity)
         /\ WindowStart(t) \in Nat /\ (t # FromStart => WindowStart(t) <= t)
         /\ (t = FromStart => WindowStart(t) = 0)
<1>1. t \in Int /\ t >= -1 /\ (t # FromStart => t \in Nat /\ t < Infinity)
  BY AuxAssumption DEF FromStart
<1>2. Max({0, t - Lookback}) \in {0, t - Lookback} /\ Max({0, t - Lookback}) >= 0
      /\ Max({0, t - Lookback}) >= t - Lookback
  <2>1. 0 \in Int /\ t - Lookback \in Int  BY <1>1, AuxAssumption
  <2> QED  BY <2>1, MaxOfTwo
<1> QED  BY <1>1, <1>2, AuxAssumption DEF WindowStart, FromStart

(* A seek backward lands behind nothing that begins at the time or later.  *)
LEMMA Seeks ==
  ASSUME NEW t \in Nat, SeekContainer(t)
  PROVE  /\ position' \in 1..EndOfFile
         /\ \A i \in DOMAIN File : i < position' => File[i].at < t
<1>1. position' = 1 \/ position' \in KeysUpTo(t)
  BY DEF SeekContainer
<1>2. CASE position' = 1
  BY <1>2, FileIs
<1>3. CASE position' \in KeysUpTo(t)
  BY <1>3, FileIs DEF KeysUpTo
<1> QED  BY <1>1, <1>2, <1>3

(* What a step of an iterator does to the iterators.                       *)
LEMMA OneIter ==
  ASSUME AuxTypeOK, NEW g \in DOMAIN iters, NEW r \in IterRecord, SetIter(g, r)
  PROVE  /\ iters' \in Seq(IterRecord) /\ Len(iters') = Len(iters)
         /\ DOMAIN iters' = DOMAIN iters /\ iters'[g] = r
         /\ \A h \in DOMAIN iters : h # g => iters'[h] = iters[h]
BY DEF AuxTypeOK, SetIter

(* An iterator's number and fields.                                        *)
LEMMA IterIs ==
  ASSUME AuxTypeOK, NEW g \in DOMAIN iters
  PROVE  /\ g \in 1..MaxIters /\ g \in Nat /\ g <= Len(iters) /\ Len(iters) \in Nat
         /\ iters[g] \in IterRecord
         /\ iters[g].target \in SeekTargets \cup {FromStart}
         /\ iters[g].rows \subseteq Texts /\ iters[g].replayed \subseteq Texts
         /\ iters[g].out \in Seq(DOMAIN File)
<1>1. DOMAIN iters = 1..Len(iters) /\ Len(iters) \in Nat /\ Len(iters) <= MaxIters
  BY DEF AuxTypeOK
<1>2. iters[g] \in IterRecord  BY DEF AuxTypeOK
<1> QED  BY <1>1, <1>2, FileIs DEF IterRecord

(* The records that the steps leave: moved on, ...                         *)
Gone(r, place) == [r EXCEPT !.at = place]

(* A record that has moved on is otherwise unchanged.                      *)
LEMMA GoneHas ==
  ASSUME NEW r \in IterRecord,
         NEW p \in {"new", "scan", "replay", "read", "done", "ended"}
  PROVE  /\ Gone(r, p) \in IterRecord /\ Gone(r, p).at = p /\ Gone(r, p).target = r.target
         /\ Gone(r, p).rows = r.rows /\ Gone(r, p).replayed = r.replayed
         /\ Gone(r, p).out = r.out
BY DEF Gone, IterRecord

(* ... begun to replay, ...                                                *)
Replaying(r) == [r EXCEPT !.at = "replay", !.rows = Overlapping(r.target)]

(* One that begins to replay holds the rows that overlap its target.       *)
LEMMA ReplayingHas ==
  ASSUME AuxTypeOK, NEW r \in IterRecord
  PROVE  /\ Replaying(r) \in IterRecord /\ Replaying(r).at = "replay"
         /\ Replaying(r).target = r.target
         /\ Replaying(r).rows = Overlapping(r.target) /\ Replaying(r).replayed = r.replayed
         /\ Replaying(r).out = r.out
<1>1. Overlapping(r.target) \in SUBSET Texts  BY DEF Overlapping, AuxTypeOK
<1> HIDE DEF Overlapping
<1> QED  BY <1>1 DEF Replaying, IterRecord

(* ... replayed a row, ...                                                 *)
RowOut(r, i) == [r EXCEPT !.rows = r.rows \ {i}, !.replayed = @ \cup {i}, !.out = Append(@, i)]

(* One that replayed a row holds it no longer and has given it out.        *)
LEMMA RowOutHas ==
  ASSUME NEW r \in IterRecord, NEW i \in r.rows
  PROVE  /\ RowOut(r, i) \in IterRecord /\ RowOut(r, i).at = r.at
         /\ RowOut(r, i).target = r.target /\ RowOut(r, i).rows = r.rows \ {i}
         /\ RowOut(r, i).replayed = r.replayed \cup {i} /\ RowOut(r, i).out = Append(r.out, i)
<1>1. i \in Texts /\ i \in DOMAIN File  BY DEF IterRecord, Texts
<1>2. Append(r.out, i) \in Seq(DOMAIN File)  BY <1>1 DEF IterRecord
<1>3. r.rows \ {i} \in SUBSET Texts /\ r.replayed \cup {i} \in SUBSET Texts
  BY <1>1 DEF IterRecord
<1> QED  BY <1>2, <1>3 DEF RowOut, IterRecord

(* ... passed a packet on.                                                 *)
PacketOut(r, i) == [r EXCEPT !.out = Append(@, i)]

(* One that passed a packet on has only given out more.                    *)
LEMMA PacketOutHas ==
  ASSUME NEW r \in IterRecord, NEW i \in DOMAIN File
  PROVE  /\ PacketOut(r, i) \in IterRecord /\ PacketOut(r, i).at = r.at
         /\ PacketOut(r, i).target = r.target /\ PacketOut(r, i).rows = r.rows
         /\ PacketOut(r, i).replayed = r.replayed /\ PacketOut(r, i).out = Append(r.out, i)
<1>1. Append(r.out, i) \in Seq(DOMAIN File)  BY DEF IterRecord
<1> QED  BY <1>1 DEF PacketOut, IterRecord

(* One packet more in a sequence without repetitions.                      *)
LEMMA OneMore ==
  ASSUME NEW s \in Seq(DOMAIN File), NEW i \in DOMAIN File
  PROVE  /\ ToSet(Append(s, i)) = ToSet(s) \cup {i} /\ ToSet(s) \subseteq DOMAIN File
         /\ Cardinality(ToSet(s)) = Len(s) /\ i \notin ToSet(s) =>
              Cardinality(ToSet(Append(s, i))) = Len(Append(s, i))
<1>1. ToSet(s) \subseteq DOMAIN File  BY DEF ToSet
<1>2. ToSet(Append(s, i)) = ToSet(s) \cup {i}
  <2>1. Len(Append(s, i)) = Len(s) + 1 /\ Append(s, i)[Len(s) + 1] = i
        /\ DOMAIN s = 1..Len(s) /\ DOMAIN Append(s, i) = 1..(Len(s) + 1) /\ Len(s) \in Nat
        /\ \A k \in DOMAIN s : Append(s, i)[k] = s[k]
    OBVIOUS
  <2>2. \A k \in 1..(Len(s) + 1) : k \in 1..Len(s) \/ k = Len(s) + 1
    BY <2>1
  <2>3. \A k \in 1..Len(s) : k \in 1..(Len(s) + 1)
    BY <2>1
  <2>4. Len(s) + 1 \in 1..(Len(s) + 1)
    BY <2>1
  <2> QED  BY <2>1, <2>2, <2>3, <2>4 DEF ToSet
<1>3. IsFiniteSet(ToSet(s))
  <2>1. IsFiniteSet(1..Len(File))  BY FileIs, FS_Interval
  <2> QED  BY <1>1, <2>1, FileIs, FS_Subset
<1>4. Len(Append(s, i)) = Len(s) + 1  OBVIOUS
<1> QED  BY <1>1, <1>2, <1>3, <1>4, FS_AddElement

(* What an iterator or a catch-up remembers of a packet.                   *)
LEMMA Remembered ==
  ASSUME AuxTypeOK, NEW i \in DOMAIN File, NEW c \in BOOLEAN, Remember(i, c)
  PROVE  /\ index' = (IF i \in Texts THEN index \cup {i} ELSE index) /\ index' \subseteq Texts
         /\ covered' \in [upto : Nat \cup {Unread}, eof : BOOLEAN, windows : SUBSET (Nat \X Nat)]
         /\ covered'.eof = covered.eof /\ covered'.windows = covered.windows
         /\ covered'.upto \in {covered.upto, File[i].at} /\ covered'.upto >= covered.upto
         /\ ~c => covered'.upto = covered.upto
<1>1. index' = (IF i \in Texts THEN index \cup {i} ELSE index)
  BY DEF Remember, Texts
<1>2. index' \subseteq Texts  BY <1>1 DEF AuxTypeOK
<1>3. covered.upto \in Int /\ File[i].at \in Nat
  BY FileIs DEF AuxTypeOK, Unread
<1>4. CASE c /\ Video(i)
  <2> DEFINE top == Max({covered.upto, File[i].at})
  <2>1. top \in {covered.upto, File[i].at} /\ top >= covered.upto /\ top >= File[i].at
    <3>1. covered.upto \in Int /\ File[i].at \in Int  BY <1>3
    <3> QED  BY <3>1, MaxOfTwo
  <2>2. top \in Nat \cup {Unread}  BY <1>3, <2>1 DEF AuxTypeOK
  <2>3. covered' = [covered EXCEPT !.upto = top]  BY <1>4 DEF Remember
  <2> HIDE DEF top
  <2> QED  BY <1>1, <1>2, <1>4, <2>1, <2>2, <2>3 DEF AuxTypeOK
<1>5. CASE ~(c /\ Video(i))
  <2>1. covered' = covered  BY <1>5 DEF Remember
  <2> QED  BY <1>1, <1>2, <1>3, <2>1 DEF AuxTypeOK
<1> QED  BY <1>4, <1>5

(* ... forgotten.                                                          *)
Cleared(r) == [r EXCEPT !.rows = {}, !.replayed = {}, !.out = <<>>]

(* One that is forgotten keeps its target and its place.                   *)
LEMMA ClearedHas ==
  ASSUME NEW r \in IterRecord
  PROVE  /\ Cleared(r) \in IterRecord /\ Cleared(r).target = r.target /\ Cleared(r).at = r.at
<1>1. <<>> \in Seq(DOMAIN File)  OBVIOUS
<1> QED  BY <1>1 DEF Cleared, IterRecord

(* Superseded iterators have nothing left to show.                         *)
LEMMA Olds ==
  ASSUME AuxTypeOK
  PROVE  /\ OldIters \in Seq(IterRecord) /\ Len(OldIters) = Len(iters)
         /\ DOMAIN OldIters = DOMAIN iters
         /\ \A g \in DOMAIN iters :
              OldIters[g].target = iters[g].target /\ OldIters[g].at = iters[g].at
<1>1. OldIters = [g \in DOMAIN iters |-> Cleared(iters[g])]  BY DEF OldIters, Cleared
<1>2. DOMAIN iters = 1..Len(iters) /\ Len(iters) \in Nat  BY DEF AuxTypeOK
<1>3. \A g \in DOMAIN iters : iters[g] \in IterRecord  BY IterIs
<1>4. \A g \in DOMAIN iters : OldIters[g] = Cleared(iters[g])  BY <1>1
<1>5. DOMAIN OldIters = 1..Len(iters)  BY <1>1, <1>2
<1>6. OldIters \in [1..Len(iters) -> IterRecord]
  BY <1>1, <1>2, <1>3, <1>4, ClearedHas
<1>7. OldIters \in Seq(IterRecord) /\ Len(OldIters) = Len(iters)
  BY <1>2, <1>6
<1> QED  BY <1>2, <1>3, <1>4, <1>5, <1>7, ClearedHas

(* A new iterator is the last, and has shown nothing.                      *)
LEMMA NewOne ==
  ASSUME AuxTypeOK, NewIter
  PROVE  /\ iters' \in Seq(IterRecord) /\ Len(iters') = Len(iters) + 1 /\ Len(iters') <= MaxIters
         /\ DOMAIN iters' = DOMAIN iters \cup {Len(iters) + 1}
         /\ \A g \in DOMAIN iters :
              iters'[g].target = iters[g].target /\ iters'[g].at = iters[g].at
         /\ LET r == iters'[Len(iters) + 1] IN
              /\ r.at = "new" /\ r.rows = {} /\ r.replayed = {} /\ r.out = <<>>
              /\ r.target = FromStart => iters = <<>>
<1>1. PICK t \in SeekTargets \cup {FromStart} :
        /\ iters' = Append(OldIters, [target |-> t, at |-> "new", rows |-> {},
                                      replayed |-> {}, out |-> <<>>])
        /\ iters = <<>> \/ t \in SeekTargets
  BY DEF NewIter
<1> DEFINE n == [target |-> t, at |-> "new", rows |-> {}, replayed |-> {}, out |-> <<>>]
<1>2. n \in IterRecord  BY DEF IterRecord
<1>3. t = FromStart => iters = <<>>  BY <1>1, AuxAssumption DEF FromStart
<1>4. Len(iters) < MaxIters /\ Len(iters) \in Nat /\ MaxIters \in Nat
      /\ DOMAIN iters = 1..Len(iters)
  BY FileIs DEF NewIter, AuxTypeOK
<1>5. n.at = "new" /\ n.rows = {} /\ n.replayed = {} /\ n.out = <<>> /\ n.target = t
  OBVIOUS
<1> HIDE DEF n
<1>6. iters' = Append(OldIters, n)  BY <1>1 DEF n
<1>7. /\ iters' \in Seq(IterRecord) /\ Len(iters') = Len(iters) + 1
      /\ iters'[Len(iters) + 1] = n
      /\ \A g \in DOMAIN iters : iters'[g] = OldIters[g]
  BY <1>2, <1>4, <1>6, Olds
<1>8. DOMAIN iters' = 1..(Len(iters) + 1)  BY <1>7
<1> QED  BY <1>3, <1>4, <1>5, <1>7, <1>8, Olds

-----------------------------------------------------------------------------
(* A step that is no new iterator and no close keeps the types.            *)
LEMMA ReadTypes ==
  ASSUME AuxTypeOK, NEW g \in DOMAIN iters,
         UNCHANGED iters \/ (\E r \in IterRecord : SetIter(g, r)),
         position' \in 1..EndOfFile, UNCHANGED aux_closed, index' \subseteq Texts,
         scan' \in [by : 0..MaxIters, from : Nat, contiguous : BOOLEAN, seen : Nat],
         covered' \in [upto : Nat \cup {Unread}, eof : BOOLEAN, windows : SUBSET (Nat \X Nat)]
  PROVE  AuxTypeOK'
<1>1. iters' \in Seq(IterRecord) /\ Len(iters') = Len(iters)
  BY OneIter DEF AuxTypeOK
<1> QED  BY <1>1 DEF AuxTypeOK

(* What each step of an iterator leaves of it.                             *)
LEMMA IterLeaves ==
  ASSUME AuxTypeOK, NEW g \in DOMAIN iters
  PROVE  /\ \A p \in {"new", "scan", "replay", "read", "done", "ended"} :
              IterGoes(g, p) => SetIter(g, Gone(iters[g], p))
         /\ ReadsFrom(g) => SetIter(g, Replaying(iters[g])) /\ SeekContainer(iters[g].target)
         /\ Replay(g) => \/ iters[g].rows = {} /\ SetIter(g, Gone(iters[g], "read"))
                         \/ \E i \in iters[g].rows : SetIter(g, RowOut(iters[g], i))
         /\ ReadPacket(g) => IF Passed(g, position) THEN SetIter(g, PacketOut(iters[g], position))
                             ELSE UNCHANGED iters
<1>1. \A p \in {"new", "scan", "replay", "read", "done", "ended"} :
        IterGoes(g, p) => SetIter(g, Gone(iters[g], p))
  BY DEF IterGoes, Gone
<1>2. ReadsFrom(g) => SetIter(g, Replaying(iters[g])) /\ SeekContainer(iters[g].target)
  BY DEF ReadsFrom, Replaying
<1>3. Replay(g) => \/ iters[g].rows = {} /\ SetIter(g, Gone(iters[g], "read"))
                   \/ \E i \in iters[g].rows : SetIter(g, RowOut(iters[g], i))
  BY DEF Replay, RowOut, IterGoes, Gone
<1>4. ReadPacket(g) => IF Passed(g, position) THEN SetIter(g, PacketOut(iters[g], position))
                       ELSE UNCHANGED iters
  BY DEF ReadPacket, PacketOut
<1> QED  BY <1>1, <1>2, <1>3, <1>4

(* Where a catch-up starts.                                                *)
LEMMA ScanStarts ==
  ASSUME AuxTypeOK, NEW g \in DOMAIN iters, StartScan(g)
  PROVE  /\ scan' \in [by : 0..MaxIters, from : Nat, contiguous : BOOLEAN, seen : Nat]
         /\ scan'.by = g /\ scan'.from = WindowStart(iters[g].target) /\ SeekContainer(scan'.seen)
         /\ IF scan'.contiguous THEN scan'.seen = covered.upto /\ scan'.from <= covered.upto
            ELSE scan'.seen = scan'.from
<1> DEFINE start == WindowStart(iters[g].target)
           c == covered.upto >= start
           from == IF c THEN Max({0, covered.upto}) ELSE start
<1>1. start \in Nat /\ covered.upto \in Int
  BY IterIs, Targets DEF AuxTypeOK, Unread
<1>2. scan' = [by |-> g, from |-> start, contiguous |-> c, seen |-> from] /\ SeekContainer(from)
  BY Zenon DEF StartScan
<1>3. c => Max({0, covered.upto}) = covered.upto
  <2>1. Max({0, covered.upto}) \in {0, covered.upto} /\ Max({0, covered.upto}) >= 0
        /\ Max({0, covered.upto}) >= covered.upto
    <3>1. 0 \in Int /\ covered.upto \in Int  BY <1>1
    <3> QED  BY <3>1, MaxOfTwo
  <2> QED  BY <1>1, <2>1
<1>4. from \in Nat /\ c \in BOOLEAN  BY <1>1, <1>3
<1>5. g \in 0..MaxIters  BY IterIs
<1>6. IF c THEN from = covered.upto /\ start <= covered.upto ELSE from = start
  BY <1>1, <1>3
<1> HIDE DEF start, c, from
<1>7. scan'.by = g /\ scan'.seen = from /\ scan'.from = start /\ scan'.contiguous = c
  BY <1>2
<1>8. scan' \in [by : 0..MaxIters, from : Nat, contiguous : BOOLEAN, seen : Nat]
  BY <1>1, <1>2, <1>4, <1>5
<1> QED  BY <1>2, <1>6, <1>7, <1>8 DEF start

(* What a catch-up reads: the end of the file, or one packet.              *)
LEMMA ScanReads ==
  ASSUME AuxTypeOK, NEW g, ScanPacket(g)
  PROVE  /\ scan' \in [by : 0..MaxIters, from : Nat, contiguous : BOOLEAN, seen : Nat]
         /\ scan'.by = scan.by /\ scan'.from = scan.from /\ scan'.contiguous = scan.contiguous
         /\ position = EndOfFile =>
              /\ covered' = [covered EXCEPT !.eof = covered.eof \/ scan.contiguous]
              /\ UNCHANGED <<position, index>>
         /\ position # EndOfFile =>
              /\ position \in DOMAIN File /\ position' = position + 1
              /\ \/ Remember(position, scan.contiguous)
                 \/ File[position].kind = "audio" /\ UNCHANGED <<index, covered>>
              /\ scan'.seen \in {scan.seen, File[position].at}
<1>0. /\ scan \in [by : 0..MaxIters, from : Nat, contiguous : BOOLEAN, seen : Nat]
      /\ position # EndOfFile => position \in DOMAIN File /\ File[position].at \in Nat
      /\ Infinity \in Nat
  BY FileIs DEF AuxTypeOK
<1>1. CASE position = EndOfFile
  <2>1. scan' = [scan EXCEPT !.seen = Infinity]  BY <1>1 DEF ScanPacket
  <2>2. /\ covered' = [covered EXCEPT !.eof = covered.eof \/ scan.contiguous]
        /\ UNCHANGED <<position, index>>
    BY <1>1 DEF ScanPacket
  <2> QED  BY <1>0, <1>1, <2>1, <2>2
<1>2. CASE position # EndOfFile
  <2> DEFINE s == IF Video(position) THEN Max({scan.seen, File[position].at}) ELSE scan.seen
  <2>1. scan' = [scan EXCEPT !.seen = s]  BY <1>2 DEF ScanPacket
  <2>2. s \in {scan.seen, File[position].at}
    <3>1. scan.seen \in Int /\ File[position].at \in Int  BY <1>0, <1>2
    <3> QED  BY <3>1, MaxOfTwo
  <2>3. s \in Nat  BY <1>0, <1>2, <2>2
  <2> HIDE DEF s
  <2>4. /\ position' = position + 1
        /\ \/ Remember(position, scan.contiguous)
           \/ File[position].kind = "audio" /\ UNCHANGED <<index, covered>>
    BY <1>2 DEF ScanPacket
  <2> QED  BY <1>0, <1>2, <2>1, <2>2, <2>3, <2>4
<1> QED  BY <1>1, <1>2

(* Every variable keeps its type.                                          *)
LEMMA AuxTypes ==
  ASSUME AuxTypeOK, Scanning, AuxNext
  PROVE  AuxTypeOK'
<1>0. /\ scan \in [by : 0..MaxIters, from : Nat, contiguous : BOOLEAN, seen : Nat]
      /\ covered \in [upto : Nat \cup {Unread}, eof : BOOLEAN, windows : SUBSET (Nat \X Nat)]
      /\ position \in 1..EndOfFile /\ index \subseteq Texts
      /\ position # EndOfFile => position \in DOMAIN File /\ position + 1 \in 1..EndOfFile
  BY FileIs DEF AuxTypeOK
<1>n. NoScan \in [by : 0..MaxIters, from : Nat, contiguous : BOOLEAN, seen : Nat]
  BY FileIs DEF NoScan
<1>1. CASE NewIter
  BY <1>1, NewOne DEF NewIter, AuxTypeOK
<1>2. CASE CloseAux
  BY <1>2, Olds DEF CloseAux, AuxTypeOK
<1>3. CASE CloseAuxContainer
  BY <1>3 DEF CloseAuxContainer, AuxTypeOK
<1>4. ASSUME NEW g \in DOMAIN iters, IterStep(g) PROVE AuxTypeOK'
  <2>0. iters[g] \in IterRecord /\ iters[g].target \in SeekTargets \cup {FromStart}
        /\ \A p \in {"new", "scan", "replay", "read", "done", "ended"} :
             IterGoes(g, p) => \E r \in IterRecord : SetIter(g, r)
    <3>1. iters[g] \in IterRecord /\ iters[g].target \in SeekTargets \cup {FromStart}  BY IterIs
    <3> QED  BY <3>1, IterLeaves, GoneHas
  <2>1. CASE RetireIter(g) \/ StartAtBeginning(g)
    BY <1>0, <2>0, <2>1, ReadTypes DEF RetireIter, StartAtBeginning
  <2>2. ReadsFrom(g) /\ iters[g].target # FromStart =>
          position' \in 1..EndOfFile /\ \E r \in IterRecord : SetIter(g, r)
    <3>1. iters[g].target # FromStart => iters[g].target \in Nat  BY <2>0, Targets
    <3> QED  BY <2>0, <3>1, IterLeaves, ReplayingHas, Seeks
  <2>3. CASE StartCovered(g)
    BY <1>0, <2>2, <2>3, ReadTypes DEF StartCovered
  <2>4. CASE StartScan(g)
    <3>1. position' \in 1..EndOfFile
      <4>1. scan'.seen \in Nat /\ SeekContainer(scan'.seen)  BY <2>4, ScanStarts
      <4> QED  BY <4>1, Seeks
    <3>2. \E r \in IterRecord : SetIter(g, r)
      BY <2>0, <2>4 DEF StartScan
    <3>3. UNCHANGED <<index, covered, aux_closed>>
      BY <2>4 DEF StartScan
    <3> QED  BY <1>0, <2>4, <3>1, <3>2, <3>3, ScanStarts, ReadTypes
  <2>5. CASE ScanPacket(g)
    <3>1. index' \subseteq Texts
          /\ covered' \in [upto : Nat \cup {Unread}, eof : BOOLEAN, windows : SUBSET (Nat \X Nat)]
      <4>1. CASE position = EndOfFile
        BY <1>0, <2>5, <4>1, ScanReads
      <4>2. CASE position # EndOfFile
        BY <1>0, <2>5, <4>2, ScanReads, Remembered
      <4> QED  BY <4>1, <4>2
    <3>2. position' \in 1..EndOfFile
      BY <1>0, <2>5, ScanReads
    <3>3. UNCHANGED <<iters, aux_closed>>
      BY <2>5 DEF ScanPacket
    <3> QED  BY <2>5, <3>1, <3>2, <3>3, ScanReads, ReadTypes
  <2>6. CASE ScanStopped(g)
    BY <1>0, <1>n, <2>0, <2>6, ReadTypes DEF ScanStopped
  <2>7. CASE ScanDone(g)
    <3>1. scan' = NoScan /\ ReadsFrom(g) /\ UNCHANGED <<index, aux_closed>>
      BY <2>7 DEF ScanDone
    <3>2. covered' \in [upto : Nat \cup {Unread}, eof : BOOLEAN, windows : SUBSET (Nat \X Nat)]
      <4>1. covered.windows \cup {<<scan.from, scan.seen>>} \in SUBSET (Nat \X Nat)
        BY <1>0
      <4> QED  BY <1>0, <2>7, <4>1 DEF ScanDone
    <3>3. iters[g].target # FromStart
      BY <2>7 DEF ScanDone, Scanning, AuxTypeOK, IterAt
    <3> QED  BY <1>0, <1>n, <2>2, <3>1, <3>2, <3>3, ReadTypes
  <2>8. CASE Replay(g)
    <3>1. \E r \in IterRecord : SetIter(g, r)
      BY <2>0, <2>8, IterLeaves, GoneHas, RowOutHas
    <3> QED  BY <1>0, <2>8, <3>1, ReadTypes DEF Replay
  <2>9. CASE ReadPacket(g)
    <3>1. position \in DOMAIN File /\ position' = position + 1 /\ position' \in 1..EndOfFile
      BY <1>0, <2>9 DEF ReadPacket
    <3>2. UNCHANGED iters \/ \E r \in IterRecord : SetIter(g, r)
      BY <2>0, <2>9, <3>1, IterLeaves, PacketOutHas
    <3>3. Remember(position, iters[g].target = FromStart) /\ UNCHANGED <<scan, aux_closed>>
      BY <2>9 DEF ReadPacket
    <3> QED  BY <1>0, <3>1, <3>2, <3>3, Remembered, ReadTypes
  <2>10. CASE ReadEnd(g)
    <3>1. covered' = [covered EXCEPT !.eof = covered.eof \/ (iters[g].target = FromStart)]
      BY <2>10 DEF ReadEnd
    <3>2. \E r \in IterRecord : SetIter(g, r)
      BY <2>0, <2>10 DEF ReadEnd
    <3>3. UNCHANGED <<position, index, scan, aux_closed>>
      BY <2>10 DEF ReadEnd
    <3>4. covered' \in [upto : Nat \cup {Unread}, eof : BOOLEAN, windows : SUBSET (Nat \X Nat)]
      BY <1>0, <3>1
    <3> QED  BY <1>0, <3>2, <3>3, <3>4, ReadTypes
  <2> QED  BY <1>4, <2>1, <2>3, <2>4, <2>5, <2>6, <2>7, <2>8, <2>9, <2>10 DEF IterStep
<1> QED  BY <1>1, <1>2, <1>3, <1>4 DEF AuxNext

-----------------------------------------------------------------------------
(* What an iterator or a catch-up that knows all before the position       *)
(* remembers, leaves what is covered covered.                              *)
LEMMA RememberCovers ==
  ASSUME AuxTypeOK, Coverage, NEW i \in DOMAIN File, NEW c \in BOOLEAN, Remember(i, c),
         c => \A j \in Texts : j < i => j \in index
  PROVE  Coverage'
<1>1. /\ index \subseteq index' /\ covered'.eof = covered.eof
      /\ covered'.windows = covered.windows
      /\ covered'.upto \in {covered.upto, File[i].at}
      /\ ~c => covered'.upto = covered.upto
  BY Remembered
<1>2. Known(0, covered.upto)'
  <2>1. CASE covered'.upto = covered.upto
    BY <1>1, <2>1 DEF Coverage, Known
  <2>2. CASE covered'.upto # covered.upto
    <3> SUFFICES ASSUME NEW j \in Texts, File[j].at < File[i].at PROVE j \in index
      BY <1>1, <2>2 DEF Known
    <3>1. j \in DOMAIN File /\ j \in Nat /\ i \in Nat
          /\ (i <= j => File[i].at <= File[j].at) /\ File[i].at \in Nat /\ File[j].at \in Nat
      BY FileIs DEF Texts
    <3>2. j < i  BY <3>1
    <3> QED  BY <1>1, <2>2, <3>2
  <2> QED  BY <2>1, <2>2
<1>3. covered'.eof => Texts \subseteq index'
  BY <1>1 DEF Coverage
<1>4. \A w \in covered'.windows : Known(w[1], w[2])'
  BY <1>1 DEF Coverage, Known
<1> QED  BY <1>2, <1>3, <1>4 DEF Coverage

(* A catch-up that extends what is covered knows all before the position.  *)
LEMMA ScanKnows ==
  ASSUME AuxTypeOK, Coverage, Scanning, scan.by # 0, scan.contiguous
  PROVE  \A j \in Texts : j < position => j \in index
<1> SUFFICES ASSUME NEW j \in Texts, j < position PROVE j \in index  OBVIOUS
<1>1. File[j].at \in Nat /\ scan.from \in Nat /\ covered.upto \in Int
  BY FileIs DEF AuxTypeOK, Texts, Unread
<1>2. CASE scan.from <= File[j].at  BY <1>2 DEF Scanning
<1>3. CASE File[j].at < scan.from
  <2>1. File[j].at < covered.upto  BY <1>1, <1>3 DEF Scanning
  <2> QED  BY <1>1, <2>1 DEF Coverage, Known
<1> QED  BY <1>1, <1>2, <1>3

(* What is taken to be covered stays covered.                              *)
LEMMA CoverKept ==
  ASSUME AuxTypeOK, Coverage, Scanning, FirstIter, AuxNext
  PROVE  Coverage'
<1>1. ASSUME UNCHANGED <<index, covered>> PROVE Coverage'
  BY <1>1 DEF Coverage, Known
<1>e. position = EndOfFile => \A j \in Texts : j < position
  BY FileIs DEF Texts
<1>2. CASE NewIter \/ CloseAux \/ CloseAuxContainer
  BY <1>1, <1>2 DEF NewIter, CloseAux, CloseAuxContainer
<1>3. ASSUME NEW g \in DOMAIN iters, IterStep(g) PROVE Coverage'
  <2>1. CASE RetireIter(g) \/ StartAtBeginning(g) \/ StartCovered(g) \/ StartScan(g)
             \/ ScanStopped(g) \/ Replay(g)
    BY <1>1, <2>1 DEF RetireIter, StartAtBeginning, StartCovered, StartScan, ScanStopped, Replay
  <2>2. CASE ScanPacket(g)
    <3>0. scan.by # 0 /\ scan.contiguous \in BOOLEAN
      BY <2>2, IterIs DEF ScanPacket, AuxTypeOK
    <3>1. CASE position = EndOfFile
      <4>1. covered' = [covered EXCEPT !.eof = covered.eof \/ scan.contiguous] /\ index' = index
        BY <2>2, <3>1, ScanReads
      <4>2. covered'.upto = covered.upto /\ covered'.windows = covered.windows
            /\ (covered'.eof => covered.eof \/ scan.contiguous)
        BY <4>1 DEF AuxTypeOK
      <4>3. scan.contiguous => Texts \subseteq index
        BY <1>e, <3>0, <3>1, ScanKnows
      <4> QED  BY <4>1, <4>2, <4>3 DEF Coverage, Known
    <3>2. CASE position # EndOfFile
      <4>1. position \in DOMAIN File
            /\ (Remember(position, scan.contiguous) \/ UNCHANGED <<index, covered>>)
        BY <2>2, <3>2, ScanReads
      <4> QED  BY <1>1, <3>0, <4>1, ScanKnows, RememberCovers
    <3> QED  BY <3>1, <3>2
  <2>3. CASE ScanDone(g)
    <3>1. index' = index /\ covered.upto = covered'.upto /\ covered.eof = covered'.eof
          /\ covered'.windows \subseteq covered.windows \cup {<<scan.from, scan.seen>>}
      BY <2>3 DEF ScanDone, AuxTypeOK
    <3>2. Known(scan.from, scan.seen)
      BY <2>3, IterIs DEF ScanDone, Scanning
    <3>3. \A w \in covered'.windows : Known(w[1], w[2])
      BY <3>1, <3>2 DEF Coverage
    <3> QED  BY <3>1, <3>3 DEF Coverage, Known
  <2>4. CASE ReadPacket(g)
    <3>1. position \in DOMAIN File  BY <2>4, FileIs DEF ReadPacket, AuxTypeOK
    <3>2. iters[g].target = FromStart => \A j \in Texts : j < position => j \in index
      BY <2>4 DEF ReadPacket, FirstIter
    <3>3. Remember(position, iters[g].target = FromStart)  BY <2>4 DEF ReadPacket
    <3> QED  BY <3>1, <3>2, <3>3, RememberCovers
  <2>5. CASE ReadEnd(g)
    <3>1. covered' = [covered EXCEPT !.eof = covered.eof \/ (iters[g].target = FromStart)]
          /\ index' = index
      BY <2>5 DEF ReadEnd
    <3>2. covered'.upto = covered.upto /\ covered'.windows = covered.windows
          /\ (covered'.eof => covered.eof \/ iters[g].target = FromStart)
      BY <3>1 DEF AuxTypeOK
    <3>3. iters[g].target = FromStart => Texts \subseteq index
      BY <1>e, <2>5 DEF ReadEnd, FirstIter
    <3> QED  BY <3>1, <3>2, <3>3 DEF Coverage, Known
  <2> QED  BY <1>3, <2>1, <2>2, <2>3, <2>4, <2>5 DEF IterStep
<1> QED  BY <1>2, <1>3 DEF AuxNext

(* A catch-up goes on with what it holds and knows.                        *)
LEMMA ScanKept ==
  ASSUME AuxTypeOK, Coverage, Scanning, AuxNext
  PROVE  Scanning'
<1>1. ASSUME UNCHANGED <<index, covered, scan, position>>, scan.by # 0,
             aux_closed' # "closed", Len(iters') >= Len(iters),
             iters'[scan.by].at = iters[scan.by].at,
             iters'[scan.by].target = iters[scan.by].target, iters' \in Seq(IterRecord)
      PROVE  Scanning'
  <2>1. scan.by \in DOMAIN iters'
    BY <1>1 DEF Scanning, AuxTypeOK
  <2> QED  BY <1>1, <2>1 DEF Scanning, Known, IterAt
<1>2. CASE scan'.by = 0  BY <1>2 DEF Scanning
<1>3. CASE NewIter
  <2>1. CASE scan.by # 0
    <3>1. scan.by \in DOMAIN iters /\ aux_closed # "closed"  BY <2>1 DEF Scanning
    <3>2. UNCHANGED <<index, covered, scan, position, aux_closed>>  BY <1>3 DEF NewIter
    <3>3. Len(iters) \in Nat  BY DEF AuxTypeOK
    <3> QED  BY <1>1, <1>3, <2>1, <3>1, <3>2, <3>3, NewOne
  <2> QED  BY <1>2, <1>3, <2>1 DEF NewIter
<1>4. CASE CloseAux
  <2>1. CASE scan.by # 0
    <3>1. scan.by \in DOMAIN iters  BY <2>1 DEF Scanning
    <3>2. UNCHANGED <<index, covered, scan, position>> /\ aux_closed' = "begun"
          /\ iters' = OldIters
      BY <1>4 DEF CloseAux
    <3>3. Len(iters) \in Nat  BY DEF AuxTypeOK
    <3> QED  BY <1>1, <2>1, <3>1, <3>2, <3>3, Olds
  <2> QED  BY <1>2, <1>4, <2>1 DEF CloseAux
<1>5. CASE CloseAuxContainer
  BY <1>2, <1>5 DEF CloseAuxContainer
<1>6. ASSUME NEW g \in DOMAIN iters, IterStep(g) PROVE Scanning'
  <2>0. iters[g] \in IterRecord /\ g # 0 /\ iters[g].target \in SeekTargets \cup {FromStart}
    BY IterIs
  <2>1. CASE RetireIter(g) \/ StartAtBeginning(g) \/ StartCovered(g) \/ Replay(g)
             \/ ReadPacket(g) \/ ReadEnd(g)
    <3>1. scan' = scan /\ scan.by = 0
      BY <2>1 DEF RetireIter, StartAtBeginning, StartCovered, Replay, ReadPacket, ReadEnd, LockFree
    <3> QED  BY <1>2, <3>1
  <2>2. CASE ScanStopped(g) \/ ScanDone(g)
    BY <1>2, <2>2 DEF ScanStopped, ScanDone, NoScan
  <2>3. CASE StartScan(g)
    <3>1. UNCHANGED <<index, covered, aux_closed>> /\ aux_closed # "closed"
          /\ iters[g].target # FromStart /\ SetIter(g, Gone(iters[g], "scan"))
      BY <2>3, IterLeaves DEF StartScan, LockFree
    <3>2. /\ g \in DOMAIN iters' /\ iters'[g].at = "scan" /\ iters'[g].target = iters[g].target
      BY <2>0, <3>1, GoneHas, OneIter
    <3>3. scan'.from \in Nat /\ scan'.seen \in Nat
          /\ \A j \in DOMAIN File : j < position' => File[j].at < scan'.seen
      BY <2>3, ScanStarts, Seeks
    <3>4. Known(scan.from, scan.seen)'
      <4>1. CASE scan'.contiguous
        <5>1. scan'.seen = covered.upto  BY <2>3, <4>1, ScanStarts
        <5> QED  BY <3>1, <3>3, <5>1, FileIs DEF Coverage, Known, Texts
      <4>2. CASE ~scan'.contiguous
        <5>1. scan'.seen = scan'.from  BY <2>3, <4>2, ScanStarts
        <5> QED  BY <3>3, <5>1, FileIs DEF Known, Texts
      <4> QED  BY <4>1, <4>2
    <3>5. \A i \in Texts : i < position' /\ scan'.from <= File[i].at => i \in index'
      BY <3>3, <3>4 DEF Known, Texts
    <3> QED  BY <2>3, <3>1, <3>2, <3>4, <3>5, ScanStarts DEF Scanning, IterAt
  <2>4. CASE ScanPacket(g)
    <3>0. scan.by = g /\ UNCHANGED <<iters, aux_closed>>  BY <2>4 DEF ScanPacket
    <3>1. /\ g \in DOMAIN iters /\ IterAt(g, "scan") /\ aux_closed # "closed"
          /\ iters[g].target # FromStart /\ Known(scan.from, scan.seen)
          /\ \A i \in Texts : i < position /\ scan.from <= File[i].at => i \in index
          /\ scan.from = WindowStart(iters[g].target)
          /\ scan.contiguous => scan.from <= covered.upto
      BY <2>0, <3>0 DEF Scanning
    <3>2. scan'.by = g /\ scan'.from = scan.from /\ scan'.contiguous = scan.contiguous
          /\ scan.from \in Nat /\ scan'.seen \in Nat /\ scan.contiguous \in BOOLEAN
          /\ covered.upto \in Int
      BY <2>4, <3>0, ScanReads DEF AuxTypeOK, Unread
    <3>3. CASE position = EndOfFile
      <4>1. UNCHANGED <<position, index>> /\ covered'.upto = covered.upto
        BY <2>4, <3>3, ScanReads DEF AuxTypeOK
      <4>2. \A i \in Texts : i < position  BY <3>3, FileIs DEF Texts
      <4>3. Known(scan.from, scan.seen)'
        BY <3>1, <3>2, <4>1, <4>2 DEF Known
      <4> QED  BY <3>0, <3>1, <3>2, <4>1, <4>3 DEF Scanning, IterAt
    <3>4. CASE position # EndOfFile
      <4>1. position \in DOMAIN File /\ position' = position + 1
            /\ scan'.seen \in {scan.seen, File[position].at}
            /\ \/ Remember(position, scan.contiguous)
               \/ File[position].kind = "audio" /\ UNCHANGED <<index, covered>>
        BY <2>4, <3>4, ScanReads
      <4>2. /\ index \subseteq index' /\ covered'.upto >= covered.upto /\ covered'.upto \in Int
            /\ position \in Texts => position \in index'
        BY <3>2, <4>1, Remembered DEF Texts, Unread
      <4>3. \A i \in Texts : i < position' /\ scan.from <= File[i].at => i \in index'
        <5> SUFFICES ASSUME NEW i \in Texts, i < position', scan.from <= File[i].at
                     PROVE  i \in index'
          OBVIOUS
        <5>1. i < position \/ i = position  BY <4>1, FileIs DEF Texts
        <5> QED  BY <3>1, <4>2, <5>1
      <4>4. Known(scan.from, scan.seen)'
        <5> SUFFICES ASSUME NEW i \in Texts, scan.from <= File[i].at, File[i].at < scan'.seen
                     PROVE  i \in index'
          BY <3>2 DEF Known
        <5>1. CASE scan'.seen = scan.seen
          BY <3>1, <4>2, <5>1 DEF Known
        <5>2. CASE scan'.seen = File[position].at
          <6>1. i \in Nat /\ position \in Nat /\ File[i].at \in Nat /\ File[position].at \in Nat
                /\ (position < i => File[position].at <= File[i].at) /\ i \in DOMAIN File
            BY <4>1, FileIs DEF Texts
          <6>2. i < position  BY <5>2, <6>1
          <6> QED  BY <3>1, <4>2, <6>2
        <5> QED  BY <4>1, <5>1, <5>2
      <4>5. scan.contiguous => scan.from <= covered'.upto  BY <3>1, <3>2, <4>2
      <4> QED  BY <3>0, <3>1, <3>2, <4>3, <4>4, <4>5 DEF Scanning, IterAt
    <3> QED  BY <3>3, <3>4
  <2> QED  BY <1>6, <2>1, <2>2, <2>3, <2>4 DEF IterStep
<1> QED  BY <1>3, <1>4, <1>5, <1>6 DEF AuxNext

-----------------------------------------------------------------------------
(* A step of an iterator leaves the others and every target alone, and     *)
(* forgets nothing.                                                        *)
LEMMA StepKeeps ==
  ASSUME AuxTypeOK, NEW g \in DOMAIN iters, IterStep(g)
  PROVE  /\ DOMAIN iters' = DOMAIN iters /\ Len(iters') = Len(iters)
         /\ \A h \in DOMAIN iters : h # g => iters'[h] = iters[h]
         /\ iters'[g].target = iters[g].target
         /\ index \subseteq index' /\ aux_closed' = aux_closed
<1>0. iters[g] \in IterRecord /\ (position < EndOfFile => position \in DOMAIN File)
  BY IterIs, FileIs DEF AuxTypeOK
<1>1. UNCHANGED iters \/ \E r \in IterRecord : SetIter(g, r) /\ r.target = iters[g].target
  <2>1. CASE RetireIter(g) \/ StartAtBeginning(g) \/ StartScan(g) \/ ScanStopped(g) \/ ReadEnd(g)
    <3>1. \E p \in {"new", "scan", "replay", "read", "done", "ended"} : IterGoes(g, p)
      BY <2>1 DEF RetireIter, StartAtBeginning, StartScan, ScanStopped, ReadEnd
    <3> QED  BY <1>0, <3>1, IterLeaves, GoneHas
  <2>2. CASE StartCovered(g) \/ ScanDone(g)
    BY <1>0, <2>2, IterLeaves, ReplayingHas DEF StartCovered, ScanDone
  <2>3. CASE ScanPacket(g)
    BY <2>3 DEF ScanPacket
  <2>4. CASE Replay(g)
    BY <1>0, <2>4, IterLeaves, GoneHas, RowOutHas
  <2>5. CASE ReadPacket(g)
    <3>1. position \in DOMAIN File  BY <1>0, <2>5 DEF ReadPacket
    <3> QED  BY <1>0, <2>5, <3>1, IterLeaves, PacketOutHas
  <2> QED  BY <2>1, <2>2, <2>3, <2>4, <2>5 DEF IterStep
<1>2. index \subseteq index' /\ aux_closed' = aux_closed
  <2>1. CASE RetireIter(g) \/ StartAtBeginning(g) \/ StartScan(g) \/ ScanStopped(g) \/ ReadEnd(g)
             \/ StartCovered(g) \/ ScanDone(g) \/ Replay(g)
    BY <2>1 DEF RetireIter, StartAtBeginning, StartScan, ScanStopped, ReadEnd, StartCovered,
                ScanDone, Replay
  <2>2. CASE ScanPacket(g)
    BY <2>2 DEF ScanPacket, Remember
  <2>3. CASE ReadPacket(g)
    BY <2>3 DEF ReadPacket, Remember
  <2> QED  BY <2>1, <2>2, <2>3 DEF IterStep
<1> QED  BY <1>1, <1>2, OneIter

(* The iterator without a target stays the first, and reads from the       *)
(* beginning.                                                              *)
LEMMA FirstKept ==
  ASSUME AuxTypeOK, Scanning, FirstIter, AuxNext
  PROVE  FirstIter'
<1>0. Len(iters) \in Nat /\ DOMAIN iters = 1..Len(iters) /\ (iters = <<>> <=> Len(iters) = 0)
  BY DEF AuxTypeOK
<1>1. CASE NewIter
  <2>1. position' = position /\ index' = index /\ aux_closed' = aux_closed
    BY <1>1 DEF NewIter
  <2>2. iters' # <<>>  BY <1>0, <1>1, NewOne
  <2>3. ASSUME NEW g \in DOMAIN iters', iters'[g].target = FromStart
        PROVE  g = 1 /\ (g = Len(iters') => position = 1)
    <3>1. CASE g \in DOMAIN iters
      BY <1>0, <1>1, <2>3, <3>1, NewOne DEF FirstIter
    <3>2. CASE g = Len(iters) + 1
      BY <1>0, <1>1, <2>3, <3>2, NewOne DEF FirstIter
    <3> QED  BY <1>1, <3>1, <3>2, NewOne
  <2>4. \A i \in Texts : ~(i < 1)  BY FileIs DEF Texts
  <2> QED  BY <2>1, <2>2, <2>3, <2>4 DEF FirstIter, CurrentIter
<1>2. CASE CloseAux
  <2>1. aux_closed' = "begun" /\ UNCHANGED <<position, index>> /\ iters' = OldIters
    BY <1>2 DEF CloseAux
  <2>2. iters' = <<>> => iters = <<>>  BY <1>0, <2>1, Olds
  <2> QED  BY <2>1, <2>2, Olds DEF FirstIter, CurrentIter
<1>3. CASE CloseAuxContainer
  BY <1>3 DEF CloseAuxContainer, FirstIter, CurrentIter, IterAt
<1>4. ASSUME NEW g \in DOMAIN iters, IterStep(g) PROVE FirstIter'
  <2>1. /\ DOMAIN iters' = DOMAIN iters /\ Len(iters') = Len(iters) /\ iters # <<>>
        /\ \A h \in DOMAIN iters : h # g => iters'[h] = iters[h]
        /\ iters'[g].target = iters[g].target
        /\ index \subseteq index' /\ aux_closed' = aux_closed
    BY <1>0, <1>4, StepKeeps
  <2>2. iters' # <<>>  BY <1>0, <2>1
  <2>3. \A h \in DOMAIN iters' : iters'[h].target = FromStart => h = 1
    BY <2>1 DEF FirstIter
  <2>4. ASSUME NEW h \in DOMAIN iters, CurrentIter(h), iters[h].target = FromStart
        PROVE  /\ iters'[h].at = "new" => position' = 1
               /\ \A i \in Texts : i < position' => i \in index'
    <3>1. CASE position' = position
      <4>1. iters'[h].at = "new" => iters[h].at = "new"
        <5>1. CASE h # g  BY <2>1, <5>1
        <5>2. CASE h = g /\ ~ScanPacket(g)
          <6>1. iters[g] \in IterRecord  BY IterIs
          <6>2. CASE RetireIter(g) \/ StartAtBeginning(g) \/ StartScan(g) \/ ScanStopped(g)
                     \/ ReadEnd(g)
            <7>1. \E p \in {"scan", "read", "done", "ended"} : IterGoes(g, p)
              BY <6>2 DEF RetireIter, StartAtBeginning, StartScan, ScanStopped, ReadEnd
            <7> QED  BY <5>2, <6>1, <7>1, IterLeaves, GoneHas, OneIter
          <6>3. CASE StartCovered(g) \/ ScanDone(g)
            BY <5>2, <6>1, <6>3, IterLeaves, ReplayingHas, OneIter DEF StartCovered, ScanDone
          <6>4. CASE Replay(g)
            BY <5>2, <6>1, <6>4, IterLeaves, GoneHas, RowOutHas, OneIter
          <6>5. CASE ReadPacket(g)
            BY <3>1, <6>5 DEF ReadPacket, AuxTypeOK
          <6> QED  BY <1>4, <5>2, <6>2, <6>3, <6>4, <6>5 DEF IterStep
        <5>3. CASE ScanPacket(g)  BY <5>3 DEF ScanPacket
        <5> QED  BY <5>1, <5>2, <5>3
      <4> QED  BY <2>1, <2>4, <3>1, <4>1 DEF FirstIter, IterAt
    <3>2. CASE position' # position
      <4>1. CASE StartCovered(g) \/ StartScan(g) \/ ScanDone(g) \/ ScanPacket(g)
        <5>1. CurrentIter(g)
          BY <4>1 DEF StartCovered, StartScan, ScanDone, ScanPacket
        <5>2. iters[g].target # FromStart
          BY <4>1, IterIs DEF StartCovered, StartScan, ScanDone, ScanPacket, Scanning
        <5> QED  BY <2>4, <5>1, <5>2 DEF CurrentIter
      <4>2. CASE ReadPacket(g)
        <5>1. g = h /\ iters[g].at = "read" /\ position' = position + 1
          BY <2>4, <4>2 DEF ReadPacket, CurrentIter, IterAt
        <5>2. position \in DOMAIN File /\ Remember(position, iters[g].target = FromStart)
          BY <4>2, FileIs DEF ReadPacket, AuxTypeOK
        <5>3. \A i \in Texts : i < position + 1 => i < position \/ i = position
          BY FileIs DEF Texts, AuxTypeOK
        <5>4. position \in Texts => position \in index'
          BY <5>2, Remembered
        <5>5. iters'[g].at = "read"
          BY <4>2, <5>1, <5>2, IterIs, IterLeaves, PacketOutHas, OneIter
        <5> QED  BY <2>1, <2>4, <5>1, <5>3, <5>4, <5>5 DEF FirstIter
      <4>3. CASE RetireIter(g) \/ StartAtBeginning(g) \/ ScanStopped(g) \/ Replay(g) \/ ReadEnd(g)
        BY <3>2, <4>3 DEF RetireIter, StartAtBeginning, ScanStopped, Replay, ReadEnd
      <4> QED  BY <1>4, <4>1, <4>2, <4>3 DEF IterStep
    <3> QED  BY <3>1, <3>2
  <2> QED  BY <2>1, <2>2, <2>3, <2>4 DEF FirstIter, CurrentIter, IterAt
<1> QED  BY <1>1, <1>2, <1>3, <1>4 DEF AuxNext

-----------------------------------------------------------------------------
(* An iterator that begins to replay, has all the rows that are due.       *)
LEMMA BeginShows ==
  ASSUME AuxTypeOK, NEW r \in IterRecord, NEW p, Shows(r, p), r.at \in {"new", "scan"},
         r.target # FromStart, NEW q \in 1..EndOfFile,
         \A i \in DOMAIN File : i < q => File[i].at < r.target,
         \A i \in Texts : Due(r.target, i) /\ File[i].at < r.target => i \in index
  PROVE  Shows(Replaying(r), q)
<1> DEFINE t == r.target
           b == Replaying(r)
<1>1. /\ b.at = "replay" /\ b.target = t /\ b.rows = Overlapping(t) /\ b.replayed = r.replayed
      /\ b.out = r.out
  BY ReplayingHas
<1>2. r.out = <<>> /\ r.replayed = {}  BY DEF Shows
<1>3. ToSet(r.out) = {} /\ Cardinality(ToSet(r.out)) = Len(r.out)
  BY <1>2, FS_EmptySet DEF ToSet
<1>4. \A i \in Overlapping(t) : File[i].at < t /\ File[i].to > t
  BY DEF Overlapping
<1>5. \A i \in Texts : Due(t, i) /\ File[i].at < t => i \in Overlapping(t)
  BY DEF Overlapping, Due, DueAt, Texts
<1> HIDE DEF b, t
<1>6. t # FromStart /\ \A i \in DOMAIN File : i < q => File[i].at < t
  BY DEF t
<1> QED  BY <1>1, <1>2, <1>3, <1>4, <1>5, <1>6 DEF Shows, b

(* One that has no rows left shows all that is due before what it reads.   *)
LEMMA ReadShows ==
  ASSUME AuxTypeOK, NEW r \in IterRecord, NEW p \in 1..EndOfFile, Shows(r, p),
         r.at = "replay", r.rows = {}
  PROVE  Shows(Gone(r, "read"), p)
<1> DEFINE t == r.target
           out == ToSet(r.out)
<1>1. /\ Gone(r, "read").at = "read" /\ Gone(r, "read").target = t
      /\ Gone(r, "read").replayed = r.replayed /\ Gone(r, "read").out = r.out
  BY GoneHas
<1>2. /\ Cardinality(out) = Len(r.out) /\ out = r.replayed
      /\ \A i \in out : File[i].to > t \/ File[i].at >= t - Preroll
      /\ \A i \in Texts : Due(t, i) /\ File[i].at < t => i \in r.replayed
      /\ \A i \in DOMAIN File : i < p => File[i].at < t
  BY DEF Shows
<1>3. \A i \in DOMAIN File : i < p /\ Due(t, i) => i \in out
  <2> SUFFICES ASSUME NEW i \in DOMAIN File, i < p, Due(t, i) PROVE i \in out  OBVIOUS
  <2>1. File[i].at < t /\ t \in Int /\ File[i].at \in Int
    <3>1. t \in SeekTargets \cup {FromStart}  BY DEF IterRecord
    <3>2. t \in Int  BY <3>1, Targets
    <3> QED  BY <1>2, <3>2, FileIs
  <2>2. File[i].kind = "text"
    BY <2>1 DEF Due, DueAt
  <2> QED  BY <1>2, <2>1, <2>2 DEF Texts
<1> HIDE DEF t, out
<1> QED  BY <1>1, <1>2, <1>3 DEF Shows, out, t

(* A row that is replayed is shown once.                                   *)
LEMMA RowShows ==
  ASSUME AuxTypeOK, NEW r \in IterRecord, NEW p, Shows(r, p), r.at = "replay", NEW i \in r.rows
  PROVE  Shows(RowOut(r, i), p)
<1> DEFINE t == r.target
           out == ToSet(r.out)
           n == RowOut(r, i)
<1>1. /\ n.at = "replay" /\ n.target = t /\ n.rows = r.rows \ {i}
      /\ n.replayed = r.replayed \cup {i} /\ n.out = Append(r.out, i)
  BY RowOutHas
<1>2. /\ Cardinality(out) = Len(r.out) /\ out = r.replayed /\ r.rows \cap r.replayed = {}
      /\ \A j \in out : File[j].to > t \/ File[j].at >= t - Preroll
      /\ \A j \in r.rows \cup r.replayed : File[j].at < t /\ File[j].to > t
      /\ \A j \in Texts : Due(t, j) /\ File[j].at < t => j \in r.rows \cup r.replayed
      /\ \A j \in DOMAIN File : j < p => File[j].at < t
      /\ t # FromStart
  BY DEF Shows
<1>3. i \in DOMAIN File /\ i \notin out /\ r.out \in Seq(DOMAIN File)
  BY <1>2 DEF IterRecord, Texts
<1>4. ToSet(n.out) = out \cup {i} /\ Cardinality(ToSet(n.out)) = Len(n.out)
  BY <1>1, <1>2, <1>3, OneMore
<1>5. n.rows \cup n.replayed = r.rows \cup r.replayed /\ n.rows \cap n.replayed = {}
  BY <1>1, <1>2
<1> HIDE DEF t, out, n
<1> QED  BY <1>1, <1>2, <1>4, <1>5 DEF Shows, n

(* A packet that is passed on or passed over leaves out none that is due   *)
(* and none twice.                                                         *)
LEMMA PacketShows ==
  ASSUME AuxTypeOK, NEW g \in DOMAIN iters, NEW p \in DOMAIN File, Shows(iters[g], p),
         iters[g].at = "read"
  PROVE  /\ Passed(g, p) => Shows(PacketOut(iters[g], p), p + 1)
         /\ ~Passed(g, p) => Shows(iters[g], p + 1)
<1> DEFINE r == iters[g]
           t == r.target
           out == ToSet(r.out)
           n == PacketOut(r, p)
<1>0. r \in IterRecord /\ r.out \in Seq(DOMAIN File) /\ t \in Int /\ p \in Nat
      /\ Preroll \in Nat /\ t \in SeekTargets \cup {FromStart} /\ out \subseteq DOMAIN File
      /\ \A i \in DOMAIN File : i \in Nat /\ File[i].at \in Nat /\ File[i].to \in Nat
  BY IterIs, FileIs, Targets, OneMore
<1>1. /\ Cardinality(out) = Len(r.out) /\ r.replayed \subseteq out
      /\ \A j \in out : File[j].to > t \/ File[j].at >= t - Preroll
      /\ \A j \in out : j \in r.replayed \/ j < p
      /\ \A j \in DOMAIN File : j < p /\ Due(t, j) => j \in out
  BY DEF Shows
<1>2. \A j \in DOMAIN File : j < p + 1 => j < p \/ j = p
  BY <1>0
<1>3. ASSUME Passed(g, p) PROVE Shows(n, p + 1)
  <2>1. /\ n.at = "read" /\ n.target = t /\ n.replayed = r.replayed /\ n.out = Append(r.out, p)
    BY <1>0, PacketOutHas
  <2>2. p \notin out  BY <1>0, <1>1, <1>3 DEF Passed
  <2>3. ToSet(n.out) = out \cup {p} /\ Cardinality(ToSet(n.out)) = Len(n.out)
    <3>1. /\ ToSet(Append(r.out, p)) = out \cup {p}
          /\ Cardinality(ToSet(Append(r.out, p))) = Len(Append(r.out, p))
      BY <1>0, <1>1, <2>2, OneMore
    <3> HIDE DEF r, out, n
    <3> QED  BY <2>1, <3>1
  <2>4. File[p].to > t \/ File[p].at >= t - Preroll
    BY <1>0, <1>3 DEF Passed, FromStart
  <2>5. \A j \in out \cup {p} : j \in r.replayed \/ j < p + 1
    BY <1>0, <1>1
  <2>6. \A j \in DOMAIN File : j < p + 1 /\ Due(t, j) => j \in out \cup {p}
    BY <1>1, <1>2
  <2> HIDE DEF r, t, out, n
  <2> QED  BY <1>1, <2>1, <2>3, <2>4, <2>5, <2>6 DEF Shows
<1>4. ASSUME ~Passed(g, p) PROVE Shows(r, p + 1)
  <2>1. Due(t, p) => p \in out
    <3> SUFFICES ASSUME Due(t, p) PROVE p \in out  OBVIOUS
    <3>1. ~Video(p)  BY DEF Due, DueAt, Video
    <3>2. CASE p \in r.replayed  BY <1>1, <3>2
    <3>3. CASE t # FromStart /\ File[p].to <= t
                /\ File[p].at < (IF File[p].kind = "audio" THEN t - Preroll ELSE t)
      BY <1>0, <3>3 DEF Due, DueAt
    <3> QED  BY <1>4, <3>1, <3>2, <3>3 DEF Passed
  <2>2. \A j \in out : j \in r.replayed \/ j < p + 1
    BY <1>0, <1>1
  <2>3. \A j \in DOMAIN File : j < p + 1 /\ Due(t, j) => j \in out
    BY <1>1, <1>2, <2>1
  <2> QED  BY <1>1, <2>2, <2>3 DEF Shows
<1> QED  BY <1>3, <1>4

(* What is due from before a target that is covered, is in the index.      *)
LEMMA CoveredRows ==
  ASSUME AuxTypeOK, Coverage, NEW t \in SeekTargets, Covers(t)
  PROVE  \A i \in Texts : Due(t, i) /\ File[i].at < t => i \in index
<1> SUFFICES ASSUME NEW i \in Texts, Due(t, i), File[i].at < t PROVE i \in index
  OBVIOUS
<1>1. File[i].at \in Nat /\ t \in Int /\ WindowStart(t) \in Nat
  BY FileIs, Targets DEF Texts
<1>2. File[i].at >= WindowStart(t)
  BY DEF Due, DueAt, Texts
<1>3. CASE covered.eof  BY <1>3 DEF Coverage
<1>4. CASE covered.upto > t
  <2>1. covered.upto \in Int  BY DEF AuxTypeOK, Unread
  <2>2. File[i].at < covered.upto  BY <1>1, <1>4, <2>1
  <2> QED  BY <1>1, <2>2 DEF Coverage, Known
<1>5. CASE \E w \in covered.windows : Within(w, WindowStart(t), t)
  <2>1. PICK w \in covered.windows : w[1] <= WindowStart(t) /\ w[2] > t
    BY <1>5 DEF Within
  <2>2. w[1] \in Nat /\ w[2] \in Nat  BY DEF AuxTypeOK
  <2>3. w[1] <= File[i].at /\ File[i].at < w[2]  BY <1>1, <1>2, <2>1, <2>2
  <2> QED  BY <2>3 DEF Coverage, Known
<1> QED  BY <1>3, <1>4, <1>5 DEF Covers

(* So it is when a catch-up is done.                                       *)
LEMMA ScannedRows ==
  ASSUME AuxTypeOK, Scanning, NEW g \in DOMAIN iters, scan.by = g, scan.seen > iters[g].target
  PROVE  \A i \in Texts : Due(iters[g].target, i) /\ File[i].at < iters[g].target => i \in index
<1> DEFINE t == iters[g].target
<1> SUFFICES ASSUME NEW i \in Texts, Due(t, i), File[i].at < t PROVE i \in index
  OBVIOUS
<1>1. t \in SeekTargets \cup {FromStart} /\ scan.by # 0  BY IterIs
<1>2. File[i].at \in Nat /\ t \in Int /\ WindowStart(t) \in Nat /\ scan.seen \in Nat
  BY <1>1, FileIs, Targets DEF Texts, AuxTypeOK
<1>3. File[i].at >= WindowStart(t)
  BY DEF Due, DueAt, Texts
<1>4. Known(scan.from, scan.seen) /\ scan.from = WindowStart(t)
  BY <1>1 DEF Scanning
<1>5. File[i].at < scan.seen  BY <1>2
<1> QED  BY <1>3, <1>4, <1>5 DEF Known

(* A step of the current iterator leaves it to show what it has to.        *)
LEMMA OwnStep ==
  ASSUME AuxTypeOK, Coverage, Scanning, FirstIter, NEW g \in DOMAIN iters, CurrentIter(g),
         Shown(g), IterStep(g)
  PROVE  Shown(g)'
<1> DEFINE r == iters[g]
           t == r.target
<1>0. r \in IterRecord /\ g # 0 /\ t \in SeekTargets \cup {FromStart} /\ Shows(r, position)
      /\ position \in 1..EndOfFile /\ DOMAIN iters' = DOMAIN iters
  BY IterIs, StepKeeps DEF Shown, AuxTypeOK
<1>1. t # FromStart => t \in Nat /\ t \in SeekTargets
  BY <1>0, Targets
<1>2. ASSUME NEW n \in IterRecord, SetIter(g, n), Shows(n, position'),
             n.at = "scan" => scan'.by = g,
             n.at \in {"replay", "read", "done"} => scan'.by = 0
      PROVE  Shown(g)'
  BY <1>2, OneIter DEF Shown, IterAt
<1>3. CASE StartAtBeginning(g)
  <2>1. position = 1 /\ scan.by = 0 /\ t = FromStart /\ r.at = "new" /\ UNCHANGED <<position, scan>>
    BY <1>3 DEF StartAtBeginning, FirstIter, IterAt, LockFree
  <2>2. SetIter(g, Gone(r, "read"))
    BY <1>3, IterLeaves DEF StartAtBeginning
  <2>3. Gone(r, "read") \in IterRecord /\ Gone(r, "read").at = "read"
        /\ Gone(r, "read").out = r.out /\ Gone(r, "read").replayed = r.replayed
    BY <1>0, GoneHas
  <2>4. Shows(Gone(r, "read"), position)
    <3>1. r.out = <<>> /\ r.replayed = {}  BY <1>0, <2>1 DEF Shows
    <3>2. ToSet(r.out) = {} /\ Cardinality(ToSet(r.out)) = Len(r.out)
      BY <3>1, FS_EmptySet DEF ToSet
    <3>3. \A i \in DOMAIN File : ~(i < 1)  BY FileIs
    <3> QED  BY <2>1, <2>3, <3>1, <3>2, <3>3 DEF Shows
  <2> QED  BY <1>2, <2>1, <2>2, <2>3, <2>4
<1>4. ASSUME ReadsFrom(g), t # FromStart, r.at \in {"new", "scan"}, scan'.by = 0,
             \A i \in Texts : Due(t, i) /\ File[i].at < t => i \in index
      PROVE  Shown(g)'
  <2>1. SetIter(g, Replaying(r)) /\ SeekContainer(t)  BY <1>4, IterLeaves
  <2>2. position' \in 1..EndOfFile /\ \A i \in DOMAIN File : i < position' => File[i].at < t
    BY <1>1, <1>4, <2>1, Seeks
  <2>3. Shows(Replaying(r), position')
    BY <1>0, <1>4, <2>2, BeginShows
  <2>4. Replaying(r) \in IterRecord /\ Replaying(r).at = "replay"
    BY <1>0, ReplayingHas
  <2> QED  BY <1>2, <1>4, <2>1, <2>3, <2>4
<1>5. CASE StartCovered(g)
  <2>1. /\ ReadsFrom(g) /\ t # FromStart /\ Covers(t) /\ r.at = "new" /\ scan.by = 0
        /\ scan' = scan
    BY <1>5 DEF StartCovered, IterAt, LockFree
  <2> QED  BY <1>1, <1>4, <2>1, CoveredRows
<1>6. CASE StartScan(g)
  <2>1. SetIter(g, Gone(r, "scan")) /\ r.at = "new" /\ scan'.by = g
    BY <1>6, IterLeaves, ScanStarts DEF StartScan, IterAt
  <2>2. /\ Gone(r, "scan") \in IterRecord /\ Gone(r, "scan").at = "scan"
        /\ Gone(r, "scan").target = t /\ Gone(r, "scan").rows = r.rows
        /\ Gone(r, "scan").replayed = r.replayed /\ Gone(r, "scan").out = r.out
    BY <1>0, GoneHas
  <2>3. Shows(Gone(r, "scan"), position')
    BY <1>0, <2>1, <2>2 DEF Shows
  <2> QED  BY <1>2, <2>1, <2>2, <2>3
<1>7. CASE ScanPacket(g)
  <2>1. iters' = iters /\ scan.by = g /\ scan'.by = g /\ r.at = "scan"
    BY <1>0, <1>7, ScanReads DEF ScanPacket, Scanning, IterAt
  <2>2. Shows(r, position')  BY <1>0, <2>1 DEF Shows
  <2> QED  BY <2>1, <2>2 DEF Shown, IterAt
<1>8. CASE ScanDone(g)
  <2>1. ReadsFrom(g) /\ scan.by = g /\ scan.seen > t /\ scan'.by = 0
    BY <1>8 DEF ScanDone, NoScan
  <2>2. t # FromStart /\ r.at = "scan"
    BY <1>0, <2>1 DEF Scanning, IterAt
  <2> QED  BY <1>4, <2>1, <2>2, ScannedRows
<1>9. CASE Replay(g)
  <2>1. r.at = "replay" /\ scan.by = 0 /\ UNCHANGED <<position, scan>>
    BY <1>9 DEF Replay, IterAt, LockFree
  <2>2. CASE r.rows = {} /\ SetIter(g, Gone(r, "read"))
    <3>1. Gone(r, "read") \in IterRecord /\ Gone(r, "read").at = "read"  BY <1>0, GoneHas
    <3>2. Shows(Gone(r, "read"), position)  BY <1>0, <2>1, <2>2, ReadShows
    <3> QED  BY <1>2, <2>1, <2>2, <3>1, <3>2
  <2>3. ASSUME NEW i \in r.rows, SetIter(g, RowOut(r, i)) PROVE Shown(g)'
    <3>1. RowOut(r, i) \in IterRecord /\ RowOut(r, i).at = "replay"
      BY <1>0, <2>1, RowOutHas
    <3>2. Shows(RowOut(r, i), position)  BY <1>0, <2>1, RowShows
    <3> QED  BY <1>2, <2>1, <2>3, <3>1, <3>2
  <2> QED  BY <1>9, <2>2, <2>3, IterLeaves
<1>10. CASE ReadPacket(g)
  <2>1. r.at = "read" /\ scan.by = 0 /\ scan' = scan /\ position' = position + 1
        /\ position \in DOMAIN File
    BY <1>0, <1>10, FileIs DEF ReadPacket, IterAt, LockFree
  <2>2. CASE Passed(g, position)
    <3>1. SetIter(g, PacketOut(r, position))  BY <1>10, <2>2, IterLeaves
    <3>2. PacketOut(r, position) \in IterRecord /\ PacketOut(r, position).at = "read"
      BY <1>0, <2>1, PacketOutHas
    <3>3. Shows(PacketOut(r, position), position')
      BY <1>0, <2>1, <2>2, PacketShows
    <3> QED  BY <1>2, <2>1, <3>1, <3>2, <3>3
  <2>3. CASE ~Passed(g, position)
    <3>1. iters' = iters  BY <1>10, <2>3, IterLeaves
    <3>2. Shows(r, position')  BY <1>0, <2>1, <2>3, PacketShows
    <3> QED  BY <2>1, <3>1, <3>2 DEF Shown, IterAt
  <2> QED  BY <2>2, <2>3
<1>11. CASE ReadEnd(g)
  <2>1. r.at = "read" /\ scan.by = 0 /\ UNCHANGED <<position, scan>> /\ position = EndOfFile
        /\ SetIter(g, Gone(r, "done"))
    BY <1>11, IterLeaves DEF ReadEnd, IterAt, LockFree
  <2>2. /\ Gone(r, "done") \in IterRecord /\ Gone(r, "done").at = "done"
        /\ Gone(r, "done").target = t
        /\ Gone(r, "done").replayed = r.replayed /\ Gone(r, "done").out = r.out
    BY <1>0, GoneHas
  <2>3. Shows(Gone(r, "done"), position)
    BY <1>0, <2>1, <2>2 DEF Shows
  <2> QED  BY <1>2, <2>1, <2>2, <2>3
<1>12. ~RetireIter(g) /\ ~ScanStopped(g)
  BY DEF RetireIter, ScanStopped
<1> QED  BY <1>3, <1>5, <1>6, <1>7, <1>8, <1>9, <1>10, <1>11, <1>12 DEF IterStep

(* Only the current iterator reads; one that is superseded gives the lock  *)
(* back.                                                                   *)
LEMMA ShownKept ==
  ASSUME AuxInv, AuxNext
  PROVE  (\A g \in DOMAIN iters : CurrentIter(g) => Shown(g))'
<1>0. /\ AuxTypeOK /\ Coverage /\ Scanning /\ FirstIter
      /\ \A g \in DOMAIN iters : CurrentIter(g) => Shown(g)
      /\ Len(iters) \in Nat /\ DOMAIN iters = 1..Len(iters)
  BY DEF AuxInv, AuxTypeOK
<1>1. CASE NewIter
  <2>1. /\ aux_closed' = aux_closed /\ Len(iters') = Len(iters) + 1
    BY <1>0, <1>1, NewOne DEF NewIter
  <2>2. LET n == iters'[Len(iters) + 1] IN
          n.at = "new" /\ n.rows = {} /\ n.replayed = {} /\ n.out = <<>>
    BY <1>0, <1>1, NewOne
  <2>3. ToSet(<<>>) = {} /\ Cardinality({}) = 0 /\ Len(<<>>) = 0
    BY FS_EmptySet DEF ToSet
  <2>4. Shows(iters'[Len(iters) + 1], position')
    BY <2>2, <2>3 DEF Shows
  <2> QED  BY <2>1, <2>2, <2>4 DEF Shown, CurrentIter, IterAt
<1>2. CASE CloseAux \/ CloseAuxContainer
  BY <1>2 DEF CloseAux, CloseAuxContainer, CurrentIter
<1>3. ASSUME NEW g \in DOMAIN iters, IterStep(g), NEW h \in DOMAIN iters', CurrentIter(h)'
      PROVE  Shown(h)'
  <2>1. /\ DOMAIN iters' = DOMAIN iters /\ Len(iters') = Len(iters) /\ aux_closed' = aux_closed
        /\ \A k \in DOMAIN iters : k # g => iters'[k] = iters[k]
    BY <1>0, <1>3, StepKeeps
  <2>2. h \in DOMAIN iters /\ CurrentIter(h) /\ Shown(h)
    BY <1>0, <1>3, <2>1 DEF CurrentIter
  <2>3. CASE h = g
    BY <1>0, <1>3, <2>2, <2>3, OwnStep
  <2>4. CASE h # g
    <3>1. ~CurrentIter(g)  BY <2>2, <2>4 DEF CurrentIter
    <3>2. RetireIter(g) \/ ScanStopped(g)
      BY <1>3, <3>1 DEF IterStep, StartAtBeginning, StartCovered, StartScan, ScanPacket,
                        ScanDone, Replay, ReadPacket, ReadEnd
    <3>3. position' = position /\ (scan' = scan \/ (scan.by = g /\ scan'.by = 0))
      BY <3>2 DEF RetireIter, ScanStopped, NoScan
    <3> QED  BY <2>1, <2>2, <2>4, <3>3 DEF Shown, IterAt
  <2> QED  BY <2>3, <2>4
<1> QED  BY <1>1, <1>2, <1>3 DEF AuxNext

(* The invariant holds in every state: what is taken to be covered is in   *)
(* the index, whatever catch-ups were cut short, and the current iterator  *)
(* lacks nothing of what lies behind it.                                   *)
THEOREM SubtitleInvariant == AuxSpec => []AuxInv
<1>1. AuxInit => AuxInv
  <2> SUFFICES ASSUME AuxInit PROVE AuxInv  OBVIOUS
  <2>1. AuxTypeOK
    <3>1. iters = <<>> /\ Len(iters) = 0 /\ iters \in Seq(IterRecord)
      BY DEF AuxInit
    <3> QED  BY <3>1, FileIs DEF AuxInit, AuxTypeOK, NoScan
  <2>2. Coverage
    <3>1. ~(\E n \in Nat : n < -1)  OBVIOUS
    <3> QED  BY <3>1, FileIs DEF AuxInit, Coverage, Known, Unread, Texts
  <2>3. Scanning /\ DOMAIN iters = {}  BY DEF AuxInit, Scanning, NoScan
  <2>4. FirstIter  BY <2>3 DEF AuxInit, FirstIter
  <2> QED  BY <2>1, <2>2, <2>3, <2>4 DEF AuxInv
<1>2. AuxInv /\ [AuxNext]_auxVars => AuxInv'
  <2> SUFFICES ASSUME AuxInv, [AuxNext]_auxVars PROVE AuxInv'  OBVIOUS
  <2>0. AuxTypeOK /\ Coverage /\ Scanning /\ FirstIter  BY DEF AuxInv
  <2>1. CASE AuxNext
    <3>1. AuxTypeOK'  BY <2>0, <2>1, AuxTypes
    <3>2. Coverage' /\ Scanning' /\ FirstIter'  BY <2>0, <2>1, CoverKept, ScanKept, FirstKept
    <3>3. (\A g \in DOMAIN iters : CurrentIter(g) => Shown(g))'  BY <2>1, ShownKept
    <3> QED  BY <3>1, <3>2, <3>3 DEF AuxInv
  <2>2. CASE UNCHANGED auxVars
    <3>1. UNCHANGED <<iters, position, index, covered, scan, aux_closed>>
      BY <2>2 DEF auxVars
    <3>2. AuxTypeOK'  BY <2>0, <3>1 DEF AuxTypeOK
    <3>3. Coverage'  BY <2>0, <3>1 DEF Coverage, Known
    <3>4. Scanning'  BY <2>0, <3>1 DEF Scanning, Known, IterAt
    <3>5. FirstIter'  BY <2>0, <3>1 DEF FirstIter, CurrentIter, IterAt
    <3>6. (\A g \in DOMAIN iters : CurrentIter(g) => Shown(g))'
      BY <3>1 DEF AuxInv, CurrentIter, Shown, IterAt
    <3> QED  BY <3>2, <3>3, <3>4, <3>5, <3>6 DEF AuxInv
  <2> QED  BY <2>1, <2>2
<1> QED  BY <1>1, <1>2, PTL DEF AuxSpec

(* A seek shows every subtitle on the screen at its target, whatever       *)
(* earlier seeks left unread or half read (AuxiliaryTrack._packet_iter).   *)
THEOREM SubtitlesStayComplete == AuxSpec => [](AuxTypeOK /\ SubtitlesComplete)
<1>1. AuxInv => AuxTypeOK /\ SubtitlesComplete
  <2> SUFFICES ASSUME AuxInv PROVE AuxTypeOK /\ SubtitlesComplete  OBVIOUS
  <2>1. AuxTypeOK  BY DEF AuxInv
  <2>2. ASSUME NEW g \in DOMAIN iters, CurrentIter(g)
        PROVE  LET t == iters[g].target
                   out == ToSet(iters[g].out)
               IN /\ Cardinality(out) = Len(iters[g].out)
                  /\ \A i \in out : File[i].to > t \/ File[i].at >= t - Preroll
                  /\ IterAt(g, "done") => \A i \in DOMAIN File : DueAt(t, File[i]) => i \in out
    <3>1. Shows(iters[g], position)  BY <2>2 DEF AuxInv, Shown
    <3>2. \A i \in DOMAIN File : i < EndOfFile  BY FileIs
    <3> QED  BY <3>1, <3>2 DEF Shows, IterAt, Due
  <2> QED  BY <2>1, <2>2 DEF SubtitlesComplete
<1> QED  BY <1>1, SubtitleInvariant, PTL
=============================================================================
