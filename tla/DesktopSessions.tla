--------------------------- MODULE DesktopSessions ---------------------------
(***************************************************************************)
(* The desktop client as the owner of server sessions: the transitions     *)
(* that open, restart, stop and replace them, one at a time and the newest *)
(* intent first (desktop_client/playback_state.py), what each transition   *)
(* does to the control client and its session, and the question a teardown *)
(* without an answer leaves behind, which a server's /status has to answer *)
(* before another session is opened (desktop_client/main_window.py,        *)
(* relay_client_core/client.py).                                           *)
(*                                                                         *)
(* A server is what SessionLifecycle promises of it: it lists a session    *)
(* until its native close has returned, and asks for a restart when that   *)
(* close failed. Everything an await can end with is a step of its own;    *)
(* what runs between two awaits is one step.                               *)
(***************************************************************************)
EXTENDS Integers

CONSTANTS Hosts,        \* the addresses a user can connect to
          NoHost,       \* none of them
          MaxSessions,  \* bound: open_session requests
          MaxIntents,   \* bound: what the user asks for
          MaxChanges,   \* bound: changes of a playback setting
          MaxFaults     \* bound: lost connections, restarts of a server

ASSUME DesktopAssumption ==
  /\ NoHost \notin Hosts
  /\ MaxSessions \in Nat /\ MaxIntents \in Nat
  /\ MaxChanges \in Nat /\ MaxFaults \in Nat

Session == 1..MaxSessions

VARIABLES
  running,     \* the transition that holds the lock
  queued,      \* the newest transition, not yet entered
  client,      \* the control client: MainWindow.client
  shown,       \* _session_source: nothing, a relay session or a local file
  unreleased,  \* _unreleased_session: the session to ask about, and its host
  snapshot,    \* is there a _restart_snapshot?
  window_closing,  \* the window is closing
  closed,      \* the application has ended
  at_server,   \* what each session is to the server that has it
  latch,       \* restart_required of each server
  setting,     \* a playback setting, by the number of its changes
  intents, faults,
  excused,     \* sessions the user was told about: "Server cleanup not confirmed"
  stale        \* a change found the session playing and is not applied yet

transitionVars == <<running, queued>>
windowVars == <<shown, snapshot, window_closing, closed>>
questionVars == <<unreleased, excused>>
atServerVars == <<at_server, latch>>
settingVars == <<setting, stale>>
boundVars == <<intents, faults>>
sessionsVars == <<transitionVars, client, windowVars, questionVars, atServerVars,
                  settingVars, boundVars>>

Opening == {"open", "restart", "autoplay"}
Operation == Opening \cup {"advance", "stop", "connect", "replace", "fallback", "close"}
Place == {"choosing", "asking", "reconnecting", "confirming", "replacing",
          "sending", "opening", "preparing", "starting", "connecting",
          "leaving", "dropping", "loading", "done"}

Idle == [op |-> "none", at |-> "idle", cancelled |-> FALSE, ending |-> FALSE]
NoClient == [host |-> NoHost, up |-> FALSE, sess |-> 0, named |-> FALSE,
             timer |-> FALSE]
NoQuestion == [sess |-> 0, host |-> NoHost]

SessionsTypeOK ==
  /\ running \in {Idle} \cup [op : Operation, at : Place, cancelled : BOOLEAN,
                              ending : BOOLEAN]
  /\ queued \in Operation \cup {"none"}
  /\ client \in {NoClient} \cup [host : Hosts, up : BOOLEAN, sess : 0..MaxSessions,
                                 named : BOOLEAN, timer : BOOLEAN]
  /\ client.named => client.sess # 0
  /\ unreleased \in {NoQuestion} \cup [sess : Session, host : Hosts]
  /\ shown \in {"none", "relay", "local"}
  /\ shown = "relay" => client.named
  /\ snapshot \in BOOLEAN /\ window_closing \in BOOLEAN /\ closed \in BOOLEAN
  /\ at_server \in [Session -> [host : Hosts \cup {NoHost},
                             state : {"none", "asked", "refused", "held",
                                      "failed", "gone"}]]
  /\ latch \in [Hosts -> BOOLEAN]
  /\ setting \in 0..MaxChanges /\ stale \in BOOLEAN
  /\ intents \in 0..MaxIntents /\ faults \in 0..MaxFaults
  /\ excused \subseteq Session

SessionsInit ==
  /\ running = Idle /\ queued = "none"
  /\ client = NoClient
  /\ shown = "none" /\ snapshot = FALSE /\ window_closing = FALSE /\ closed = FALSE
  /\ unreleased = NoQuestion /\ excused = {}
  /\ at_server = [s \in Session |-> [host |-> NoHost, state |-> "none"]]
  /\ latch = [h \in Hosts |-> FALSE]
  /\ setting = 0 /\ stale = FALSE
  /\ intents = 0 /\ faults = 0

-----------------------------------------------------------------------------
(* Transitions                                                             *)

Transitioning == running # Idle

(* A new intent cancels the transition before it, once. One that has not   *)
(* entered yet ends there; one at work is told at its next await.          *)
Run(op) ==
  /\ queued' = op
  /\ running' = IF Transitioning THEN [running EXCEPT !.cancelled = TRUE] ELSE running

(* Where an open goes on once no question is in the way.                   *)
Ready(c) == IF c = NoClient THEN "done" ELSE IF c.up THEN "sending" ELSE "replacing"

(* Where a transition goes on after its teardown. A cancelled one, and one *)
(* that tears down because it failed, ends.                                *)
AfterTeardown(r, c, u) ==
  LET asks == c # NoClient /\ u # NoQuestion IN
  IF r.ending \/ r.cancelled THEN "done"
  ELSE IF asks /\ (r.op \in Opening \/ (r.op = "stop" /\ ~window_closing)) THEN "confirming"
  ELSE IF r.op \in Opening THEN Ready(c)
  ELSE IF r.op = "connect" THEN "leaving" ELSE "done"

(* A bug: the picture of the session stays up.                             *)
TeardownKeepsShown(r) ==
  /\ UNCHANGED shown
  /\ running' = [r EXCEPT !.at = IF client.sess # 0 THEN "asking"
                                 ELSE AfterTeardown(r, client, unreleased)]

(* The part of a teardown before its first await: the player stops. Only a *)
(* client that has asked for a session has anything to ask the server.     *)
TeardownSession(r) ==
  /\ shown' = "none"
  /\ running' = [r EXCEPT !.at = IF client.sess # 0 THEN "asking"
                                 ELSE AfterTeardown(r, client, unreleased)]

GoOn(place) == running' = [running EXCEPT !.at = place]

(* The lock is free: the newest transition enters.                         *)
Enter(op) ==
  LET r == [Idle EXCEPT !.op = op, !.at = "done"] IN
  /\ ~Transitioning /\ queued = op
  /\ queued' = "none"
  /\ CASE op = "open" -> IF window_closing THEN running' = r /\ UNCHANGED shown ELSE TeardownSession(r)
       [] op \in {"restart", "stop", "close"} -> TeardownSession(r)
       [] op = "advance" -> /\ running' = [r EXCEPT !.at = "choosing"]
                            /\ UNCHANGED shown
       [] op = "connect" -> IF client = NoClient
                              THEN /\ running' = [r EXCEPT !.at = "connecting"]
                                   /\ UNCHANGED shown
                              ELSE TeardownSession(r)
       [] op = "replace" -> /\ running' = [r EXCEPT !.at = "replacing"]
                            /\ UNCHANGED shown
       [] op = "fallback" ->
            /\ running' = [r EXCEPT !.at = IF shown # "relay" THEN "done"
                                           ELSE IF client = NoClient THEN "loading"
                                           ELSE "dropping"]
            /\ UNCHANGED shown
  /\ UNCHANGED <<client, snapshot, window_closing, closed, questionVars, atServerVars,
                 settingVars, boundVars>>

(* advance() looks for the next file of the folder, and stops if there is  *)
(* none.                                                                   *)
Choose ==
  /\ running.at = "choosing" /\ ~running.cancelled
  /\ \E op \in {"autoplay", "stop"} : TeardownSession([running EXCEPT !.op = op])
  /\ UNCHANGED <<queued, client, snapshot, window_closing, closed, questionVars,
                 atServerVars, settingVars, boundVars>>

(* The cancellation arrives at an await; the transition tears down. A      *)
(* teardown that is at work is shielded. A cancelled RelayClient.teardown  *)
(* has begun to close the client.                                          *)
Cancelled ==
  /\ running.cancelled /\ running.at \notin {"asking", "reconnecting", "done"}
  /\ client' = IF running.at \in {"leaving", "dropping"}
                 THEN [client EXCEPT !.up = FALSE] ELSE client
  /\ TeardownSession([running EXCEPT !.ending = TRUE])
  /\ UNCHANGED <<queued, snapshot, window_closing, closed, questionVars, atServerVars,
                 settingVars, boundVars>>

(* The lock is given up. A start or a restart that was not superseded      *)
(* forgets the snapshot.                                                   *)
Finish ==
  /\ running.at = "done"
  /\ running' = Idle
  /\ snapshot' = (snapshot /\ ~(running.op \in {"open", "restart"} /\ queued = "none"))
  /\ UNCHANGED <<queued, client, shown, window_closing, closed, questionVars, atServerVars,
                 settingVars, boundVars>>

-----------------------------------------------------------------------------
(* The teardown of a session (_teardown_impl)                              *)

Fresh(h) == [NoClient EXCEPT !.host = h, !.up = TRUE]
Shut(c) == [NoClient EXCEPT !.host = c.host]

(* The server answers "closed": its native close has returned.             *)
TeardownAcknowledged ==
  /\ running.at = "asking" /\ client.up
  /\ at_server[client.sess].state = "gone"
  /\ IF window_closing THEN /\ client' = NoClient
                     /\ GoOn(AfterTeardown(running, NoClient, unreleased))
                ELSE client' = Shut(client) /\ GoOn("reconnecting")
  /\ UNCHANGED <<queued, windowVars, questionVars, atServerVars, settingVars, boundVars>>

(* No answer: the connection is lost or closed, or 30 seconds are over. A  *)
(* session the client can name is remembered.                              *)
TeardownUnconfirmed ==
  /\ running.at = "asking" /\ client.named /\ ~window_closing
  /\ unreleased' = [sess |-> client.sess, host |-> client.host]
  /\ client' = Shut(client) /\ GoOn("reconnecting")
  /\ UNCHANGED <<queued, windowVars, excused, atServerVars, settingVars, boundVars>>

(* Two bugs: an answer is waited for without a timeout; while the window    *)
(* closes.                                                                 *)
HardStopIfLost ==
  /\ running.at = "asking" /\ ~client.up
  /\ excused' = excused \cup {client.sess}
  /\ client' = NoClient
  /\ GoOn(AfterTeardown(running, NoClient, unreleased))
  /\ UNCHANGED <<queued, windowVars, unreleased, atServerVars, settingVars, boundVars>>

HardStopWhileOpen ==
  /\ running.at = "asking" /\ ~window_closing
  /\ excused' = excused \cup {client.sess}
  /\ client' = NoClient
  /\ GoOn(AfterTeardown(running, NoClient, unreleased))
  /\ UNCHANGED <<queued, windowVars, unreleased, atServerVars, settingVars, boundVars>>

(* One it cannot name, or whose server asked for a restart, or whose local *)
(* side did not close: the user is told, and has to connect by hand.       *)
HardStop ==
  /\ running.at = "asking"
  /\ excused' = excused \cup {client.sess}
  /\ client' = NoClient
  /\ GoOn(AfterTeardown(running, NoClient, unreleased))
  /\ UNCHANGED <<queued, windowVars, unreleased, atServerVars, settingVars, boundVars>>

(* A session has its connection for itself: the next needs a fresh one.    *)
Reconnect ==
  /\ running.at = "reconnecting"
  /\ \E c \in {Fresh(client.host), NoClient} :
       client' = c /\ GoOn(AfterTeardown(running, c, unreleased))
  /\ UNCHANGED <<queued, windowVars, questionVars, atServerVars, settingVars, boundVars>>

-----------------------------------------------------------------------------
(* The question (_confirm_previous_release, wait_session_released)         *)

Listed(s, h) == at_server[s].host = h /\ at_server[s].state \in {"asked", "held"}

(* A bug: any answer but a restart latch lets the next session open.       *)
ConfirmedUnread ==
  /\ running.at = "confirming" /\ ~running.cancelled
  /\ ~latch[client.host]
  /\ unreleased' = IF client.host = unreleased.host THEN NoQuestion ELSE unreleased
  /\ GoOn(IF running.op \in Opening THEN Ready(client)
          ELSE IF client.up THEN "done" ELSE "replacing")
  /\ UNCHANGED <<queued, client, windowVars, excused, atServerVars, settingVars, boundVars>>

(* /status no longer lists the session and asks for no restart. Only the   *)
(* server that held it settles the question.                               *)
Confirmed ==
  /\ running.at = "confirming" /\ ~running.cancelled
  /\ ~latch[client.host] /\ ~Listed(unreleased.sess, client.host)
  /\ unreleased' = IF client.host = unreleased.host THEN NoQuestion ELSE unreleased
  /\ GoOn(IF running.op \in Opening THEN Ready(client)
          ELSE IF client.up THEN "done" ELSE "replacing")
  /\ UNCHANGED <<queued, client, windowVars, excused, atServerVars, settingVars, boundVars>>

(* Still listed after 60 seconds, a restart required, an answer that cannot *)
(* be read, a request that failed: the connection is given up and the      *)
(* question stays.                                                         *)
NotConfirmed ==
  /\ running.at = "confirming" /\ ~running.cancelled
  /\ client' = NoClient
  /\ GoOn("done")
  /\ UNCHANGED <<queued, windowVars, questionVars, atServerVars, settingVars, boundVars>>

-----------------------------------------------------------------------------
(* Connections (_replace_lost_client, _connect)                            *)

(* A lost connection is replaced, or given up after the last delay; when   *)
(* the window closes meanwhile it stays as it is.                          *)
Replace ==
  /\ running.at = "replacing" /\ ~running.cancelled
  /\ \E c \in {Fresh(client.host), NoClient} \cup (IF window_closing THEN {client} ELSE {}) :
       /\ client' = c
       /\ GoOn(IF running.op \in Opening /\ c # NoClient THEN "sending" ELSE "done")
  /\ UNCHANGED <<queued, windowVars, questionVars, atServerVars, settingVars, boundVars>>

Connect ==
  /\ running.at = "connecting" /\ ~running.cancelled
  /\ \E c \in {Fresh(h) : h \in Hosts} \cup {NoClient} : client' = c
  /\ GoOn("done")
  /\ UNCHANGED <<queued, windowVars, questionVars, atServerVars, settingVars, boundVars>>

DisconnectClient ==
  /\ running.at = "leaving" /\ ~running.cancelled
  /\ client' = NoClient
  /\ GoOn("done")
  /\ UNCHANGED <<queued, windowVars, questionVars, atServerVars, settingVars, boundVars>>

-----------------------------------------------------------------------------
(* Opening a session (_open_session)                                       *)

SendOpen(s) ==
  /\ running.at = "sending" /\ ~running.cancelled /\ client.up
  /\ at_server[s].state = "none" /\ \A t \in 1..s - 1 : at_server[t].state # "none"
  /\ at_server' = [at_server EXCEPT ![s] = [host |-> client.host, state |-> "asked"]]
  /\ client' = [client EXCEPT !.sess = s]
  /\ stale' = FALSE
  /\ GoOn("opening")
  /\ UNCHANGED <<queued, windowVars, questionVars, latch, setting, boundVars>>

(* The source cannot be opened, or the connection cannot be written to.    *)
NotSent ==
  /\ running.at = "sending" /\ ~running.cancelled
  /\ TeardownSession([running EXCEPT !.ending = TRUE])
  /\ UNCHANGED <<queued, client, snapshot, window_closing, closed, questionVars,
                 atServerVars, settingVars, boundVars>>

SessionOpened ==
  /\ running.at = "opening" /\ ~running.cancelled /\ client.up
  /\ at_server[client.sess].state \in {"held", "failed", "gone"}
  /\ client' = [client EXCEPT !.named = TRUE]
  /\ GoOn("preparing")
  /\ UNCHANGED <<queued, windowVars, questionVars, atServerVars, settingVars, boundVars>>

(* Attachments, media connections, the first seek or the uplink; then the  *)
(* player is started.                                                      *)
StartPlayer ==
  /\ running.at = "preparing" /\ ~running.cancelled
  /\ shown' = "relay"
  /\ GoOn("starting")
  /\ UNCHANGED <<queued, client, snapshot, window_closing, closed, questionVars,
                 atServerVars, settingVars, boundVars>>

Play ==
  /\ running.at = "starting" /\ ~running.cancelled /\ client.up
  /\ GoOn("done")
  /\ UNCHANGED <<queued, client, windowVars, questionVars, atServerVars,
                 settingVars, boundVars>>

(* An error reply, a lost connection, a timeout, a file that fails: what   *)
(* the server may have built is torn down like any session.                *)
OpenFails ==
  /\ running.at \in {"opening", "preparing", "starting"} /\ ~running.cancelled
  /\ TeardownSession([running EXCEPT !.ending = TRUE])
  /\ UNCHANGED <<queued, client, snapshot, window_closing, closed, questionVars,
                 atServerVars, settingVars, boundVars>>

-----------------------------------------------------------------------------
(* Playing the original file without the server (_fallback)                *)

(* Nothing replaces the session, so an unconfirmed teardown does not stop  *)
(* it; the session is remembered if it can be named.                       *)
Drop ==
  /\ running.at = "dropping" /\ ~running.cancelled
  /\ \/ /\ client.up /\ at_server[client.sess].state = "gone"
        /\ UNCHANGED questionVars
     \/ /\ client.named
        /\ unreleased' = [sess |-> client.sess, host |-> client.host]
        /\ UNCHANGED excused
     \/ /\ excused' = excused \cup {client.sess}
        /\ UNCHANGED unreleased
  /\ client' = NoClient
  /\ shown' = "local"
  /\ GoOn("loading")
  /\ UNCHANGED <<queued, snapshot, window_closing, closed, atServerVars, settingVars, boundVars>>

PlayLocal ==
  /\ running.at = "loading" /\ ~running.cancelled
  /\ \/ GoOn("done") /\ UNCHANGED shown
     \/ TeardownSession([running EXCEPT !.ending = TRUE])
  /\ UNCHANGED <<queued, client, snapshot, window_closing, closed, questionVars,
                 atServerVars, settingVars, boundVars>>

-----------------------------------------------------------------------------
(* What the user asks for, and what happens by itself                      *)

(* A file is activated (only with a client), Stop, Connect, the fallback   *)
(* button, the window's close.                                             *)
Intend(op) ==
  /\ op \in {"open", "stop", "connect", "fallback", "close"}
  /\ intents < MaxIntents /\ ~closed
  /\ op = "open" => client # NoClient
  /\ op = "close" => ~window_closing
  /\ intents' = intents + 1
  /\ snapshot' = (snapshot /\ op \notin {"open", "stop"})
  /\ window_closing' = (window_closing \/ op = "close")
  /\ Run(op)
  /\ UNCHANGED <<client, shown, closed, questionVars, atServerVars, settingVars, faults>>

(* A bug: a change in the middle of a transition is left to it.            *)
ChangeSettingWhenQuiet ==
  /\ setting < MaxChanges /\ ~closed
  /\ setting' = setting + 1
  /\ stale' = (stale \/ shown = "relay")
  /\ IF ~Transitioning /\ shown = "relay"
       THEN snapshot' = TRUE /\ Run("restart")
       ELSE UNCHANGED <<snapshot, transitionVars>>
  /\ UNCHANGED <<client, shown, window_closing, closed, questionVars, atServerVars, boundVars>>

(* A setting that is fixed when a session opens: a stream that plays, or   *)
(* one a restart is bringing back, is opened again.                        *)
ChangeSetting ==
  /\ setting < MaxChanges /\ ~closed
  /\ setting' = setting + 1
  /\ stale' = (stale \/ shown = "relay")
  /\ IF snapshot \/ shown = "relay"
       THEN snapshot' = TRUE /\ Run("restart")
       ELSE UNCHANGED <<snapshot, transitionVars>>
  /\ UNCHANGED <<client, shown, window_closing, closed, questionVars, atServerVars, boundVars>>

(* The player has reached the end of the file.                             *)
EndOfFile ==
  /\ shown # "none" /\ ~Transitioning /\ ~window_closing /\ intents < MaxIntents
  /\ intents' = intents + 1
  /\ Run("advance")
  /\ UNCHANGED <<client, windowVars, questionVars, atServerVars, settingVars, faults>>

(* The player reports a failure, which stops the session.                  *)
PlaybackFails ==
  /\ shown # "none" /\ ~window_closing /\ faults < MaxFaults
  /\ faults' = faults + 1
  /\ snapshot' = FALSE
  /\ Run("stop")
  /\ UNCHANGED <<client, shown, window_closing, closed, questionVars, atServerVars,
                 settingVars, intents>>

(* A bug: the session is left to its media connections.                    *)
ControlLostUntimed ==
  /\ client' = [client EXCEPT !.up = FALSE]
  /\ IF ~window_closing /\ ~Transitioning /\ shown = "none" THEN Run("replace")
     ELSE UNCHANGED transitionVars

(* The control connection ends by itself. An idle client replaces it; a    *)
(* session gets a few seconds to fail by itself.                           *)
ControlLost ==
  /\ IF window_closing THEN client' = [client EXCEPT !.up = FALSE] /\ UNCHANGED transitionVars
     ELSE IF shown = "relay"
       THEN client' = [client EXCEPT !.up = FALSE, !.timer = TRUE]
            /\ UNCHANGED transitionVars
     ELSE /\ client' = [client EXCEPT !.up = FALSE]
          /\ IF ~Transitioning /\ shown = "none" THEN Run("replace")
             ELSE UNCHANGED transitionVars

LoseConnection ==
  /\ client.up /\ faults < MaxFaults
  /\ faults' = faults + 1
  /\ ControlLost
  /\ UNCHANGED <<windowVars, questionVars, atServerVars, settingVars, intents>>

(* _fail_orphaned_session, for the client it was set up for.               *)
GraceEnds ==
  /\ client.timer
  /\ client' = [client EXCEPT !.timer = FALSE]
  /\ IF ~window_closing /\ shown = "relay" THEN snapshot' = FALSE /\ Run("stop")
     ELSE UNCHANGED <<snapshot, transitionVars>>
  /\ UNCHANGED <<shown, window_closing, closed, questionVars, atServerVars, settingVars, boundVars>>

(* The close transition has ended or was superseded: the client is closed  *)
(* and the application ends.                                               *)
CloseReady ==
  /\ window_closing /\ ~closed /\ queued # "close" /\ running.op # "close"
  /\ closed' = TRUE
  /\ client' = NoClient /\ running' = Idle /\ queued' = "none" /\ shown' = "none"
  /\ UNCHANGED <<snapshot, window_closing, questionVars, atServerVars, settingVars, boundVars>>

-----------------------------------------------------------------------------
(* The servers                                                             *)

(* A request on a connection that is lost may never arrive.                *)
RequestLost(s) ==
  /\ at_server[s].state = "asked" /\ ~(client.sess = s /\ client.up)
  /\ at_server' = [at_server EXCEPT ![s].state = "gone"]
  /\ UNCHANGED <<transitionVars, client, windowVars, questionVars, latch,
                 settingVars, boundVars>>

ServerOpens(s) ==
  /\ at_server[s].state = "asked"
  /\ at_server' = [at_server EXCEPT ![s].state =
                  IF latch[at_server[s].host] THEN "refused" ELSE "held"]
  /\ UNCHANGED <<transitionVars, client, windowVars, questionVars, latch,
                 settingVars, boundVars>>

(* The native close returns, or fails: /status lists the session no more   *)
(* and in the same step asks for a restart.                                *)
ServerReleases(s) ==
  /\ at_server[s].state = "held"
  /\ \/ at_server' = [at_server EXCEPT ![s].state = "gone"] /\ UNCHANGED latch
     \/ /\ at_server' = [at_server EXCEPT ![s].state = "failed"]
        /\ latch' = [latch EXCEPT ![at_server[s].host] = TRUE]
  /\ UNCHANGED <<transitionVars, client, windowVars, questionVars, settingVars, boundVars>>

(* A restart takes everything native with it, and every connection.        *)
ServerRestarts(h) ==
  /\ faults < MaxFaults
  /\ faults' = faults + 1
  /\ at_server' = [s \in Session |-> IF at_server[s].host = h /\ at_server[s].state # "refused"
                                    THEN [at_server[s] EXCEPT !.state = "gone"]
                                    ELSE at_server[s]]
  /\ latch' = [latch EXCEPT ![h] = FALSE]
  /\ IF client.up /\ client.host = h THEN ControlLost
     ELSE UNCHANGED <<client, transitionVars>>
  /\ UNCHANGED <<windowVars, questionVars, settingVars, intents>>

-----------------------------------------------------------------------------
TransitionProceeds ==
  \/ Choose \/ Cancelled \/ Finish
  \/ TeardownAcknowledged \/ TeardownUnconfirmed \/ HardStop \/ Reconnect
  \/ Confirmed \/ NotConfirmed
  \/ Replace \/ Connect \/ DisconnectClient
  \/ \E s \in Session : SendOpen(s)
  \/ NotSent \/ SessionOpened \/ StartPlayer \/ Play \/ OpenFails
  \/ Drop \/ PlayLocal

SessionsNext ==
  \/ \E op \in Operation : Enter(op)
  \/ TransitionProceeds
  \/ \E op \in Operation : Intend(op)
  \/ ChangeSetting \/ EndOfFile \/ PlaybackFails
  \/ LoseConnection \/ GraceEnds \/ CloseReady
  \/ \E s \in Session : RequestLost(s) \/ ServerOpens(s) \/ ServerReleases(s)
  \/ \E h \in Hosts : ServerRestarts(h)

SessionsSpec == SessionsInit /\ [][SessionsNext]_sessionsVars

(* Every await of a transition has a timeout, the event loop turns, timers *)
(* fire. Nothing is assumed of the user or of a server.                    *)
SessionsFairSpec ==
  /\ SessionsSpec
  /\ WF_sessionsVars(\E op \in Operation : Enter(op))
  /\ WF_sessionsVars(TransitionProceeds)
  /\ WF_sessionsVars(GraceEnds) /\ WF_sessionsVars(CloseReady)

-----------------------------------------------------------------------------
(* Properties                                                              *)

Holding == {"held", "failed"}

(* A server never holds two sessions of this client natively, except for   *)
(* one the user was told about and connected again by hand: what           *)
(* _confirm_previous_release stands in front of every open_session for.    *)
OneOwner ==
  \A s, t \in Session \ excused :
    s # t /\ at_server[s].host = at_server[t].host /\ at_server[s].state \in Holding
      => at_server[t].state \notin Holding

(* Once nothing is in transition, a session that was playing when a        *)
(* playback setting changed is not playing with the old one: superseded    *)
(* restarts have torn it down or opened it again.                          *)
SettingApplied ==
  ~Transitioning /\ queued = "none" /\ shown = "relay" /\ ~window_closing => ~stale

(* A change of a setting with nothing playing and nothing in transition    *)
(* starts nothing ("nothing to do if idle", on_fit_mode_changed).          *)
IdleSettingsInert ==
  [][setting' # setting /\ ~Transitioning /\ queued = "none" /\ shown = "none"
       => queued' = "none"]_sessionsVars

(* Every transition ends, or the one that superseded it does: again and    *)
(* again there is none.                                                    *)
TransitionsEnd == []<>(~Transitioning /\ queued = "none")

(* A session whose control connection is lost does not stay on the screen, *)
(* whether or not its media connections notice (_on_control_lost).         *)
LostSessionEnds == []<>(shown = "relay" => client.up)

(* A window that is closed ends the application: window_closing is never   *)
(* taken back.                                                             *)
WindowCloses == []<>(window_closing => closed)
=============================================================================
