--------------------------- MODULE PlayerControls ---------------------------
(***************************************************************************)
(* Pause and position in the desktop player: the window's idea             *)
(* (desktop_client/main_window.py), the player widget's (mpv_view.py),     *)
(* mpv's own, which its key bindings change behind both, and the server's. *)
(* mpv's thread reports each change of pause; the report becomes a queued  *)
(* signal, the signal an adoption, and the adoption a task of the window,  *)
(* behind the clicks that came before it.                                  *)
(* Seeks, restarts and the change to local playback cut through all that.  *)
(***************************************************************************)
EXTENDS Integers, Sequences, FiniteSets

CONSTANTS MaxInputs,  \* bound: what the user does
          Spot     \* places in the video, from 1; 0 is none

ASSUME ControlAssumption == MaxInputs \in Nat /\ Spot \subseteq Nat \ {0}

VARIABLES
  window,   \* MainWindow: paused, session, the transition at work
  told,     \* play or pause, what the session's server was told last
  player,   \* MpvView: caller's pause, epoch released, reloading, loaded
  core,     \* mpv: pause, and the latest report MpvView read
  unread,  \* changes of pause that mpv's thread has not passed on yet
  signals,  \* _pause_observed signals queued
  tasks,    \* slots of the window not yet run, in order: toggle, pause, resume
  where,    \* the window's position, the seek it waits for, stability
  at,       \* where mpv really is, 0 while it loads
  history,  \* the place saved, first by an earlier sitting
  inputs      \* what the user did so far

controlVars ==
  <<window, told, player, core, unread, signals, tasks, where, at, history, inputs>>
placeVars == <<where, at, history>>
pauseVars == <<core, unread, signals, tasks>>

ControlTypeOK ==
  /\ window \in [paused : BOOLEAN, session : {"none", "relay", "local"},
                 doing : {"none", "open", "restart", "fallback", "stop", "load", "play"}]
  /\ told \in {"none", "play", "pause"}
  /\ player \in [caller : BOOLEAN, released : BOOLEAN, reloading : BOOLEAN,
                 loaded : BOOLEAN, ready : BOOLEAN]
  /\ core \in [pause : BOOLEAN, seen : BOOLEAN]
  /\ unread \in Seq(BOOLEAN) /\ tasks \in Seq({"toggle", "pause", "resume"}) /\ signals \in Nat
  /\ where \in [shown : Spot \cup {0}, pending : Spot \cup {0}, late : BOOLEAN,
                stable : BOOLEAN]
  /\ at \in Spot \cup {0} /\ history \in Spot \cup {0} /\ inputs \in 0..MaxInputs

ControlInit ==
  /\ window = [paused |-> FALSE, session |-> "none", doing |-> "none"]
  /\ told = "none"
  /\ player = [caller |-> FALSE, released |-> FALSE, reloading |-> FALSE,
               loaded |-> FALSE, ready |-> FALSE]
  /\ core = [pause |-> TRUE, seen |-> TRUE]
  /\ unread = <<>> /\ tasks = <<>> /\ signals = 0
  /\ where = [shown |-> 0, pending |-> 0, late |-> FALSE, stable |-> FALSE]
  /\ at = 0 /\ history \in Spot /\ inputs = 0

Input == inputs < MaxInputs /\ inputs' = inputs + 1
Busy == window.doing # "none"

(* _save_history: only a place that the player is sure of.                 *)
Saved ==
  IF window.session # "none" /\ where.stable /\ where.pending = 0 /\ ~Busy
     /\ ~player.reloading THEN where.shown ELSE history

(* A write of mpv's pause, or what mpv makes of it itself, is reported.    *)
PauseCore(p) ==
  /\ core' = [core EXCEPT !.pause = p]
  /\ unread' = (IF p = core.pause THEN unread ELSE Append(unread, p))

-----------------------------------------------------------------------------
(* Pause.                                                                  *)

(* A bug: the intent is kept for the next release only.                    *)
SetPausedLater(p) ==
  /\ player' = [player EXCEPT !.caller = p]
  /\ UNCHANGED <<core, unread>>

(* set_paused: the hold of an epoch that is not released stays.            *)
SetPaused(p) ==
  /\ player' = [player EXCEPT !.caller = p]
  /\ IF player.released THEN PauseCore(p) ELSE UNCHANGED <<core, unread>>

(* _apply_pause: within a transition the server is not told.               *)
ApplyPause(p, byPlayer) ==
  IF ~Busy /\ window.session = "none"
    THEN UNCHANGED <<window, told, player, core, unread>>
    ELSE /\ window' = [window EXCEPT !.paused = p]
         /\ IF byPlayer THEN UNCHANGED <<player, core, unread>> ELSE SetPaused(p)
         /\ told' = (IF Busy \/ window.session = "local" THEN told
                     ELSE IF p THEN "pause" ELSE "play")

(* What waits for the next turn of the event loop: at most one click and   *)
(* one adoption, as people and mpv are slower than that.                   *)
Adoption == {"pause", "resume"}
NoneWaits(kind) == \A i \in DOMAIN tasks : tasks[i] \notin kind

(* The user clicks: the slot is a task.                                    *)
Click ==
  /\ Input /\ NoneWaits({"toggle"}) /\ tasks' = Append(tasks, "toggle")
  /\ UNCHANGED <<window, told, player, core, unread, signals, placeVars>>

OnPlayPause ==
  /\ tasks # <<>> /\ Head(tasks) = "toggle" /\ tasks' = Tail(tasks)
  /\ ApplyPause(~window.paused, FALSE)
  /\ UNCHANGED <<signals, placeVars, inputs>>

(* A key binding of mpv's own.                                             *)
NativePause ==
  /\ player.loaded /\ Input /\ PauseCore(~core.pause)
  /\ UNCHANGED <<window, told, player, signals, tasks, placeVars>>

(* on_pause, on mpv's thread.                                              *)
Observe ==
  /\ unread # <<>>
  /\ core' = [core EXCEPT !.seen = Head(unread)] /\ unread' = Tail(unread)
  /\ signals' = signals + 1
  /\ UNCHANGED <<window, told, player, tasks, placeVars, inputs>>

(* _adopt_native_pause: the latest report, unless the player itself made   *)
(* mpv pause.                                                              *)
AdoptNativePause ==
  /\ signals > 0 /\ signals' = signals - 1 /\ NoneWaits(Adoption)
  /\ IF ~player.released \/ player.reloading \/ core.seen = player.caller
       THEN UNCHANGED <<player, tasks>>
       ELSE /\ player' = [player EXCEPT !.caller = core.seen]
            /\ tasks' = Append(tasks, IF core.seen THEN "pause" ELSE "resume")
  /\ UNCHANGED <<window, told, core, unread, placeVars, inputs>>

OnPlayerPaused ==
  /\ tasks # <<>> /\ Head(tasks) \in Adoption /\ tasks' = Tail(tasks)
  /\ IF window.paused # (Head(tasks) = "pause")
       THEN ApplyPause(Head(tasks) = "pause", TRUE)
       ELSE UNCHANGED <<window, told, player, core, unread>>
  /\ UNCHANGED <<signals, placeVars, inputs>>

-----------------------------------------------------------------------------
(* Loading. mpv restores its own pause when a file stops.                  *)

(* stop and _retire_stream.                                                *)
StopMpv(caller) ==
  /\ player' = [caller |-> caller, released |-> FALSE, reloading |-> TRUE,
                loaded |-> FALSE, ready |-> FALSE]
  /\ \E p \in BOOLEAN : PauseCore(p)
  /\ at' = 0

(* _load_stream and the load of a local file: held in pause.               *)
Load ==
  /\ player.reloading /\ ~player.loaded
  /\ \/ window.session = "relay" /\ window.doing # "fallback"
     \/ window.doing = "load"
  /\ player' = [player EXCEPT !.loaded = TRUE, !.reloading = window.doing = "load"]
  /\ PauseCore(TRUE)
  /\ UNCHANGED <<window, told, signals, tasks, placeVars, inputs>>

(* mpv's playback-restart (file-loaded, of a local file) comes behind its  *)
(* earlier reports.                                                       *)
Ready ==
  /\ player.loaded /\ ~player.ready /\ unread = <<>> /\ signals = 0
  /\ player' = [player EXCEPT !.ready = TRUE]
  /\ UNCHANGED <<window, told, pauseVars, placeVars, inputs>>

(* _maybe_release_epoch, and the end of play_local: mpv shows the first    *)
(* frame of the place it was asked for.                                    *)
Release ==
  /\ player.ready /\ ~player.released
  /\ player' = [player EXCEPT !.released = TRUE, !.reloading = FALSE]
  /\ PauseCore(player.caller)
  /\ at' \in (IF where.pending # 0 THEN {where.pending} ELSE Spot)
  /\ window' = [window EXCEPT !.doing = IF @ = "load" THEN "none" ELSE @]
  /\ UNCHANGED <<told, signals, tasks, where, history, inputs>>

(* _seek_to_seconds with _arm_pending_seek and prepare_seek.               *)
SeekTo(p) ==
  /\ ~Busy /\ Input
  /\ \/ /\ window.session = "relay"
        /\ StopMpv(player.caller)
     \/ /\ window.session = "local" /\ player.loaded
        /\ UNCHANGED <<player, core, unread, at>>
  /\ where' = [where EXCEPT !.pending = p, !.late = FALSE, !.stable = FALSE]
  /\ UNCHANGED <<window, told, signals, tasks, history>>

(* mpv reaches the target of a seek in a local file.                       *)
Arrive ==
  /\ window.session = "local" /\ where.pending \notin {0, at}
  /\ at' = where.pending
  /\ UNCHANGED <<window, told, player, pauseVars, where, history, inputs>>

-----------------------------------------------------------------------------
(* Transitions.                                                            *)

(* _run_transition saves the place first. A file is chosen (_open_session  *)
(* up to its awaits), with no snapshot; a setting restarts the session     *)
(* with one, and the old stream goes on for a moment; the local fallback   *)
(* stops the player first of all.                                          *)
BeginTransition(kind) ==
  /\ ~Busy /\ Input
  /\ \/ kind = "open" \/ window.session = "relay"
     \/ kind = "stop" /\ window.session = "local"
  /\ window' = [window EXCEPT !.doing = kind,
                              !.paused = IF kind = "open" THEN FALSE ELSE @]
  /\ IF kind = "fallback" THEN StopMpv(FALSE) ELSE UNCHANGED <<player, core, unread, at>>
  /\ history' = Saved
  /\ UNCHANGED <<told, signals, tasks, where>>

(* _teardown_session: the player stops, the session ends. play_local takes *)
(* the window's pause. What these await takes longer than the slots that   *)
(* were queued before need to run.                                         *)
Teardown ==
  /\ window.doing \in {"open", "restart", "fallback", "stop"}
  /\ window.doing = "fallback" => tasks = <<>>
  /\ StopMpv(window.doing = "fallback" /\ window.paused)
  /\ told' = "none"
  /\ window' = [window EXCEPT
       !.session = IF window.doing = "fallback" THEN "local" ELSE "none",
       !.doing = CASE @ = "stop" -> "none" [] @ = "fallback" -> "load" [] OTHER -> "play"]
  /\ where' = [where EXCEPT !.pending = 0, !.late = FALSE, !.stable = FALSE,
                            !.shown = IF window.doing \in {"open", "stop"} THEN 0 ELSE @]
  /\ UNCHANGED <<signals, tasks, history, inputs>>

(* The end of _open_session: the player starts with the window's pause and *)
(* the server is told to play, so that a paused stream fills its buffer.   *)
StartPlayer ==
  /\ window.doing = "play" /\ tasks = <<>>
  /\ window' = [window EXCEPT !.session = "relay", !.doing = "none"]
  /\ player' = [player EXCEPT !.caller = window.paused, !.reloading = TRUE]
  /\ told' = "play"
  /\ where' = [where EXCEPT !.pending = where.shown]
  /\ UNCHANGED <<pauseVars, at, history, inputs>>

-----------------------------------------------------------------------------
(* Position.                                                               *)

(* _on_position: held at the target of a seek until playback is near it,   *)
(* for 15 seconds.                                                         *)
OnPosition(w, pos) ==
  IF Busy \/ (w.pending \notin {0, pos} /\ ~w.late) THEN w
  ELSE [w EXCEPT !.shown = pos, !.pending = 0, !.late = FALSE]

(* A turn of _stats_loop: telemetry first, then the position; the observed *)
(* one is 0 until the new file's first frame.                              *)
StatsTick ==
  /\ player.loaded /\ ~player.reloading
  /\ where' = OnPosition([where EXCEPT !.stable = player.released], at)
  /\ where' # where
  /\ UNCHANGED <<window, told, player, pauseVars, at, history, inputs>>

SeekLate ==
  /\ where.pending # 0 /\ ~where.late
  /\ where' = [where EXCEPT !.late = TRUE]
  /\ UNCHANGED <<window, told, player, pauseVars, at, history, inputs>>

(* _feature_tick, every few seconds.                                       *)
SaveHistory ==
  /\ history' = Saved /\ history' # history
  /\ UNCHANGED <<window, told, player, pauseVars, where, at, inputs>>

ControlStep == Observe \/ AdoptNativePause \/ OnPlayPause \/ OnPlayerPaused

ControlNext ==
  \/ ControlStep
  \/ Click \/ NativePause \/ Load \/ Ready \/ Release \/ Teardown \/ StartPlayer
  \/ Arrive \/ StatsTick \/ SeekLate \/ SaveHistory
  \/ \E p \in Spot : SeekTo(p)
  \/ \E kind \in {"open", "restart", "fallback", "stop"} : BeginTransition(kind)

ControlSpec == ControlInit /\ [][ControlNext]_controlVars

-----------------------------------------------------------------------------
(* When nothing is under way, the window, the player and mpv agree whether *)
(* playback is paused, and a server whose viewer does not pause was told   *)
(* to play last: no key of mpv's own, hold of an epoch, seek or restart    *)
(* leaves one of them behind. And the place saved in the history is never  *)
(* what a stream that still loads reports.                                 *)
ControlsAgree ==
  /\ /\ ~Busy /\ window.session # "none" /\ player.released /\ ~player.reloading
     /\ unread = <<>> /\ signals = 0 /\ tasks = <<>>
     => /\ window.paused = player.caller /\ player.caller = core.pause
        /\ window.session = "relay" /\ ~window.paused => told = "play"
  /\ history # 0
=============================================================================
