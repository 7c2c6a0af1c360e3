------------------------------ MODULE HdrSurface ------------------------------
(***************************************************************************)
(* The surface a video is drawn on (desktop_client/mpv_view.py): mpv's     *)
(* render context lives on the player widget, or on an HDR surface over it *)
(* (hdr_view.py, hdr_d3d11.py), and moves between the two only while mpv   *)
(* plays nothing, before a load. While mpv stops and loads, the picture is *)
(* frozen: with zero-copy decoding a frame of a stopped decoder must not   *)
(* be drawn.                                                               *)
(***************************************************************************)
EXTENDS Integers

CONSTANTS AutoHdr,     \* does the compositor switch to HDR in fullscreen?
          MaxLoads,    \* bound: plays at work at once
          MaxTurns,    \* bound: what the user and the display do
          MaxFailures  \* bound: HDR surfaces that fail by themselves

ASSUME SurfaceAssumption ==
  /\ AutoHdr \in BOOLEAN
  /\ MaxLoads \in Nat /\ MaxTurns \in Nat /\ MaxFailures \in Nat

VARIABLES
  load,      \* each play's coroutine: its kind and place, whether the generation it
             \* remembers is the present one, and whether a seek came
  playing,   \* the newest play (_task or _local_playback), 0 for none
  reloading, \* _reloading
  ctx, presenter, broken, \* where mpv's context is, _presenter, _presenter_broken
  stale, asked,           \* _hdr_stale_reported; hdr_surface_stale to be handled
  idleCheck, \* _release_surface_if_idle is posted
  display,   \* the screen: its own HDR setting, what it reads, fullscreen, shown,
             \* the setting of the player, armed and refused waits for a switch
  picture,   \* mpv: has it a file, and is its frame of that ("live") or of one before?
  restarts,  \* playback-restart events on their way: of this file, of older ones
  freeze,    \* _frozen; is _thaw_entry the file there is?
  torn,      \* a context was freed under a file that played
  turns, failures

loadVars == <<load, playing, reloading>>
surfaceVars == <<ctx, presenter, broken, torn>>
askVars == <<stale, asked, idleCheck>>
mpvVars == <<picture, restarts, freeze>>
hdrVars == <<loadVars, surfaceVars, askVars, display, mpvVars, turns, failures>>

Loads == 1..MaxLoads
NoLoad == [kind |-> "relay", at |-> "none", meant |-> FALSE, again |-> FALSE]

SurfaceTypeOK ==
  /\ load \in [Loads -> [kind : {"relay", "local"},
                        at : {"none", "settle", "starting", "waiting", "playing", "gone"},
                        meant : BOOLEAN, again : BOOLEAN]]
  /\ playing \in 0..MaxLoads /\ reloading \in BOOLEAN
  /\ ctx \in {"none", "widget", "presenter"}
  /\ presenter \in [state : {"none", "starting", "ready", "broken"}, visible : BOOLEAN]
  /\ broken \in BOOLEAN /\ stale \in BOOLEAN /\ asked \in BOOLEAN /\ idleCheck \in BOOLEAN
  /\ display \in [own : BOOLEAN, hdr : BOOLEAN, full : BOOLEAN, shown : BOOLEAN,
                  enabled : BOOLEAN, armed : BOOLEAN, refused : BOOLEAN]
  /\ picture \in [file : BOOLEAN, frame : {"none", "live", "old"}]
  /\ restarts \subseteq {"this", "older"}
  /\ freeze \in [on : BOOLEAN, thaws : BOOLEAN] /\ torn \in BOOLEAN
  /\ turns \in 0..MaxTurns /\ failures \in 0..MaxFailures

SurfaceInit ==
  /\ load = [l \in Loads |-> NoLoad] /\ playing = 0
  /\ reloading = FALSE
  /\ ctx = "widget" /\ presenter = [state |-> "none", visible |-> FALSE]
  /\ broken = FALSE /\ stale = FALSE /\ asked = FALSE /\ idleCheck = FALSE
  /\ \E own \in BOOLEAN :
       display = [own |-> own, hdr |-> own, full |-> FALSE, shown |-> TRUE,
                  enabled |-> TRUE, armed |-> FALSE, refused |-> FALSE]
  /\ picture = [file |-> FALSE, frame |-> "none"] /\ restarts = {}
  /\ freeze = [on |-> FALSE, thaws |-> FALSE] /\ torn = FALSE
  /\ turns = 0 /\ failures = 0

LoadAt(l, place) == load[l].at = place
OnPresenter == ctx = "presenter"
Turn == turns < MaxTurns /\ turns' = turns + 1

(* _wanted_surface, of an HDR video: on an HDR screen, unless its HDR is   *)
(* about to go with fullscreen, or where the compositor is to switch.      *)
SurfaceWanted(d) ==
  /\ d.enabled /\ ~broken
  /\ IF d.hdr THEN d.full \/ ~AutoHdr \/ d.own
              ELSE d.full /\ AutoHdr /\ ~d.refused
Awaited(d) == SurfaceWanted(d) /\ ~d.hdr

(* _follow_auto_hdr                                                        *)
Follow(d, presents) ==
  [d EXCEPT !.armed = Awaited(d) /\ (presents \/ @)]

-----------------------------------------------------------------------------
(* Plays, seeks and stops                                                  *)

(* What stop(), _retire_stream and with them every load do to mpv: the     *)
(* picture freezes first, and the frame is one of a stopped decoder. All   *)
(* that remembers the generation is out of date.                           *)
Retire ==
  /\ reloading' = TRUE
  /\ freeze' = [on |-> TRUE, thaws |-> FALSE]
  /\ picture' = [file |-> FALSE,
                 frame |-> IF picture.frame = "live" THEN "old" ELSE picture.frame]
  /\ restarts' = IF restarts = {} THEN {} ELSE {"older"}
OutOfDate(L) == [l \in Loads |-> [L[l] EXCEPT !.meant = FALSE]]

(* stop() ends the play there was: its task is cancelled; one of a local   *)
(* file ends with the future it waits for, or finds that it is not meant.  *)
PlayEnded(l) ==
  IF load[l].kind = "relay" \/ load[l].at \in {"waiting", "playing"}
    THEN [load[l] EXCEPT !.at = IF @ = "none" THEN @ ELSE "gone"] ELSE load[l]
AllEnded == OutOfDate([l \in Loads |-> PlayEnded(l)])

Play(kind, l) == \* as coroutine l, one that is not at work
  /\ load[l].at \in {"none", "gone"}
  /\ \A k \in 1..l - 1 : ~(load[k].at \in {"none", "gone"})
  /\ Retire
  /\ load' = [AllEnded EXCEPT ![l] = [kind |-> kind, at |-> "settle",
                                      meant |-> TRUE, again |-> FALSE]]
  /\ playing' = l
  /\ display' = [display EXCEPT !.armed = FALSE]
  /\ idleCheck' = (presenter.state # "none")

StartPlay(kind) ==
  /\ Turn /\ \E l \in Loads : Play(kind, l)
  /\ UNCHANGED <<surfaceVars, stale, asked, failures>>

StopPlay ==
  /\ playing # 0 /\ Turn
  /\ Retire /\ load' = AllEnded /\ playing' = 0
  /\ display' = [display EXCEPT !.armed = FALSE]
  /\ idleCheck' = (presenter.state # "none")
  /\ UNCHANGED <<surfaceVars, stale, asked, failures>>

(* prepare_seek; the new epoch's first packet has _consume load it.        *)
Prepare ==
  /\ playing # 0 /\ load[playing].kind = "relay"
  /\ Retire
  /\ load' = [OutOfDate(load) EXCEPT ![playing] =
                IF @.at = "playing" THEN [@ EXCEPT !.at = "settle"]
                                    ELSE [@ EXCEPT !.again = TRUE]]
  /\ UNCHANGED playing

Seek ==
  /\ Turn /\ Prepare
  /\ UNCHANGED <<surfaceVars, askVars, display, failures>>

(* The epoch that a seek made meanwhile is loaded over the one before.     *)
Again(l) ==
  /\ LoadAt(l, "playing") /\ load[l].again
  /\ Retire
  /\ load' = [OutOfDate(load) EXCEPT ![l].at = "settle", ![l].again = FALSE]
  /\ UNCHANGED <<playing, surfaceVars, askVars, display, turns, failures>>

-----------------------------------------------------------------------------
(* A load (_load_stream, play_local): _prepare_surface and then the file   *)

(* _loadfile: the restart of this file ends the freeze.                    *)
LoadFile(l, frame) ==
  /\ picture' = [file |-> TRUE, frame |-> IF frame = "live" THEN "old" ELSE frame]
  /\ freeze' = [freeze EXCEPT !.thaws = freeze.on]
  /\ restarts' = IF restarts = {} THEN {} ELSE {"older"}
  /\ IF load[l].kind = "relay"
       THEN /\ reloading' = FALSE
            /\ load' = [OutOfDate(load) EXCEPT ![l].at = "playing"]
       ELSE /\ load' = [load EXCEPT ![l].at = "waiting"] /\ UNCHANGED reloading

(* A file that plays when its context goes is torn down.                   *)
Freed == torn' = (torn \/ picture.file)

(* _move_to_widget; the frame goes with the context it was in.             *)
ToWidget ==
  /\ ctx' = "widget"
  /\ IF OnPresenter THEN Freed ELSE UNCHANGED torn
FrameKept == IF OnPresenter THEN "none" ELSE picture.frame

Meant(l) == load[l].kind = "relay" \/ load[l].meant

(* A bug: a play that another one replaced goes on.                        *)
SettledAll(l) ==
  /\ LoadAt(l, "settle")
  /\ UNCHANGED <<turns, failures, playing, idleCheck, asked>>
Settled(l) ==
  /\ LoadAt(l, "settle") /\ Meant(l)
  /\ UNCHANGED <<turns, failures, playing, idleCheck, asked>>

(* _prepare_surface decides for the widget: no HDR surface is wanted, or   *)
(* the window is hidden and never exposes a new one.                       *)
DecideWidget(l) ==
  /\ Settled(l) /\ stale' = FALSE
  /\ SurfaceWanted(display) => presenter.state # "ready" /\ ~display.shown
  /\ ToWidget
  /\ presenter' = IF SurfaceWanted(display) /\ presenter.state # "starting"
                    THEN [state |-> "starting", visible |-> FALSE]
                    ELSE [presenter EXCEPT !.visible = FALSE]
  /\ display' = Follow(display, FALSE)
  /\ LoadFile(l, FrameKept) /\ UNCHANGED broken

(* It stays on the HDR surface.                                            *)
DecideStay(l) ==
  /\ Settled(l) /\ stale' = FALSE
  /\ SurfaceWanted(display) /\ OnPresenter /\ presenter.state = "ready"
  /\ display' = Follow(display, TRUE)
  /\ LoadFile(l, picture.frame) /\ UNCHANGED surfaceVars

(* The HDR surface is shown, a new one if there is none that works.        *)
DecideStart(l) ==
  /\ Settled(l) /\ stale' = FALSE
  /\ SurfaceWanted(display) /\ ~(OnPresenter /\ presenter.state = "ready")
  /\ presenter.state = "ready" \/ display.shown
  /\ ToWidget
  /\ picture' = [picture EXCEPT !.frame = FrameKept]
  /\ presenter' = [state |-> IF presenter.state = "ready" THEN "ready" ELSE "starting",
                   visible |-> TRUE]
  /\ load' = [load EXCEPT ![l].at = "starting", ![l].meant = TRUE]
  /\ UNCHANGED <<reloading, broken, display, freeze, restarts>>

Starting(l) ==
  /\ LoadAt(l, "starting")
  /\ UNCHANGED <<turns, failures, playing, stale, asked, idleCheck>>

(* It is exposed, and mpv's context moves there.                           *)
Move(l) ==
  /\ Starting(l) /\ load[l].meant /\ presenter.state = "ready"
  /\ ctx' = "presenter" /\ Freed
  /\ display' = Follow(display, TRUE)
  /\ LoadFile(l, "none")
  /\ UNCHANGED <<presenter, broken>>

(* It failed, or has not come in time.                                     *)
MoveFails(l) ==
  /\ Starting(l) /\ load[l].meant /\ presenter.state # "ready"
  /\ broken' = (broken \/ display.shown)
  /\ presenter' = [presenter EXCEPT !.visible = FALSE]
  /\ ToWidget
  /\ display' = Follow(display, FALSE)
  /\ LoadFile(l, FrameKept)

(* Stopped or replaced meanwhile: a local play ends here, a relay stream's *)
(* seek loads where the context is; the next seek's load decides again.    *)
Superseded(l) ==
  \/ /\ LoadAt(l, "settle") /\ ~Meant(l)
     /\ load' = [load EXCEPT ![l].at = "gone"]
     /\ UNCHANGED <<turns, failures, playing, reloading, picture, freeze, restarts,
                    stale, asked, idleCheck>>
     /\ UNCHANGED <<surfaceVars, display>>
  \/ /\ Starting(l) /\ ~load[l].meant
     /\ IF load[l].kind = "local"
          THEN /\ load' = [load EXCEPT ![l].at = "gone"]
               /\ UNCHANGED <<reloading, picture, freeze, restarts>>
          ELSE LoadFile(l, picture.frame)
     /\ UNCHANGED <<surfaceVars, display>>

(* file-loaded, or an error or 30 seconds: then the play is stopped.       *)
LocalReady(l) ==
  /\ LoadAt(l, "waiting") /\ picture.file
  /\ load' = [load EXCEPT ![l].at = "playing"] /\ reloading' = FALSE
  /\ UNCHANGED <<playing, surfaceVars, askVars, display, mpvVars, turns, failures>>

-----------------------------------------------------------------------------
(* mpv: a frame of the file is taken, which reports a restart; a file ends.*)

TakeFrame ==
  /\ picture.file /\ picture.frame # "live" /\ ctx # "none"
  /\ picture' = [picture EXCEPT !.frame = "live"]
  /\ restarts' = restarts \cup {"this"}
  /\ UNCHANGED <<loadVars, surfaceVars, askVars, display, freeze, turns, failures>>

(* _on_video_restarted                                                     *)
Restarted ==
  /\ \E r \in restarts :
       /\ restarts' = restarts \ {r}
       /\ freeze' = [freeze EXCEPT !.on = @ /\ ~(freeze.thaws /\ r = "this")]
  /\ UNCHANGED <<loadVars, surfaceVars, askVars, display, picture, turns, failures>>

-----------------------------------------------------------------------------
(* The HDR surface and the display                                         *)

Exposed ==
  /\ presenter.state = "starting" /\ presenter.visible /\ display.shown
  /\ presenter' = [presenter EXCEPT !.state = "ready"]
  /\ UNCHANGED <<loadVars, ctx, broken, torn, askVars, display, mpvVars, turns, failures>>

(* _on_presenter_failed                                                    *)
PresenterFails ==
  /\ presenter.state \in {"starting", "ready"} /\ presenter.visible
  /\ failures < MaxFailures /\ failures' = failures + 1
  /\ presenter' = [presenter EXCEPT !.state = "broken"] /\ broken' = TRUE
  /\ asked' = (asked \/ (OnPresenter /\ ~stale)) /\ stale' = (stale \/ OnPresenter)
  /\ UNCHANGED <<loadVars, ctx, torn, idleCheck, display, mpvVars, turns>>

(* _check_hdr_surface, from a timer or a change: a surface that does not   *)
(* fit is reported once. The wait for a switch to HDR may be over.         *)
CheckHdrSurface(d, gaveUp) ==
  LET acts == playing # 0 /\ ~stale /\ ~reloading
      seen == IF gaveUp THEN [d EXCEPT !.refused = TRUE] ELSE d
      misfit == acts /\ d.shown /\ SurfaceWanted(seen) # OnPresenter
  IN /\ display' = CASE ~acts -> d
                     [] acts /\ ~d.shown -> [d EXCEPT !.armed = FALSE]
                     [] OTHER -> Follow(seen, OnPresenter)
     /\ stale' = (stale \/ misfit) /\ asked' = (asked \/ misfit)

Tick ==
  /\ playing # 0 /\ LoadAt(playing, "playing")
  /\ \E gaveUp \in BOOLEAN :
       /\ gaveUp => /\ display.armed /\ Awaited(display) /\ display.shown
                    /\ ~stale /\ ~reloading
       /\ CheckHdrSurface(display, gaveUp)
  /\ UNCHANGED <<loadVars, surfaceVars, idleCheck, mpvVars, turns, failures>>

(* The window is hidden or shown, goes to fullscreen (settled) or leaves   *)
(* it, or the screen's own setting changes; the compositor takes its HDR   *)
(* back when fullscreen ends.                                              *)
Change ==
  /\ Turn
  /\ \/ display' = [display EXCEPT !.shown = ~@] /\ UNCHANGED <<stale, asked>>
     \/ /\ display' = [display EXCEPT !.own = ~@, !.hdr = ~display.own]
        /\ UNCHANGED <<stale, asked>>
     \/ CheckHdrSurface([display EXCEPT !.full = ~@,
                            !.hdr = IF display.full THEN display.own ELSE @], FALSE)
  /\ UNCHANGED <<loadVars, surfaceVars, idleCheck, mpvVars, failures>>

(* The compositor switches the screen for the surface it shows.            *)
Switch ==
  /\ AutoHdr /\ display.full /\ display.shown /\ OnPresenter /\ ~display.hdr
  /\ display' = [display EXCEPT !.hdr = TRUE]
  /\ UNCHANGED <<loadVars, surfaceVars, askVars, mpvVars, turns, failures>>

(* set_hdr_output_enabled tries again what failed or was refused.          *)
Setting ==
  /\ Turn
  /\ broken' = FALSE
  /\ LET d == [display EXCEPT !.enabled = ~@, !.refused = FALSE]
         fits == (d.enabled /\ (IF d.hdr THEN d.full \/ ~AutoHdr \/ d.own
                                         ELSE d.full /\ AutoHdr)) = OnPresenter
         misfit == playing # 0 /\ ~stale /\ ~reloading /\ d.shown /\ ~fits
     IN display' = d /\ stale' = (stale \/ misfit) /\ asked' = (asked \/ misfit)
  /\ UNCHANGED <<loadVars, ctx, presenter, torn, idleCheck, mpvVars, failures>>

Transitioning == playing # 0 /\ load[playing].kind = "local" /\ ~LoadAt(playing, "playing")

(* _reload_for_hdr_surface: a seek to where it is, or the local file again.*)
Reload ==
  /\ asked /\ asked' = FALSE
  /\ IF Transitioning \/ playing = 0
       THEN stale' = FALSE /\ UNCHANGED <<loadVars, display, mpvVars, idleCheck>>
       ELSE /\ \/ Prepare /\ UNCHANGED <<display, idleCheck>>
               \/ load[playing].kind = "local" /\ \E l \in Loads : Play("local", l)
            /\ UNCHANGED stale
  /\ UNCHANGED <<surfaceVars, turns, failures>>

(* _release_surface_if_idle, a turn of the event loop after a stop.        *)
ReleaseIdle ==
  /\ idleCheck /\ idleCheck' = FALSE
  /\ IF playing = 0 /\ (OnPresenter \/ presenter.visible)
       THEN /\ ToWidget /\ presenter' = [presenter EXCEPT !.visible = FALSE]
            /\ picture' = [picture EXCEPT !.frame = FrameKept]
       ELSE UNCHANGED <<ctx, torn, presenter, picture>>
  /\ UNCHANGED <<loadVars, broken, stale, asked, display, restarts, freeze, turns,
                 failures>>

-----------------------------------------------------------------------------
Loading(l) ==
  Again(l) \/ DecideWidget(l) \/ DecideStay(l) \/ DecideStart(l)
    \/ Move(l) \/ MoveFails(l) \/ Superseded(l) \/ LocalReady(l)

SurfaceNext ==
  \/ \E kind \in {"relay", "local"} : StartPlay(kind)
  \/ StopPlay \/ Seek
  \/ \E l \in Loads : Loading(l)
  \/ TakeFrame \/ Restarted
  \/ Exposed \/ PresenterFails \/ Tick \/ Change \/ Switch \/ Setting
  \/ Reload \/ ReleaseIdle

SurfaceSpec == SurfaceInit /\ [][SurfaceNext]_hdrVars

-----------------------------------------------------------------------------
(* The context moves only while mpv plays nothing ("freeing it while a     *)
(* video plays tears the video down"), the HDR surface is not drawn on     *)
(* before it is there, and no picture of a stopped decoder is drawn ("a    *)
(* redraw of it once the decoder is gone syncs a retired surface",         *)
(* _freeze_picture), whatever plays, seeks, stops and late restarts come.  *)
SurfaceSafe ==
  /\ ~torn
  /\ OnPresenter => presenter.state \in {"ready", "broken"}
  /\ ctx # "none" /\ ~freeze.on => picture.frame # "old"

(* A video that plays on a surface that does not fit the display, and is   *)
(* shown there.                                                            *)
Misfit == /\ playing # 0 /\ LoadAt(playing, "playing") /\ display.shown
          /\ SurfaceWanted(display) # OnPresenter
=============================================================================
