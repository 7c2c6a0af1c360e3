---------------------------- MODULE WindowChrome ----------------------------
(***************************************************************************)
(* What slides around the video (desktop_client/main_window.py,            *)
(* widgets.py): the sidebar, the top bar and the control bar, which leaves *)
(* its dock in fullscreen and floats over the video while the pointer      *)
(* calls for it. Slides are animations that a toggle may replace midway;   *)
(* timers hide the bar and the cursor; the compositor changes fullscreen   *)
(* too. Lengths are in steps: 0 is gone, Full is a bar's own height.       *)
(***************************************************************************)
EXTENDS Integers

CONSTANTS Widths,     \* widths that a user gives the sidebar
          MinWidth,   \* _SIDEBAR_MIN_WIDTH
          MaxToggles  \* bound: changes of fullscreen and of the sidebar

Full == 2

(* No pane is given less than its minimum width, which is more than the    *)
(* bars' height.                                                           *)
ASSUME ChromeAssumption ==
  /\ Widths \subseteq Nat /\ MinWidth \in Nat /\ MaxToggles \in Nat
  /\ MinWidth >= Full /\ \A w \in Widths : w >= MinWidth
  /\ \E w \in Widths : \A v \in Widths : v <= w

VARIABLES
  sidebar,  \* the pane: visible, width, remembered; its button, the widths users gave it
  topbar,   \* the top bar: visible, height
  bar,      \* the control bar: overlay, docked, visible, dock height and floor
  reveal,   \* its Reveal: how far it is shown, and the target
  slides,   \* the slides at work: where each ends
  full,     \* the window is fullscreen, and settled in it
  timers,   \* the single-shot timers that run
  blank,    \* the pointer is hidden over the video
  toggles   \* changes so far

chromeVars == <<sidebar, topbar, bar, reveal, slides, full, timers, blank, toggles>>

Still == -1   \* no slide, or no dock height
Slide == {"sidebar", "topbar", "bar"}
WidthMax == CHOOSE w \in Widths : \A v \in Widths : v <= w

ChromeTypeOK ==
  /\ sidebar \in [visible : BOOLEAN, width : 0..WidthMax, remembered : Widths,
                  checked : BOOLEAN, given : SUBSET Widths]
  /\ topbar \in [visible : BOOLEAN, height : 0..Full]
  /\ bar \in [overlay : BOOLEAN, docked : BOOLEAN, visible : BOOLEAN,
              dock : {Still} \cup 0..Full, floor : {0, Full}]
  /\ reveal \in [t : 0..Full, target : {0, Full}, running : BOOLEAN]
  /\ slides \in [Slide -> {Still} \cup 0..WidthMax]
  /\ full \in [on : BOOLEAN, settled : BOOLEAN]
  /\ timers \subseteq {"controls", "cursor", "pacing"}
  /\ blank \in BOOLEAN /\ toggles \in 0..MaxToggles

ChromeInit ==
  /\ \E w \in Widths :
       sidebar = [visible |-> TRUE, width |-> w, remembered |-> w, checked |-> TRUE,
                  given |-> {w}]
  /\ topbar = [visible |-> TRUE, height |-> Full]
  /\ bar = [overlay |-> FALSE, docked |-> TRUE, visible |-> TRUE, dock |-> Still,
            floor |-> 0]
  /\ reveal = [t |-> 0, target |-> 0, running |-> FALSE]
  /\ slides = [k \in Slide |-> Still]
  /\ full = [on |-> FALSE, settled |-> FALSE]
  /\ timers = {} /\ blank = FALSE /\ toggles = 0

Toggled == toggles < MaxToggles /\ toggles' = toggles + 1
Sliding(k) == slides[k] # Still

-----------------------------------------------------------------------------
(* The sidebar.                                                            *)

(* _apply_browser_visible: a width is remembered unless it is collapsed.   *)
BrowserVisible(s, visible) ==
  IF visible THEN [s EXCEPT !.visible = TRUE, !.width = s.remembered]
  ELSE [s EXCEPT !.visible = FALSE, !.width = 0,
                 !.remembered = IF s.visible /\ s.width >= MinWidth THEN s.width ELSE @]

(* A bug: the width of a pane that slides is remembered too.               *)
SlideBrowserMidway(visible) ==
  LET stands == IF sidebar.visible THEN sidebar.width ELSE 0
      target == IF visible THEN sidebar.remembered ELSE 0
      kept == IF visible \/ stands < MinWidth THEN sidebar.remembered ELSE stands
      s == [sidebar EXCEPT !.remembered = kept]
  IN IF stands = target
       THEN [pane |-> BrowserVisible(s, visible), end |-> Still]
       ELSE [pane |-> [s EXCEPT !.visible = TRUE], end |-> target]

(* _slide_browser: from where it stands to the remembered width or to      *)
(* nothing, with the width remembered before it first closes.              *)
SlideBrowser(visible) ==
  LET stands == IF sidebar.visible THEN sidebar.width ELSE 0
      target == IF visible THEN sidebar.remembered ELSE 0
      kept == IF visible \/ stands < MinWidth \/ Sliding("sidebar")
                THEN sidebar.remembered ELSE stands
      s == [sidebar EXCEPT !.remembered = kept]
  IN IF stands = target
       THEN [pane |-> BrowserVisible(s, visible), end |-> Still]
       ELSE [pane |-> [s EXCEPT !.visible = TRUE], end |-> target]

(* _slide_toolbar, and _apply_toolbar_visible where nothing has to slide.  *)
SlideToolbar(visible) ==
  LET stands == IF topbar.visible THEN topbar.height ELSE 0
      target == IF visible THEN Full ELSE 0
  IN IF stands = target
       THEN [pane |-> [visible |-> visible, height |-> target], end |-> Still]
       ELSE [pane |-> [visible |-> TRUE, height |-> stands], end |-> target]

(* The button of the sidebar (_on_browser_toggled).                        *)
OnBrowserToggled ==
  /\ topbar.visible /\ Toggled
  /\ LET s == SlideBrowser(~sidebar.checked)
     IN /\ sidebar' = [s.pane EXCEPT !.checked = ~@]
        /\ slides' = [slides EXCEPT !["sidebar"] = s.end]
  /\ UNCHANGED <<topbar, bar, reveal, full, timers, blank>>

(* The user drags the handle of the splitter.                              *)
DragHandle ==
  /\ sidebar.visible /\ ~Sliding("sidebar")
  /\ \E w \in Widths \ {sidebar.width} :
       sidebar' = [sidebar EXCEPT !.width = w, !.given = @ \cup {w}]
  /\ UNCHANGED <<topbar, bar, reveal, slides, full, timers, blank, toggles>>

-----------------------------------------------------------------------------
(* The control bar and its Reveal.                                         *)

ShowNow == reveal' = [t |-> Full, target |-> Full, running |-> FALSE]
HideNow == reveal' = [t |-> 0, target |-> 0, running |-> FALSE]

(* Reveal._run: from where it stands; already there, it is finished.       *)
Run(t, target) == [t |-> t, target |-> target, running |-> t # target]

(* _slide_controls_dock from start, with _enter_overlay_controls or        *)
(* _exit_overlay_controls before it.                                       *)
EnterOverlay ==
  IF bar.overlay THEN UNCHANGED <<bar, reveal>>
  ELSE /\ bar' = [overlay |-> TRUE, docked |-> FALSE, visible |-> TRUE, floor |-> 0,
                  dock |-> IF bar.dock = Still THEN Full ELSE bar.dock]
       /\ ShowNow

ExitOverlay ==
  IF ~bar.overlay THEN UNCHANGED <<bar, reveal>>
  ELSE LET revealed == reveal.target > 0 /\ (bar.dock = Still \/ bar.floor > 0)
       IN /\ bar' = [bar EXCEPT !.overlay = FALSE, !.visible = TRUE,
                                !.floor = IF revealed THEN Full ELSE 0,
                                !.dock = IF @ = Still THEN 0 ELSE @]
          /\ ShowNow

(* toggle_fullscreen.                                                      *)
ToggleFullscreen ==
  /\ Toggled
  /\ LET entering == ~full.on
         side == SlideBrowser(~entering /\ sidebar.checked)
         top == SlideToolbar(~entering)
         moves == bar.overlay # entering
     IN /\ IF entering THEN EnterOverlay ELSE ExitOverlay
        /\ sidebar' = side.pane /\ topbar' = top.pane
        /\ slides' = [k \in Slide |->
             CASE k = "sidebar" -> side.end [] k = "topbar" -> top.end
               [] OTHER -> IF ~moves THEN slides[k] ELSE IF entering THEN 0 ELSE Full]
        /\ full' = [on |-> entering, settled |-> FALSE]
        /\ timers' = (IF entering THEN {"pacing", "cursor"} \cup timers
                      ELSE IF bar.overlay THEN {} ELSE timers \ {"pacing"})
        /\ blank' = (blank /\ ~entering /\ ~bar.overlay)

(* _reveal_controls: a bar that slides off rises from where it is.         *)
RevealControls ==
  /\ IF bar.dock # Still /\ bar.floor = 0
       THEN /\ bar' = [bar EXCEPT !.floor = Full, !.visible = TRUE]
            /\ reveal' = Run(bar.dock, Full)
       ELSE IF reveal.target = 0
         THEN /\ bar' = [bar EXCEPT !.visible = TRUE]
              /\ reveal' = Run(reveal.t, Full)
         ELSE UNCHANGED <<bar, reveal>>
  /\ timers' = timers \cup {"controls", "cursor"}

(* The pointer enters the video, or moves above the zone of the bar        *)
(* (_show_player_cursor).                                                  *)
ShowPlayerCursor ==
  /\ blank' = FALSE
  /\ timers' = (IF bar.overlay THEN timers \cup {"cursor"} ELSE timers)
  /\ UNCHANGED <<sidebar, topbar, bar, reveal, slides, full, toggles>>

(* _on_player_mouse_moved, within the zone of the bar.                     *)
MouseMoved ==
  /\ bar.overlay /\ full.on
  /\ blank' = FALSE /\ RevealControls
  /\ UNCHANGED <<sidebar, topbar, slides, full, toggles>>

(* The pointer leaves the video (eventFilter).                             *)
PointerLeaves ==
  /\ timers' = timers \ {"cursor"} /\ blank' = FALSE
  /\ UNCHANGED <<sidebar, topbar, bar, reveal, slides, full, toggles>>

(* _auto_hide_controls, when the pointer does not rest on the bar nor drag *)
(* its slider: then the timer starts again.                                *)
AutoHideControls ==
  /\ "controls" \in timers
  /\ timers' = timers \ {"controls"}
  /\ IF ~bar.overlay THEN UNCHANGED <<bar, reveal>>
     ELSE /\ reveal' = Run(IF bar.visible THEN reveal.t ELSE 0, 0)
          /\ bar' = [bar EXCEPT !.visible = @ /\ reveal.t # 0]
  /\ UNCHANGED <<sidebar, topbar, slides, full, blank, toggles>>

(* _auto_hide_cursor.                                                      *)
AutoHideCursor ==
  /\ "cursor" \in timers
  /\ timers' = timers \ {"cursor"} /\ blank' = (bar.overlay \/ blank)
  /\ UNCHANGED <<sidebar, topbar, bar, reveal, slides, full, toggles>>

-----------------------------------------------------------------------------
(* Animations step with presented frames, or with a timer when there are   *)
(* none (FrameAnimation): some way to the end, or to the end.              *)

Between(from, to) == {v \in 0..WidthMax : (from < v /\ v <= to) \/ (to <= v /\ v < from)}

StepSidebar ==
  /\ Sliding("sidebar")
  /\ \E w \in Between(sidebar.width, slides["sidebar"]) :
       LET s == [sidebar EXCEPT !.width = w]
       IN IF w = slides["sidebar"]
            THEN /\ sidebar' = BrowserVisible(s, w > 0)
                 /\ slides' = [slides EXCEPT !["sidebar"] = Still]
            ELSE sidebar' = s /\ UNCHANGED slides
  /\ UNCHANGED <<topbar, bar, reveal, full, timers, blank, toggles>>

StepTopbar ==
  /\ Sliding("topbar")
  /\ \E h \in Between(topbar.height, slides["topbar"]) :
       IF h = slides["topbar"]
         THEN /\ topbar' = [visible |-> h > 0, height |-> h]
              /\ slides' = [slides EXCEPT !["topbar"] = Still]
         ELSE topbar' = [topbar EXCEPT !.height = h] /\ UNCHANGED slides
  /\ UNCHANGED <<sidebar, bar, reveal, full, timers, blank, toggles>>

(* The dock lands: _controls_slid_away or _dock_controls.                  *)
Landed(end) ==
  IF end = 0
    THEN IF bar.floor > 0
           THEN bar' = [bar EXCEPT !.dock = Still] /\ UNCHANGED reveal
           ELSE bar' = [bar EXCEPT !.dock = Still, !.visible = FALSE] /\ HideNow
    ELSE bar' = [bar EXCEPT !.dock = Still, !.docked = TRUE, !.visible = TRUE] /\ HideNow

StepBar ==
  /\ Sliding("bar")
  /\ \E h \in Between(bar.dock, slides["bar"]) \cup ({bar.dock} \cap {slides["bar"]}) :
       IF h = slides["bar"]
         THEN Landed(h) /\ slides' = [slides EXCEPT !["bar"] = Still]
         ELSE bar' = [bar EXCEPT !.dock = h] /\ UNCHANGED <<reveal, slides>>
  /\ UNCHANGED <<sidebar, topbar, full, timers, blank, toggles>>

(* Reveal: hidden only when its exit finishes.                             *)
StepReveal ==
  /\ reveal.running
  /\ \E t \in Between(reveal.t, reveal.target) :
       /\ reveal' = [reveal EXCEPT !.t = t, !.running = t # reveal.target]
       /\ bar' = [bar EXCEPT !.visible = @ /\ t # 0]
  /\ UNCHANGED <<sidebar, topbar, slides, full, timers, blank, toggles>>

Animate == StepSidebar \/ StepTopbar \/ StepBar \/ StepReveal

-----------------------------------------------------------------------------
(* Fullscreen.                                                             *)

(* changeEvent: the compositor changes it by itself.                       *)
CompositorChanges ==
  /\ Toggled
  /\ full' = [on |-> ~full.on, settled |-> FALSE]
  /\ timers' = (IF full.on THEN timers \ {"pacing"} ELSE timers \cup {"pacing"})
  /\ UNCHANGED <<sidebar, topbar, bar, reveal, slides, blank>>

(* _on_fullscreen_settled: mpv keeps its own timing from here on.          *)
OnFullscreenSettled ==
  /\ "pacing" \in timers
  /\ timers' = timers \ {"pacing"}
  /\ full' = [full EXCEPT !.settled = full.on]
  /\ UNCHANGED <<sidebar, topbar, bar, reveal, slides, blank, toggles>>

ChromeNext ==
  \/ Animate \/ ToggleFullscreen \/ OnBrowserToggled \/ DragHandle \/ MouseMoved
  \/ ShowPlayerCursor
  \/ PointerLeaves \/ AutoHideControls \/ AutoHideCursor \/ CompositorChanges
  \/ OnFullscreenSettled

ChromeSpec == ChromeInit /\ [][ChromeNext]_chromeVars /\ WF_chromeVars(StepSidebar)
              /\ WF_chromeVars(StepTopbar) /\ WF_chromeVars(StepBar)

-----------------------------------------------------------------------------
(* Wherever toggles, pointer and timers cut a slide short, what is left    *)
(* once nothing moves fits: the bar docked below the top bar, with the     *)
(* sidebar as its button says and the pointer shown; or the bar floating,  *)
(* alone, with a timer that hides it again; the sidebar never at a width   *)
(* that it only passed through; and mpv's own timing only in a fullscreen  *)
(* that has settled.                                                       *)
AtRest == (\A k \in Slide : ~Sliding(k)) /\ ~reveal.running
ChromeSettled ==
  /\ AtRest =>
       /\ ~bar.overlay => sidebar.visible = sidebar.checked
       /\ sidebar.visible => sidebar.width \in sidebar.given
       /\ topbar = [visible |-> ~bar.overlay, height |-> IF bar.overlay THEN 0 ELSE Full]
       /\ bar.dock = Still /\ bar.docked = ~bar.overlay
       /\ bar.visible = (bar.docked \/ reveal.target > 0)
       /\ bar.overlay /\ bar.visible => "controls" \in timers
  /\ sidebar.remembered \in sidebar.given
  /\ blank => bar.overlay
  /\ full.settled = (full.on /\ "pacing" \notin timers)

SlidesAtWork == \E k \in Slide : Sliding(k)
=============================================================================
