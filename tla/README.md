# upscale-relay in TLA+

upscale-relay plays a video on one machine while another one upscales it. A
client (desktop player or command line) opens a session on a relay server over
a control WebSocket; packets of the source reach the server over a media
connection (an *uplink*) or from the server's own library; a pipeline of
threads decodes, upscales and encodes them; and a media connection in the
other direction (the *downlink*) carries a Matroska stream to the client's mpv.

Seeks, failures and closes cut through all of that from several tasks and
threads at once, and native resources (encoder sessions, TensorRT engines) must
not outlive the session that owns them. That is what these modules are about.

## The system and its hard parts

| component | state | operations | who it talks to | what is hard |
|---|---|---|---|---|
| `relay_server/server.py` `RelayServer` | `sessions`, `native_teardown_error`, sockets | control handler, media handler, `/status`, `stop` | clients; one `Session` to a control connection | cancelled handlers, retirement against `/status`, the restart latch |
| `relay_server/session.py` `Session` | state, epoch, open/close/source/progress tasks, media connections, `down_q`, pipeline, demuxers | `handle_open`, `handle_seek`, `register_media`, `start_server_source`, `_emit_downlink`, `close` | pipeline threads (executor calls, callbacks into the loop) | what a task read before an await is stale after it; a build that returns after the close |
| `relay_server/pipeline.py` `Pipeline` | three threads, three bounded queues, `_epoch`, `_flush_pending`, `_closed`, decoder, encoder, container | `feed`, `flush`, `close`, the stages | session, inference worker, mapper | flush and close reach into queues the stages use; stop sentinels; stale frames |
| `relay_server/display_mapping.py` | an external mapper process and its reader thread | write, hold, kill, release | decode thread | a flush kills what the decode thread writes to |
| `relay_media/demux.py` | containers, iterator generations | `packets`, `reserve`, `close` | source task, uplink | superseded iterators on worker threads |
| `relay_client_core/client.py` `RelayClient` | epoch, pending replies, bridge queue, receiver thread | `open_session`, `seek`, `teardown`, `wait_session_released` | server, player | superseded seeks, unacknowledged teardowns, cancelled opens |
| `relay_client_core/attachments.py` | content-addressed cache, leases | prepare, evict | server `/attachments`, player | leases against eviction, abandoned publications |
| `upscale_cli/infer_worker.py` | a worker process, shared memory | infer with one restart | pipeline | late answers, crash and restart |
| `desktop_client/` | current session, transitions, mpv | play, seek, stop, reconnect | client core, mpv | newest intent wins, late callbacks of old epochs |
| `relay_server/tray.py` and runtime files | controller, settings, instance lock | start, stop, restart, quit | `RelayServer` | a restart within the process while native resources are held |
| `upscale_cli/`, `relay_protocol/`, `relay_media/hdr.py` | none to speak of | scaling geometry, framing, metadata parsing | | arithmetic at boundaries |

`PROJECT.json` lists every component with what is modelled of it and, under
`hazards`, each place where one of these difficulties bites.

## Modules

**SessionLifecycle** models the life of a session on the server: the control
handler, the open, close and source tasks, the media handlers of both
directions and the shutdown of the server. An action is the code between two
awaits of one task on the event loop. `handler`, `open_task`, `close_task` and
`stop` are program counters; `state`, `pipeline`, `source_track`,
`source_task`, `media`, `sessions` and `native_teardown_error` are the
attributes of the same names; `native` is what exists behind the pipeline
(nothing, a build at work, a built pipeline, a close at work, released, or
*wedged*: the native close failed). `stray` stands for a source task
which the attribute `_source_task` no longer names. Every session has one
connection that opens one session; a client that connects again is another
member of `Session`. Out of it: what messages carry, and the media.

**Pipeline** models the three stage threads, their queues, `flush` and `close`. An action is
what a thread does between two queue operations. A packet is its kind, epoch
and position in the file. `_safe_put` may complete a put that found the
pipeline open (`late`) and drops the item otherwise; `put(None)` only waits;
`_guard` leaves a last stop behind if there is room. The decoder and the
encoder hold back the last `Delay` frames, so that a seek always finds old
frames inside them. A stage may raise (`MayFail`, once).

**RelayStream** extends it with the rest of a session that plays a library
file: the source task and the feeds which a cancelled source task leaves on
executor threads, `_emit_downlink` with its pending put, the downlink queue and
its writer, the client's buffer and reports, `handle_seek` from one await to
the next, and the close. `stream` is a history variable: what the client
received for the newest epoch it has seen. Several simplifications are named
here because they bound what the results mean: `buffered` says whether the
last report was above the watermarks, and the decay of an old report by wall
time is left out (it could only end a pause sooner); a put that was abandoned and
completes all the same is dropped by the writer, so it is not modelled apart
from a put completed late; audio muxed ahead of the next video packet goes out
at once instead of waiting inside libav; a chunk is never split; the inference
and the display mapping do not change what is in flight.

**EpochStream** is the abstract specification RelayStream implements: to each
epoch one stream, a beginning of *header, video from the target in order, audio
from the target in order, trailer*; never an older epoch after a newer one;
nothing after the end. The refinement maps `asked` to `epoch` and `stream` to
itself.

**ClientUplink** is the other way round: the client as the source. `seek`
replaces the waiters of older seeks and asks the server; its reply, the old
pump's end and `start_uplink` follow, each an action up to the next await. A
pump (`_uplink_loop`) hops to a worker thread for each batch; a cancelled pump
leaves that worker behind, and the iterator generation of the demuxer
(`iter_gen`, `native_lock`) decides what it may still do to the container.
`control_in` and `control_out` are the two directions of the control
connection, `uplink` is what is on its way to the server. Failures (a lost
connection, a read error, a reply that takes too long, a session that closes
itself) count against `MaxFailures`. `accepted` is what the server feeds its
pipeline: the second refinement of EpochStream, with no auxiliary items. Left
out: the keyframe the demuxer lands on before the target (`Target` is where the
iteration begins), the discontinuity flag, and the stages behind the feed.

**PlayerStream** takes over where RelayStream ends: the receiver thread and its
batches, the bridge queue with its event and the wakeup scheduled from the
thread, the player's consumer, and the loads of mpv, one Matroska file to an
epoch. `load` is what `MpvView` keeps of the present load; every load has a
generation (`_load_generation`), and what mpv's event thread or an attaching
thread reports travels as a signal with its generation. The server is assumed
to send what the refinement of RelayStream establishes. mpv is external: it
plays what the loopback gives it; that the settle interval of 150 ms outlasts
what mpv still has to say of a stopped file is an assumption. What mpv was
given (`played`) refines EpochStream for a third time. A loopback ends with its
load; local playback, the mapped display (`epoch_described`) and a downlink
that attaches again are left out.

**DesktopSessions** is the owner of the sessions: the main window of the
desktop client, whose transitions (`playback_state.py`) run one at a time, the
newest intent first. Connect, open, restart, stop, fallback to local playback
and the closing of the window are each cut at their awaits, and each await can
end in every way the code handles: an acknowledged teardown, one that stays
unconfirmed, a lost connection, a timeout, a cancellation by a newer intent.
What a teardown leaves unconfirmed is a question (`unreleased`) that
`_confirm_previous_release` puts to the server's `/status` before anything may
be opened. A server is what SessionLifecycle establishes of it: it lists a
session until its native close returned, and latches a restart if that failed.

**MCSessionLifecycle, MCRelayStream, MCClientUplink, MCPlayerStream,
MCDesktopSessions, MCDisplayMapper** give the constants their values, and
**MCClient** puts the uplink and the window's sessions, which share no state,
into one run: `moving` says which of the two moves.
**SessionLifecycle_proofs, RelayStream_proofs, ClientUplink_proofs,
PlayerStream_proofs, Subprocess_proofs, DesktopSessions_proofs,
Components_proofs, DesktopParts_proofs** hold the theorems.

### Parts that share no state

These modules are checked together in **MCParts**: `part` says which of them
moves, and the others stay in an initial state. So one run explores each of
them in all its interleavings, and the sum, not the product, of their states.

* **InferWorker**: the worker process, the facade that writes a frame into shared
  memory, asks, waits, kills, reaps and restarts once for a frame, the reader thread of
  each generation and its queue. A killed worker may still finish a copy before
  it dies.
* **DisplayMapper**: the ffmpeg process that maps an epoch to a display, its
  spare, the decode thread that writes to it and holds auxiliary packets for
  its frames, its reader thread, `flush` and `close` that kill it from other
  threads, and crashes. `passed` is what went downstream. A killed reader may
  still hand on all it holds, as the end of its stream does (`display_mapping.py:583-586`).
* **AttachmentCache**: the content-addressed store that all players of a
  machine share, the leased view of each session, verification, publication,
  eviction, cancelled opens whose worker step goes on, crashed players, objects
  the disk damaged.
* **ServerHost**: processes of the server and their instance lock, the installer of
  the runtime in a child process with a lock of its own, the tray's controller
  with start, apply, restart and quit, the exit watchdog, crashes.
* **HdrSurface**: mpv's render context on the player widget or on the HDR
  surface, and the loads, freezes, restarts of frames, failures and display changes that
  decide where it belongs and when it may move.
* **LibraryBrowser**: the tree of a server's library while listings, pages,
  restorations, the user and a reconnection to another server overlap.
* **PlayerControls**: pause and position in the window, the player widget, mpv
  and the server, with the reports that travel between them as signals and tasks.
* **WindowChrome**: the sidebar, the top bar and the control bar, docked or
  floating, with slides cut short by toggles, the pointer, timers and the
  compositor.
* **SourceOpening**: the native opener on a worker thread against a cancelled
  `open_session` and a client that closes.
* **IdleInhibit**: inhibitors of the screen saver asked for over D-Bus, and
  late answers to requests that were dropped.
* **AuxiliaryTrack**: the one container of audio and subtitles, shared by the
  iterators of successive seeks, and the index that says which subtitles are on the
  screen at a target.

Six modules are rules without a state. MCParts puts every question of a
bounded set to them, and each answers with a predicate that relates the
algorithm to what it promises: **FrameGeometry** (fit, crop, tiles, the ladder
of tile sizes), **NalUnits** (emulation prevention, start codes, SEI, injection),
**LibraryRules** (names of roots, paths, pages, the next file), **ViewingRules**
(chapters, history), **WireFraming** (packets over cut streams, splitting of
chunks, handshakes) and **ColourRules** (colour resolution, what is mapped for
which display).

## Runs

| run | instance | checks |
|---|---|---|
| `one` | one session in every interleaving with a server stop, and a second client that is only refused | `LifecycleInv` (the inductive invariant of the proofs; contains the types), `ReleaseContract`, `NothingRestarts`, `EveryEndReleases`, `StopReleases` |
| `stream` | 3 packets (the second is audio), 2 seeks to further positions, stage and downlink queues of one place, codecs that hold back one frame | `TypeOK`, `OpensOnce`, `EpochStreams` (refinement), `EndDelivered` |
| `close` | 1 packet, 1 seek, the real stage depth of 4, stage failures, closes at any moment | `CloseCompletes` |
| `client` | the uplink: 2 packets read in batches of two, 2 seeks (to the last packet and to the one before it), one failure, a teardown; or the window: 2 servers, 2 requests to open, 4 intents, a change of a setting, a fault | `ClientTypeOK`; `AcknowledgedFirst`, `ContainerSafe`, `UplinkStreams` (refinement), `SeekServed`, `SeeksReturn`, `CloseEnds`; `OneOwner`, `SettingApplied`, `TransitionsEnd`, `LostSessionEnds`, `WindowCloses` |
| `play` | 1 packet, 2 seeks, batches of two through a bridge queue of one place, the original file attached, one failure | `TypeOK`, `FinishedMeansPlayed`, `ReleasedByItsOwn`, `MpvStreams` (refinement), `PlaysToTheEnd` |
| `parts` | the instances of `Parts_parts.cfg`, all questions | `TypeOK`, `OwnAnswer` (inference), `EpochWhole` (mapping), `LeasedStays` (cache), `HostSafe`, `SurfaceSafe`, `RowsCurrent` (library), `ControlsAgree`, `ChromeSettled`, `NothingLeaks` (sources, inhibitors), `SubtitlesComplete`, `AlgorithmsAgree`, `CallsEnd` |
| `stray`, `sentinel`, `overtaken`, `drained`, `forgotten`, `resurrected` | the smallest instance that shows it | one finding each, see below |

Why the bounds are enough. Sessions meet only in `/status` and in the latch, so
one session covers what a session does to itself; what two can do to each other
is refusal by `/status` or the latch, which the second client of `one` sees, and
the theorems drop the bound altogether. In `stream` an old epoch can be in the
feed, in every queue, in both codecs, in the sink, in the pending put and in
the downlink queue when a seek comes, and a second seek can come before the
first is served; queues of one place produce every wait for room. The input
queue has room for three: what stands in it is bounded by one feed of
each epoch, and a flush. The stages are indifferent to what a packet
is beyond kind, epoch and order. In `close` the depth matters: four places are just enough for
the put a stage completes late, its own stop passed on, the stop `_guard`
leaves and the stop of `close`. In the uplink of `client` a file of exactly
one full batch makes the end of the file an empty batch, and a seek to its last
packet a short one, which are the two ways to read the end; with two seeks
three pumps can have left workers behind at the same time, and the uplink has
room for less than a batch. In `play` an epoch is a header, at most one packet,
a trailer and EOS, so that a batch can end before, at and after any of them; a
batch of two never fits the bridge queue at once, which leaves the receiver in
the middle of a publication when a seek drains the queue; a third generation of
signals would meet the same comparison as the second. In the window of `client` four intents
are a session, a transition, one that supersedes it and one that comes while the
superseded one cleans up; the question left by a teardown concerns one server
and is put at the next open, for which two sessions suffice.

In `parts`: three generations of the inference worker are one more than a
frame can use, and two frames let a late answer of the first meet the second. An
epoch of display mapping is two auxiliary packets and a video packet with room
for one held item, so the hold spills; of two seeks the second may begin at
any place of the first, or behind it; three mappers are one for each epoch that
comes to use it or a spare, and a fourth spawn fails, as it may;
of two seeks, a crash and a close any two meet in every order (`MaxTroubles`). The
store of the cache has room for one object where two sessions want two each and
share one. Two processes of the server contend for its lock. Two servers and
two connections make a page of the first arrive under the second. Two loads and
three turns of the display can find a load in the middle of a move. The file of
AuxiliaryTrack has subtitles that end before, at and after both targets, and
one that reaches further back than the lookback; three iterators are a start
and two seeks, one of which may cut the other's scan.

Deadlock is not checked: a session that is released, a stream that is
delivered, a window that is closed and a question that is answered have nothing
more to do. The liveness properties take its place.

**Fairness.** In SessionLifecycle every task that can run does, native calls
return (`Pipeline.close` has a deadline, a build is finite), and a cancelled
media handler or source task ends. Nothing is assumed of clients, failures or
the user. A server stop, once begun, goes on and in the end cancels the
handlers which are left (the cleanup of aiohttp's runner). In RelayStream
whatever can go on does, threads and tasks alike, and the client plays what it
has and reports. As every step that can go on is finite in number, one weak
fairness condition on their disjunction is as strong as one for each. No
seek, failure or user's close is assumed, but a stage that died is reported and
closes the session (`_guard`, `_pipeline_error`). ClientUplink and PlayerStream
are stated in the same way: threads, tasks, the server and mpv go on, nothing
is assumed of seeks, failures and closes. `SeekServed` and `PlaysToTheEnd`
except what fails, and a newer seek; `SeeksReturn` excepts a server that closed
the session without a reply, which leaves the call to its timeout; `CloseEnds`
excepts nothing. What must not wait for ever is stated as "again and again it
does not wait" (`[]<>`), which for something that stays until it is served says
the same as *leads to* and is checked with less. In DesktopSessions a transition that may enter does, and
whatever it awaits returns, as every await there has a timeout; the two timers
of the window fire. Nothing is assumed of servers, of the network or of the
user. In MCParts one condition covers the parts, which exclude one another:
threads, timers and animations of the code go on, its waits have timeouts;
nothing is assumed of a worker process, of mpv's frames, of the display or of the
user, and of the server's process only that its exit watchdog runs.

## What the code does not do

Six runs refute what a document or a comment says (`findings` in
`PROJECT.json` quote both).

* `stray`: `_stop_server_source` clears `_source_task` after an await; a source
  task started meanwhile is lost and survives the close.
* `sentinel`: a flush at work can take the stop that `close` put in the input
  queue; pl-decode then waits for ever and the close times out.
  `CloseCompletes` is stated for closes that begin while no flush is at work.
* `overtaken`: `flush` sets `_flush_pending` before it marks its epoch and kills
  the mapper. If pl-decode takes the flush of the seek before in between, its
  `clear()` (`pipeline.py:1201`) undoes that, and the mapper that the second seek
  kills under pl-decode's hands is reported as one that failed, which ends the
  session (`_abandoned_mapper_ok`). `EpochWhole` says what holds all the same:
  each failure is reported once, and only of a mapper that crashed or that a
  later seek killed (`ReportedOnce`).
* `drained`: a seek empties the bridge queue of everything in it, the end
  marker of a lost downlink included; the receiver thread has ended by then,
  and the consumer waits for ever.
* `forgotten`: the window remembers one unreleased session. A second one, on
  another server, overwrites the question about the first, and a session may
  then be opened where the first is still held. The instance of `client` has too few
  sessions for it, so that `OneOwner` holds there of everything else.
* `resurrected`: a restart for a setting that a connect or a fallback superseded
  leaves its snapshot behind, and a later change of a setting with nothing
  playing starts the old video.

Smaller things, met while modelling and left as they are in the models or out
of them (no run is about them):

* Sessions. A play or pause that arrives after a session closed itself moves it
  out of CLOSED (`session.py:243`, against `docs/PROTOCOL.md:88-100`). The
  restart latch is set when the handler retires the session, not when the
  native close fails (`server.py:202`). A restart from the tray after a failed
  stop builds a server whose latch is clear (`tray.py:444`), and while the stop
  keeps failing every restart fails until Quit.
* Display mapping. An ffmpeg that crashes after `finish` looks like the end of
  the epoch.
* Desktop transitions. A setting changed during the first open waits for the next
  one. Cancelling `_replace_lost_client` while it closes the lost client drops
  the new one unclosed. A restart or fallback during a seek resumes at the
  old position. An automatic reconnect can supersede an intent of the user that
  has not entered yet.
* Controls. Three changes of pause within one turn of the event loop can leave
  window and mpv opposite (PlayerControls allows a click and an adoption to
  wait, not more). "Mark watched" on the file that plays is undone by the next
  autosave. Two client processes overwrite each other's history.
* Library browser. Opening a folder that the restoration is loading doubles its
  rows (rows are a set here). A refresh during a restoration that then fails
  lets the next capture overwrite the saved folders (`touched` excepts it).
* Window. A sidebar dragged, then fullscreen by the compositor and back by key slides to a
  stale width (`main_window.py:1432`).
* Rules. `fit_dimensions` promises every side within half a unit of the exact
  one (`fit.py:6-8`). The minimum of one unit (`:96-97`) breaks that where the
  exact side is below half a unit: 13x2 pixels, four times as wide as high,
  into 8x3 are 0.31 high, and get 2. `Fitted` keeps the bound for every other side,
  the one that steps back included. A file name
  with a backslash is listed but cannot be opened. Cursors of a listing are
  offsets, so a directory that changes between pages can skip or repeat.
  Chapters with equal starts make "previous" stick. A file shorter than the
  credits' 90 s is watched at its first autosave. Profile 8 of Dolby Vision is
  mapped for every base layer, where the protocol lists 8.1 and 8.4.

## Proofs

Sixteen components have theorems. They hold for every value of the constants that
the modules' assumptions allow; TLC evaluates these assumptions on every run:

* `FileAssumption`, `RelayAssumption`, `UplinkAssumption`, `PlayerAssumption`: a
  file of at least one packet, targets within it, a first keyframe at its
  beginning, queues with room for something (the input queue for three: one
  feed of each of two epochs and a flush).
* `HostAssumption`, `InferAssumption`, `IdleAssumption`, `MappingAssumption`: the
  bounds are natural numbers, the script of an epoch is a sequence, the sets of processes and requests do not hold the value that stands for nobody.
* `CacheAssumption`: a manifest names an object once (`validate_manifest`).
* `AuxAssumption`: the packets of a file come in the order of their time stamps, a
  keyframe before what begins with it at the same time.
* `DesktopAssumption`, `LibraryAssumption`, `SurfaceAssumption`,
  `ControlAssumption`, `ChromeAssumption`: the bounds are natural numbers, nobody
  is not a server, and a pane has a least and a greatest width.
* `SessionLifecycle` assumes `NoSession \notin Session`.

| module | theorem | establishes |
|---|---|---|
| `SessionLifecycle_proofs` | `TypeCorrect` | `Spec => []TypeOK` |
| | `LifecycleInvariant` | `Spec => []LifecycleInv` |
| | `Release`, `Barrier`, `OneOwner` | `ReleaseContract`, `ClosedMeansReleased`, `NoLatePipeline` always hold |
| | `Demuxer` | `DemuxerInUse` holds as long as no seek loses a source task: the demuxer is closed only when none reads from it, known to the session or not |
| | `Quiet` | `Spec => NothingRestarts` (an action property) |
| `RelayStream_proofs` | `RelayInvariant` | `Spec => []RelayInv` |
| | `TypeCorrect`, `MarksOpen` | `TypeOK` (no queue outgrows its room), `OpensOnce` |
| `ClientUplink_proofs` | `UplinkInvariant`, `TypeCorrect` | the inductive invariant, the types |
| | `FlushedFirst`, `ContainerClosed` | `AcknowledgedFirst`, `ContainerSafe` |
| | `UplinkRefines` | `Spec => UplinkStreams`: the uplink implements EpochStream |
| `PlayerStream_proofs` | `PlayerInvariant`, `TypeCorrect` | the inductive invariant, the types |
| | `ReleasedOwn`, `FinishedWhole` | `ReleasedByItsOwn`, `FinishedMeansPlayed` |
| | `PlayerRefines` | `Spec => MpvStreams`: the player implements EpochStream |
| `Subprocess_proofs` | `WorkerInvariant`, `WorkerTypeCorrect`, `AnswersAreOwn` | the inductive invariant of the inference worker, its types, `OwnAnswer` |
| | `StructureInvariant` | who owns a display mapper and who reads from it |
| | `EpochsStayOrdered`, `EpochsStayComplete` | `EpochOrdered`; with it `MappingTypeOK` and `EpochComplete` |
| | `EpochsStayWhole` | `MappingSpec => []EpochWhole`, for any overlap of seeks, crashes and the close |
| `Components_proofs` | `OneServer` | `HostSafe` |
| | `CacheInvariant`, `CacheTyped`, `LeasedViews` | the cache's invariant, its types, `LeasedStays` |
| | `SourceInvariant`, `OneOwnerOfSource` | the invariant of an opening, `SourceOwned` |
| | `IdleInvariant`, `ScreenGoesOff` | the invariant of an inhibition, `ScreenReleased` |
| | `SubtitleInvariant`, `SubtitlesStayComplete` | the invariant of the auxiliary track, `SubtitlesComplete` |
| `DesktopSessions_proofs` | `DesktopInvariant`, `DesktopTyped` | the inductive invariant, `SessionsTypeOK` |
| | `SettingsApplied` | `Spec => []SettingApplied` |
| | `OwnersWhileAsked` | `OneOwner`, of any number of servers, while no question is written over by the next |
| | `OneServerOneOwner` | `OneOwner`, if there is one server |
| `DesktopParts_proofs` | `ListingInvariant`, `RowsStayCurrent` | the invariant of the library, `RowsCurrent` |
| | `SurfaceInvariant`, `SurfaceStaysSafe` | the invariant of the HDR surface, `SurfaceSafe` |
| | `ControlInvariant`, `ControlsStayAgreed` | the invariant of pause and position, `ControlsAgree` |
| | `ChromeInvariant`, `ChromeSettles` | the invariant of the bars, `ChromeSettled` |

None of the safety properties is inductive by itself; what each proof had to add says
why the code is right.

* **Sessions.** That a session missing from `/status` holds nothing depends on
  when its handler retires it, on what the close task has awaited by then, and
  on who may still publish a pipeline. `SessionInv(s)` names these reasons:
  `Fresh` (before open_session there is nothing), `Listed` (listed until
  retired with the outcome in hand), `Owner` (`native` always has exactly one
  task working on it, which the program counters determine), `Remembered` (a
  failed native close is never forgotten on the way to the barrier) and
  `Stopped` (the order in which the close task stops things).
* **The server's stream.** `OpensOnce` fails as soon as pl-finish may mux
  anything between the end of a container and the next flush, and whether it
  may depends on all that stands behind it. `Line` reads the queues and what
  the stages have in hand as one sequence, from pl-finish back to the feeds.
  While the session is open, nothing of the newest epoch stands in it before a
  seek's marker or after the end of the epoch; a container that was ended has a
  marker in front of whatever would be muxed next; nothing is newer than what
  the source feeds; and the four counters of the epoch (`Session.epoch`, the
  source's, the flush's argument and `Pipeline._epoch`) agree but in a seek,
  where `seek` and `flush` say by how much they differ. A step of a stage moves
  the border between two parts of the line, which is why sequences and
  their concatenation have a section of lemmas of their own.
* **The uplink.** Each seek has a pump, made once, and a generation of the
  demuxer's iterators; what a worker of a cancelled pump still does is harmless because its
  generation is old or because the lock is held. For the refinement, what is
  read, what waits and what is under way are one run of the file from the
  target on.
* **The player.** Packets wait in four places between the connection and mpv: a
  batch, its publication, the bridge queue and the loopback. A seek drains two
  of them and lets the others go stale. The invariant chains the four: each
  place goes on where the next one stops, or is of an older epoch. `LoadsInv`
  says which generation of loads may still signal what.
* **The inference worker.** The shared blocks carry no frame number. Every
  generation but the newest is dead before the next one starts, and between
  the facade and the newest there is one request or one reply; with it goes
  the frame that the block holds.
* **The display mapper.** An item is on its way (the queue, the hand of the decode
  thread), inside of the mapper (written to it, held back, with its reader) or
  past it. `Structure` says who owns a mapper at each place of the decode thread
  and when its reader runs; `Flow`, that what is on its way is behind what is inside,
  which is behind what is past; `Kept`, that nothing of the newest epoch is lost
  between the three unless a mapper of it crashed. They are inductive for any overlap of
  seeks, so order and completeness hold without a condition. The
  reports of failures need `Marked`: while anything of the first epoch is still at
  work after a seek began, `_flush_pending` is set, as no flush is in the queue
  that could clear it; a mapper of a later epoch that was killed in use may have
  lost that mark to the flush of the seek before (run `overtaken`), but its epoch
  is over by then. So what is reported crashed, or was overtaken (`Blamed`).
* **The desktop's sessions.** `Placed` says what a transition at each place finds
  (a client, a session, a picture), and `Applies` that a change which found a session
  playing has a transition before it. Ownership does not hold as it stands: with
  two servers the question about the one is written over by the question about the other
  (run `forgotten`). The proof shows that this is the only way. `Owned`
  says that every session not yet closed is named by the client or by the question
  (`Known`), that a session is asked for only where no question about
  that server is left (`Apart`), and that a failed close latches its server
  (`Latched`), so that an answer of `/status` settles what it is taken to settle. It is
  inductive while `QuestionKept`: a question is answered before another is
  asked. With one server `Apart` itself forbids a second question, and
  `OneServerOneOwner` needs no condition on the steps.
* **The parts of the window.** `LibInv`: no request is of a listing to come, and
  what the current listing waits for belongs in the tree it shows. `HdrInv`: only the newest
  play has a file, and an old frame is behind the freeze until a restart of this
  file. `ControlInv`: window and player agree, or a task on its way will make
  them agree; that click and adoption overtake each other at most once (`Waits`)
  is what keeps this a finite case split. `ChromeInv`: each bar is where its
  state says, or a slide is under way that ends there.
* **The components.** `HostInv` ties each process to the lock it holds at each
  place of its program; `CacheInv` says that a view in progress holds a good
  link for each entry before the present one; `SourceInv` and `IdleInv` name
  the owner of the native resource at each place. `AuxInv` ties the index of
  subtitles to what it claims: `Coverage` says that the text of every stretch
  taken to be covered (a prefix, a window, the whole file) is in it, `Scanning`
  what the catch-up that holds the lock has read so far and that nobody moved the
  container under it, and `Shown`, of the current iterator alone, that what it
  has yielded, what it has still to replay and what the container has still to
  read are together all that is due, with nothing twice. A scan that is cut off adds
  nothing to `Coverage`, which is why the next seek reads the window again.

A refinement is two lemmas, for the initial states and for the steps: under the
invariant in both states, every step of `Next` is one of the abstract
specification or leaves the mapped variables alone. Lemmas come by group of
actions, with a case to each action: first the types, by who writes what, and
then the invariant.

Only model-checked: the liveness properties and `ENABLED`, which are out of the
prover's reach; the refinement `EpochStreams` of RelayStream, of which
`RelayInvariant` is the first half (order), the second being what the codecs
hold back; `IdleSettingsInert`; and, as the code does not keep them, `OneOwner` of
several servers without a condition and `CrashesReported`, which are refuted instead; and the rules without a state, whose recursive definitions would need induction over data.
`ClosedMeansReleased` and
`NoLatePipeline` are stated by theorems only; they follow from `LifecycleInv`,
which `one` checks, and so does `DemuxerInUse` under its condition. `NothingLeaks` of MCParts is the conjunction of
`SourceOwned` and `ScreenReleased`, which are proved of the components'
own specifications (`OpeningSpec`, `IdleSpec`); that MCParts takes only their
steps is seen from its `Next`.

## Not modelled

Pixels, timing, statistics, themes and logs; container and codec internals
(libav, ONNX Runtime, mpv, ffmpeg and Qt are external); dialogs and menus; the
offline encode, benchmarks and scripts, which run one step after the other;
settings storage, mDNS and autostart. Within the modelled components:

* a downlink that attaches again (the source then continues where its container
  happens to stand), the description of mapped epochs (`epoch_described`), and
  the stages behind the feed of an uplink;
* the executor threads themselves: feeds and closes are assumed to find one
  (`server.py:438`), and openers start at once;
* the keyframe-seek mode of the pipeline, and static HDR metadata, which is
  carried as it is;
* of HdrSurface the forced mode, the fit of a mapped epoch to the display and
  the drawing itself, with its overlay;
* of WindowChrome a pane collapsed by dragging, and a fullscreen left by the
  compositor before the next toggle moves the bar back;
* the bits of an H.264 parameter set, and the fields of Dolby Vision and HDR10+
  payloads.

Plan for what is left:

1. `EpochStreams` of RelayStream: the frames in the line, the codecs and the
   sink as one run of the file, as ClientUplink and PlayerStream have it.
2. The arithmetic of FrameGeometry: that tiles cover a frame of any size.
3. A downlink that attaches again, in RelayStream.
