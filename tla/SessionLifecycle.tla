-------------------------- MODULE SessionLifecycle --------------------------
(***************************************************************************)
(* The life of a relay session on the server: the control handler of       *)
(* relay_server/server.py, the open, close and source tasks and the media  *)
(* handlers of relay_server/session.py, and the shutdown of the server.    *)
(*                                                                         *)
(* Everything here runs on one asyncio loop, so an action is the code      *)
(* between two awaits of one task; the tasks interleave at the awaits.     *)
(* Native work (building and closing a pipeline) runs on worker threads    *)
(* that no cancellation stops, so it ends in an action of its own.         *)
(*                                                                         *)
(* What a message carries, epochs and packets are left out: they are the   *)
(* subject of the pipeline and downlink modules.                           *)
(***************************************************************************)
EXTENDS FiniteSets

CONSTANTS Session,      \* the sessions clients may ask for, one per connection
          NoSession     \* "no session", a value outside Session

ASSUME NoSessionAssumption == NoSession \notin Session

Direction == {"uplink", "downlink"}

VARIABLES
  handler,              \* control handler of the connection of each session
  ws,                   \* is its WebSocket open, as far as the peer goes?
  acknowledge,          \* teardown_ack_requested
  opened_sent,          \* sessions whose client was sent "session_opened"
  closed_sent,          \* sessions whose client was sent "closed"
  state,                \* Session.state
  open_task,            \* Session._open_task
  close_task,           \* Session._close_task
  errors,               \* has _close_impl collected an error?
  pipeline,             \* Session.pipeline holds a pipeline
  native,               \* the native resources behind that pipeline
  source_track,         \* Session.source_track holds an open demuxer
  source_task,          \* Session._source_task
  stray,                \* a source task runs that _source_task has lost
  media,                \* media handlers, Session._media_connections
  sessions,             \* RelayServer.sessions, what GET /status lists
  native_teardown_error,\* RelayServer.native_teardown_error is set
  stop,                 \* where RelayServer._stop_impl has got to
  stop_queue,           \* sessions _stop_impl has still to close
  stop_current          \* the session whose close _stop_impl awaits

connectionVars == <<handler, ws, acknowledge, opened_sent, closed_sent>>
taskVars == <<open_task, close_task, errors, source_task, stray, media>>
resourceVars == <<pipeline, native, source_track>>
serverVars == <<sessions, native_teardown_error>>
stopVars == <<stop, stop_queue, stop_current>>
vars == <<connectionVars, state, taskVars, resourceVars, serverVars, stopVars>>

HandlerPc == {"free",        \* connected, or not yet: no open_session so far
              "refused",     \* open_session answered server_restart_required
              "receiving",   \* in "async for raw in ws"
              "seek_begin",  \* handle_seek awaits _stop_seek_progress
              "seek_stop",   \* handle_seek awaits the source task it cancelled
              "seek_flush",  \* handle_seek awaits pipeline.flush
              "ending",      \* left the loop, about to run the finally block
              "closing",     \* _close_control_session awaits the close
              "detached",    \* cancelled there: a done callback retires it
              "done"}
OpenPc == {"none", "created", "building", "built", "failing", "replying",
           "reap", "reaping", "done", "failed"}
ClosePc == {"none", "created", "announced", "media", "source", "open",
            "native", "tracks", "ok", "failed"}

CloseReturned(s) == close_task[s] \in {"ok", "failed"}

TypeOK ==
  /\ handler \in [Session -> HandlerPc]
  /\ ws \in [Session -> BOOLEAN]
  /\ acknowledge \in [Session -> BOOLEAN]
  /\ opened_sent \subseteq Session
  /\ closed_sent \subseteq Session
  /\ state \in [Session -> {"open", "playing", "paused", "closed"}]
  /\ open_task \in [Session -> OpenPc]
  /\ close_task \in [Session -> ClosePc]
  /\ errors \in [Session -> BOOLEAN]
  /\ pipeline \in [Session -> BOOLEAN]
  /\ native \in [Session -> {"absent", "building", "held", "closing",
                             "released", "wedged"}]
  /\ source_track \in [Session -> BOOLEAN]
  /\ source_task \in [Session -> {"none", "running", "cancelling", "done"}]
  /\ stray \in [Session -> BOOLEAN]
  /\ media \in [Session -> [Direction -> {"none", "accepted", "serving",
                                          "cancelled"}]]
  /\ sessions \subseteq Session
  /\ native_teardown_error \in BOOLEAN
  /\ stop \in {"serving", "closing", "media", "sockets", "cleanup"}
  /\ stop_queue \subseteq Session
  /\ stop_current \in Session \cup {NoSession}

Init ==
  /\ handler = [s \in Session |-> "free"]
  /\ ws = [s \in Session |-> TRUE]
  /\ acknowledge = [s \in Session |-> FALSE]
  /\ opened_sent = {}
  /\ closed_sent = {}
  /\ state = [s \in Session |-> "open"]
  /\ open_task = [s \in Session |-> "none"]
  /\ close_task = [s \in Session |-> "none"]
  /\ errors = [s \in Session |-> FALSE]
  /\ pipeline = [s \in Session |-> FALSE]
  /\ native = [s \in Session |-> "absent"]
  /\ source_track = [s \in Session |-> FALSE]
  /\ source_task = [s \in Session |-> "none"]
  /\ stray = [s \in Session |-> FALSE]
  /\ media = [s \in Session |-> [d \in Direction |-> "none"]]
  /\ sessions = {}
  /\ native_teardown_error = FALSE
  /\ stop = "serving"
  /\ stop_queue = {}
  /\ stop_current = NoSession

-----------------------------------------------------------------------------
(* Steps shared by several actions.                                        *)

(* Session.close: one close task, whoever asks and however often.          *)
RequestClose(s) ==
  close_task' = IF close_task[s] = "none"
                  THEN [close_task EXCEPT ![s] = "created"]
                  ELSE close_task

(* Session.start_server_source: nothing without a demuxer and a pipeline,  *)
(* nothing while the source task that _source_task names is not done.      *)
StartServerSource(s) ==
  source_task' = IF /\ source_track[s] /\ pipeline[s]
                    /\ source_task[s] \in {"none", "done"}
                   THEN [source_task EXCEPT ![s] = "running"]
                   ELSE source_task

(* Session._stop_server_source, before its await and after it. The await   *)
(* is for the task it cancelled; the assignment that follows clears the    *)
(* attribute, whatever task it names by then.                              *)
CancelSource(s) ==
  source_task' = IF source_task[s] = "running"
                   THEN [source_task EXCEPT ![s] = "cancelling"]
                   ELSE source_task

ForgetSource(s) ==
  /\ source_task[s] # "cancelling"
  /\ stray' = [stray EXCEPT ![s] = stray[s] \/ source_task[s] = "running"]
  /\ source_task' = [source_task EXCEPT ![s] = "none"]

(* RelayServer._retire_session: the failure is recorded in the step that   *)
(* takes the session out of /status.                                       *)
Retire(s) ==
  /\ native_teardown_error' = (native_teardown_error \/ close_task[s] = "failed")
  /\ sessions' = sessions \ {s}

(* Cancelling the media handlers that there are.                           *)
Cancelled(handlers) ==
  [d \in Direction |-> IF handlers[d] = "none" THEN "none" ELSE "cancelled"]

downlink_attached(s) == media[s]["downlink"] # "none"

-----------------------------------------------------------------------------
(* Plausible bugs. Each is the action after which it is named with one     *)
(* guard, assignment or await gone wrong; no action of Next uses them.     *)

(* register_media does not ask whether the session is closed.              *)
AttachUnchecked(s, d) ==
  /\ stop \in {"serving", "closing"}
  /\ s \in sessions /\ s \in opened_sent
  /\ media[s][d] = "none"
  /\ d = "uplink" => ~source_track[s]
  /\ media' = [media EXCEPT ![s][d] = "accepted"]
  /\ UNCHANGED <<connectionVars, state, open_task, close_task, errors,
                 source_task, stray, resourceVars, serverVars, stopVars>>

(* An error of pipeline.close is logged and not kept.                      *)
CloseNativeLogged(s) ==
  /\ close_task[s] = "native"
  /\ close_task' = [close_task EXCEPT ![s] = "tracks"]
  /\ \E outcome \in {"released", "wedged"} : native' = [native EXCEPT ![s] = outcome]
  /\ UNCHANGED <<connectionVars, state, open_task, errors, source_task, stray, media,
                 pipeline, source_track, serverVars, stopVars>>

(* The open task, which the close task awaits, awaits the close.           *)
OpenFailsAwaiting(s) ==
  /\ open_task[s] = "failing"
  /\ IF close_task[s] = "none"
       THEN RequestClose(s) /\ UNCHANGED open_task
       ELSE /\ CloseReturned(s)
            /\ open_task' = [open_task EXCEPT ![s] = "reap"]
            /\ UNCHANGED close_task
  /\ UNCHANGED <<connectionVars, state, errors, source_task, stray, media,
                 resourceVars, serverVars, stopVars>>

(* A handler cancelled in its close leaves without the done callback.      *)
CancelHandlerForgotten(s) ==
  /\ stop = "cleanup"
  /\ handler[s] \in {"receiving", "seek_begin", "seek_stop", "seek_flush", "closing"}
  /\ handler' = [handler EXCEPT ![s] = IF handler[s] = "closing" THEN "done"
                                                                  ELSE "ending"]
  /\ UNCHANGED <<ws, acknowledge, opened_sent, closed_sent, state, taskVars,
                 resourceVars, serverVars, stopVars>>

(* The session leaves /status when its close is asked for.                 *)
CloseControlSessionEarly(s) ==
  /\ handler[s] = "ending"
  /\ handler' = [handler EXCEPT ![s] = "closing"]
  /\ RequestClose(s)
  /\ sessions' = sessions \ {s}
  /\ UNCHANGED <<ws, acknowledge, opened_sent, closed_sent, state, open_task, errors,
                 source_task, stray, media, resourceVars, native_teardown_error,
                 stopVars>>

-----------------------------------------------------------------------------
(* The control handler.                                                    *)

OpenSession(s) ==
  /\ handler[s] = "free"
  /\ stop # "cleanup"
  /\ ~native_teardown_error
  /\ handler' = [handler EXCEPT ![s] = "receiving"]
  /\ open_task' = [open_task EXCEPT ![s] = "created"]
  /\ sessions' = sessions \cup {s}
  /\ UNCHANGED <<ws, acknowledge, opened_sent, closed_sent, state, close_task, errors,
                 source_task, stray, media, resourceVars, native_teardown_error,
                 stopVars>>

RefuseOpen(s) ==
  /\ handler[s] = "free"
  /\ stop # "cleanup"
  /\ native_teardown_error
  /\ handler' = [handler EXCEPT ![s] = "refused"]
  /\ UNCHANGED <<ws, acknowledge, opened_sent, closed_sent, state, taskVars, resourceVars,
                 serverVars, stopVars>>

(* play and pause: set_state does not ask whether the session is closed.   *)
SetState(s, new) ==
  /\ handler[s] = "receiving"
  /\ ws[s]
  /\ state[s] # new
  /\ state' = [state EXCEPT ![s] = new]
  /\ UNCHANGED <<connectionVars, taskVars, resourceVars, serverVars, stopVars>>

SeekBegin(s) ==
  /\ handler[s] = "receiving"
  /\ ws[s]
  /\ pipeline[s]
  /\ handler' = [handler EXCEPT ![s] = "seek_begin"]
  /\ UNCHANGED <<ws, acknowledge, opened_sent, closed_sent, state, taskVars, resourceVars,
                 serverVars, stopVars>>

(* A close may have taken the pipeline while handle_seek waited: using it  *)
(* raises, and the handler goes to its finally block.                      *)
SeekStop(s) ==
  /\ handler[s] = "seek_begin"
  /\ \/ /\ ~pipeline[s]
        /\ handler' = [handler EXCEPT ![s] = "ending"]
        /\ UNCHANGED source_task
     \/ /\ pipeline[s]
        /\ handler' = [handler EXCEPT ![s] = IF source_task[s] = "none"
                                               THEN "seek_flush" ELSE "seek_stop"]
        /\ CancelSource(s)
  /\ UNCHANGED <<ws, acknowledge, opened_sent, closed_sent, state, open_task, close_task,
                 errors, stray, media, resourceVars, serverVars, stopVars>>

SeekFlush(s) ==
  /\ handler[s] = "seek_stop"
  /\ ForgetSource(s)
  /\ handler' = [handler EXCEPT ![s] = IF pipeline[s] THEN "seek_flush" ELSE "ending"]
  /\ UNCHANGED <<ws, acknowledge, opened_sent, closed_sent, state, open_task, close_task,
                 errors, media, resourceVars, serverVars, stopVars>>

SeekFinish(s) ==
  /\ handler[s] = "seek_flush"
  /\ IF downlink_attached(s) THEN StartServerSource(s) ELSE UNCHANGED source_task
  /\ handler' = [handler EXCEPT ![s] = IF pipeline[s] THEN "receiving" ELSE "ending"]
  /\ UNCHANGED <<ws, acknowledge, opened_sent, closed_sent, state, open_task, close_task,
                 errors, stray, media, resourceVars, serverVars, stopVars>>

Teardown(s) ==
  /\ handler[s] = "receiving"
  /\ ws[s]
  /\ handler' = [handler EXCEPT ![s] = "ending"]
  /\ acknowledge' = [acknowledge EXCEPT ![s] = TRUE]
  /\ UNCHANGED <<ws, opened_sent, closed_sent, state, taskVars, resourceVars, serverVars,
                 stopVars>>

(* The peer goes away, at any time; the handler sees it when it receives.  *)
Disconnect(s) ==
  /\ handler[s] \notin {"free", "refused", "done"}
  /\ ws[s]
  /\ ws' = [ws EXCEPT ![s] = FALSE]
  /\ UNCHANGED <<handler, acknowledge, opened_sent, closed_sent, state, taskVars,
                 resourceVars, serverVars, stopVars>>

LoopEnds(s) ==
  /\ handler[s] = "receiving"
  /\ ~ws[s]
  /\ handler' = [handler EXCEPT ![s] = "ending"]
  /\ UNCHANGED <<ws, acknowledge, opened_sent, closed_sent, state, taskVars, resourceVars,
                 serverVars, stopVars>>

CloseControlSession(s) ==
  /\ handler[s] = "ending"
  /\ handler' = [handler EXCEPT ![s] = "closing"]
  /\ RequestClose(s)
  /\ UNCHANGED <<ws, acknowledge, opened_sent, closed_sent, state, open_task, errors,
                 source_task, stray, media, resourceVars, serverVars, stopVars>>

(* The close returned: retire the session, then acknowledge a teardown, or *)
(* close the socket with 1011 when the native teardown failed.             *)
RetireSession(s) ==
  /\ handler[s] = "closing"
  /\ CloseReturned(s)
  /\ Retire(s)
  /\ closed_sent' = IF acknowledge[s] /\ close_task[s] = "ok" /\ ws[s]
                      THEN closed_sent \cup {s} ELSE closed_sent
  /\ handler' = [handler EXCEPT ![s] = "done"]
  /\ UNCHANGED <<ws, acknowledge, opened_sent, state, taskVars, resourceVars,
                 stopVars>>

(* Shutdown cancels a handler that is still running.                       *)
CancelHandler(s) ==
  /\ stop = "cleanup"
  /\ \/ /\ handler[s] \in {"receiving", "seek_begin", "seek_stop", "seek_flush"}
        /\ handler' = [handler EXCEPT ![s] = "ending"]
        /\ UNCHANGED serverVars
     \/ /\ handler[s] = "closing"
        /\ ~CloseReturned(s)
        /\ handler' = [handler EXCEPT ![s] = "detached"]
        /\ UNCHANGED serverVars
     \/ /\ handler[s] = "closing"
        /\ CloseReturned(s)
        /\ handler' = [handler EXCEPT ![s] = "done"]
        /\ Retire(s)
  /\ UNCHANGED <<ws, acknowledge, opened_sent, closed_sent, state, taskVars, resourceVars,
                 stopVars>>

DoneCallback(s) ==
  /\ handler[s] = "detached"
  /\ CloseReturned(s)
  /\ Retire(s)
  /\ handler' = [handler EXCEPT ![s] = "done"]
  /\ UNCHANGED <<ws, acknowledge, opened_sent, closed_sent, state, taskVars, resourceVars,
                 stopVars>>

-----------------------------------------------------------------------------
(* The open task.                                                          *)

(* handle_open refuses the request, before or after it opened the source:  *)
(* an error that is not fatal.                                             *)
OpenRejected(s) ==
  /\ open_task[s] = "created"
  /\ open_task' = [open_task EXCEPT ![s] = "reap"]
  /\ \E opened \in BOOLEAN : source_track' = [source_track EXCEPT ![s] = opened]
  /\ UNCHANGED <<connectionVars, state, close_task, errors, source_task, stray, media,
                 pipeline, native, serverVars, stopVars>>

(* The source of a server file is open, the pipeline is being built.       *)
OpenBuild(s) ==
  /\ open_task[s] = "created"
  /\ open_task' = [open_task EXCEPT ![s] = "building"]
  /\ native' = [native EXCEPT ![s] = "building"]
  /\ \E server_file \in BOOLEAN :
       source_track' = [source_track EXCEPT ![s] = server_file]
  /\ UNCHANGED <<connectionVars, state, close_task, errors, source_task, stray, media,
                 pipeline, serverVars, stopVars>>

BuildReturns(s) ==
  /\ open_task[s] = "building"
  /\ open_task' = [open_task EXCEPT ![s] = "built"]
  /\ pipeline' = [pipeline EXCEPT ![s] = TRUE]
  /\ native' = [native EXCEPT ![s] = "held"]
  /\ UNCHANGED <<connectionVars, state, close_task, errors, source_task, stray, media,
                 source_track, serverVars, stopVars>>

(* The constructor rolled everything back, or it could not, and a partial  *)
(* pipeline keeps owning what is left (PipelineConstructionError).         *)
BuildFails(s) ==
  /\ open_task[s] = "building"
  /\ open_task' = [open_task EXCEPT ![s] = "failing"]
  /\ \/ /\ native' = [native EXCEPT ![s] = "absent"]
        /\ UNCHANGED pipeline
     \/ /\ native' = [native EXCEPT ![s] = "held"]
        /\ pipeline' = [pipeline EXCEPT ![s] = TRUE]
  /\ UNCHANGED <<connectionVars, state, close_task, errors, source_task, stray, media,
                 source_track, serverVars, stopVars>>

(* After the fatal error: the open task has the session closed, and does   *)
(* not wait for it.                                                        *)
OpenFails(s) ==
  /\ open_task[s] = "failing"
  /\ open_task' = [open_task EXCEPT ![s] = "reap"]
  /\ RequestClose(s)
  /\ UNCHANGED <<connectionVars, state, errors, source_task, stray, media,
                 resourceVars, serverVars, stopVars>>

(* session_opened carries the tokens of the media connections.             *)
OpenReply(s) ==
  /\ open_task[s] = "built"
  /\ IF state[s] = "closed"
       THEN /\ open_task' = [open_task EXCEPT ![s] = "reap"]
            /\ UNCHANGED opened_sent
       ELSE /\ open_task' = [open_task EXCEPT ![s] = "replying"]
            /\ opened_sent' = opened_sent \cup {s}
  /\ UNCHANGED <<handler, ws, acknowledge, closed_sent, state, close_task,
                 errors, source_task, stray, media, resourceVars, serverVars,
                 stopVars>>

OpenReplied(s) ==
  /\ open_task[s] = "replying"
  /\ open_task' = [open_task EXCEPT ![s] = "reap"]
  /\ UNCHANGED <<connectionVars, state, close_task, errors, source_task, stray, media,
                 resourceVars, serverVars, stopVars>>

(* _open_and_reap: a pipeline that arrived in a closed session is closed   *)
(* here.                                                                   *)
Reap(s) ==
  /\ open_task[s] = "reap"
  /\ IF state[s] = "closed" /\ pipeline[s]
       THEN /\ open_task' = [open_task EXCEPT ![s] = "reaping"]
            /\ pipeline' = [pipeline EXCEPT ![s] = FALSE]
            /\ native' = [native EXCEPT ![s] = "closing"]
       ELSE /\ open_task' = [open_task EXCEPT ![s] = "done"]
            /\ UNCHANGED <<pipeline, native>>
  /\ UNCHANGED <<connectionVars, state, close_task, errors, source_task, stray, media,
                 source_track, serverVars, stopVars>>

ReapReturns(s) ==
  /\ open_task[s] = "reaping"
  /\ \/ /\ native' = [native EXCEPT ![s] = "released"]
        /\ open_task' = [open_task EXCEPT ![s] = "done"]
     \/ /\ native' = [native EXCEPT ![s] = "wedged"]
        /\ open_task' = [open_task EXCEPT ![s] = "failed"]
  /\ UNCHANGED <<connectionVars, state, close_task, errors, source_task, stray, media,
                 pipeline, source_track, serverVars, stopVars>>

-----------------------------------------------------------------------------
(* Media handlers, and the source task of a server file.                   *)

Attach(s, d) ==
  /\ stop \in {"serving", "closing"}
  /\ s \in sessions /\ s \in opened_sent
  /\ state[s] # "closed" /\ close_task[s] = "none"
  /\ media[s][d] = "none"
  /\ d = "uplink" => ~source_track[s]
  /\ media' = [media EXCEPT ![s][d] = "accepted"]
  /\ UNCHANGED <<connectionVars, state, open_task, close_task, errors,
                 source_task, stray, resourceVars, serverVars, stopVars>>

(* The handshake is answered; the downlink handler starts the source.      *)
Serve(s, d) ==
  /\ media[s][d] = "accepted"
  /\ media' = [media EXCEPT ![s][d] = "serving"]
  /\ IF d = "downlink" THEN StartServerSource(s) ELSE UNCHANGED source_task
  /\ UNCHANGED <<connectionVars, state, open_task, close_task, errors,
                 stray, resourceVars, serverVars, stopVars>>

(* The peer's connection ended, or the handler has been cancelled.         *)
Detach(s, d) ==
  /\ media[s][d] # "none"
  /\ media' = [media EXCEPT ![s][d] = "none"]
  /\ UNCHANGED <<connectionVars, state, open_task, close_task, errors,
                 source_task, stray, resourceVars, serverVars, stopVars>>

(* The source task reaches the end of the file, or sees its cancellation.  *)
SourceEnds(s) ==
  /\ source_task[s] \in {"running", "cancelling"}
  /\ source_task' = [source_task EXCEPT ![s] = "done"]
  /\ UNCHANGED <<connectionVars, state, open_task, close_task, errors, stray,
                 media, resourceVars, serverVars, stopVars>>

StrayEnds(s) ==
  /\ stray[s]
  /\ stray' = [stray EXCEPT ![s] = FALSE]
  /\ UNCHANGED <<connectionVars, state, open_task, close_task, errors,
                 source_task, media, resourceVars, serverVars, stopVars>>

(* A stage thread fails, or the downlink has been stalled for 30 s: the    *)
(* session closes itself, and its control handler goes on receiving.       *)
PipelineError(s) ==
  /\ native[s] = "held"
  /\ close_task[s] = "none"
  /\ RequestClose(s)
  /\ UNCHANGED <<connectionVars, state, open_task, errors, source_task, stray, media,
                 resourceVars, serverVars, stopVars>>

-----------------------------------------------------------------------------
(* The close task, _close_impl.                                            *)

CloseStep(s, from, to) ==
  /\ close_task[s] = from
  /\ close_task' = [close_task EXCEPT ![s] = to]

CloseAnnounce(s) ==
  /\ CloseStep(s, "created", "announced")
  /\ state' = [state EXCEPT ![s] = "closed"]
  /\ UNCHANGED <<connectionVars, open_task, errors, source_task, stray, media,
                 resourceVars, serverVars, stopVars>>

(* Retire the downlink queue and cancel the media handlers.                *)
CloseMedia(s) ==
  /\ CloseStep(s, "announced", "media")
  /\ media' = [media EXCEPT ![s] = Cancelled(media[s])]
  /\ UNCHANGED <<connectionVars, state, open_task, errors, source_task,
                 stray, resourceVars, serverVars, stopVars>>

CloseSource(s) ==
  /\ CloseStep(s, "media", "source")
  /\ \A d \in Direction : media[s][d] = "none"
  /\ CancelSource(s)
  /\ UNCHANGED <<connectionVars, state, open_task, errors, stray, media,
                 resourceVars, serverVars, stopVars>>

CloseAwaitOpen(s) ==
  /\ CloseStep(s, "source", "open")
  /\ ForgetSource(s)
  /\ UNCHANGED <<connectionVars, state, open_task, errors, media,
                 resourceVars, serverVars, stopVars>>

(* The open task has ended, with a pipeline or not; no other can appear.   *)
CloseTakePipeline(s) ==
  /\ CloseStep(s, "open", IF pipeline[s] THEN "native" ELSE "tracks")
  /\ open_task[s] \in {"none", "done", "failed"}
  /\ errors' = [errors EXCEPT ![s] = errors[s] \/ open_task[s] = "failed"]
  /\ pipeline' = [pipeline EXCEPT ![s] = FALSE]
  /\ native' = IF pipeline[s] THEN [native EXCEPT ![s] = "closing"] ELSE native
  /\ UNCHANGED <<connectionVars, state, open_task, source_task, stray, media,
                 source_track, serverVars, stopVars>>

(* pipeline.close returns: everything released, or a native owner did not  *)
(* stop before the deadline.                                               *)
CloseNative(s) ==
  /\ CloseStep(s, "native", "tracks")
  /\ \/ /\ native' = [native EXCEPT ![s] = "released"]
        /\ UNCHANGED errors
     \/ /\ native' = [native EXCEPT ![s] = "wedged"]
        /\ errors' = [errors EXCEPT ![s] = TRUE]
  /\ UNCHANGED <<connectionVars, state, open_task, source_task, stray, media,
                 pipeline, source_track, serverVars, stopVars>>

(* The demuxers close, or one of them raises; the first error is raised.   *)
CloseTracks(s) ==
  /\ \E raised \in BOOLEAN :
       /\ raised => source_track[s]
       /\ errors' = [errors EXCEPT ![s] = errors[s] \/ raised]
  /\ CloseStep(s, "tracks", IF errors'[s] THEN "failed" ELSE "ok")
  /\ source_track' = [source_track EXCEPT ![s] = FALSE]
  /\ UNCHANGED <<connectionVars, state, open_task, source_task, stray, media,
                 pipeline, native, serverVars, stopVars>>

-----------------------------------------------------------------------------
(* Shutdown, _stop_impl.                                                   *)

StopServer ==
  /\ stop = "serving"
  /\ stop' = "closing"
  /\ stop_queue' = sessions
  /\ UNCHANGED <<connectionVars, state, taskVars, resourceVars, serverVars,
                 stop_current>>

StopClose(s) ==
  /\ stop = "closing" /\ stop_current = NoSession /\ s \in stop_queue
  /\ stop_current' = s
  /\ stop_queue' = stop_queue \ {s}
  /\ RequestClose(s)
  /\ UNCHANGED <<connectionVars, state, open_task, errors, source_task, stray, media,
                 resourceVars, serverVars, stop>>

StopClosed(s) ==
  /\ stop_current = s
  /\ CloseReturned(s)
  /\ stop_current' = NoSession
  /\ ws' = [ws EXCEPT ![s] = FALSE]
  /\ UNCHANGED <<handler, acknowledge, opened_sent, closed_sent, state, taskVars,
                 resourceVars, serverVars, stop, stop_queue>>

(* Media handlers that are left are cancelled, and awaited.                *)
StopMedia ==
  /\ stop = "closing" /\ stop_current = NoSession /\ stop_queue = {}
  /\ stop' = "media"
  /\ media' = [s \in Session |-> Cancelled(media[s])]
  /\ UNCHANGED <<connectionVars, state, open_task, close_task, errors, source_task,
                 stray, resourceVars, serverVars, stop_queue, stop_current>>

(* Every control socket open now is closed; the listener still accepts.    *)
StopSockets ==
  /\ stop = "media"
  /\ \A s \in Session, d \in Direction : media[s][d] = "none"
  /\ stop' = "sockets"
  /\ ws' = [s \in Session |-> ws[s] /\ handler[s] \in {"free", "refused"}]
  /\ UNCHANGED <<handler, acknowledge, opened_sent, closed_sent, state, taskVars,
                 resourceVars, serverVars, stop_queue, stop_current>>

StopListening ==
  /\ stop = "sockets"
  /\ stop' = "cleanup"
  /\ UNCHANGED <<connectionVars, state, taskVars, resourceVars, serverVars,
                 stop_queue, stop_current>>

-----------------------------------------------------------------------------

HandlerStep(s) == SeekStop(s) \/ SeekFlush(s) \/ SeekFinish(s) \/ LoopEnds(s)
                  \/ CloseControlSession(s) \/ RetireSession(s) \/ DoneCallback(s)
OpenStep(s) == OpenRejected(s) \/ OpenBuild(s) \/ BuildReturns(s) \/ BuildFails(s)
               \/ OpenFails(s) \/ OpenReply(s) \/ OpenReplied(s) \/ Reap(s)
               \/ ReapReturns(s)
CloseTaskStep(s) == CloseAnnounce(s) \/ CloseMedia(s) \/ CloseSource(s)
                    \/ CloseAwaitOpen(s) \/ CloseTakePipeline(s)
                    \/ CloseNative(s) \/ CloseTracks(s)
ClientStep(s) == OpenSession(s) \/ RefuseOpen(s) \/ SeekBegin(s) \/ Teardown(s)
                 \/ Disconnect(s)
                 \/ \E new \in {"playing", "paused"} : SetState(s, new)
MediaStep(s) == \E d \in Direction : Attach(s, d) \/ Serve(s, d) \/ Detach(s, d)
StopStep == StopServer \/ StopMedia \/ StopSockets \/ StopListening
            \/ \E s \in Session : StopClose(s) \/ StopClosed(s)

Next ==
  \/ \E s \in Session : \/ ClientStep(s) \/ HandlerStep(s) \/ OpenStep(s)
                        \/ MediaStep(s) \/ SourceEnds(s) \/ StrayEnds(s)
                        \/ PipelineError(s) \/ CloseTaskStep(s) \/ CancelHandler(s)
  \/ StopStep

Spec == Init /\ [][Next]_vars

(* Tasks that can run do run, and native calls return: pipeline.close is   *)
(* bounded by its deadline, and a build is finite. A media handler and a   *)
(* source task end once they are cancelled. Nothing is assumed of clients, *)
(* of failures, or of the user who stops the server; but a stop that began *)
(* goes on, and ends by cancelling the handlers that are left.             *)
Fairness ==
  /\ \A s \in Session :
       /\ WF_vars(HandlerStep(s))
       /\ WF_vars(OpenStep(s))
       /\ WF_vars(CloseTaskStep(s))
       /\ WF_vars(source_task[s] = "cancelling" /\ SourceEnds(s))
       /\ \A d \in Direction : WF_vars(media[s][d] = "cancelled" /\ Detach(s, d))
       /\ WF_vars(CancelHandler(s))
  /\ WF_vars(StopStep /\ stop # "serving")

FairSpec == Spec /\ Fairness

-----------------------------------------------------------------------------
(* What the code promises.                                                 *)

(* PROTOCOL.md 1.1: a session leaves /status only after its native close   *)
(* has returned, and a failure of that close is recorded by then; nothing  *)
(* of the session is still at work (_retire_session, _close_impl).         *)
Gone(s) == handler[s] # "free" /\ handler[s] # "refused" /\ s \notin sessions
ReleaseContract ==
  \A s \in Session : Gone(s) =>
    /\ native[s] \in {"absent", "released", "wedged"}
    /\ native[s] = "wedged" => native_teardown_error
    /\ ~pipeline[s] /\ ~source_track[s]
    /\ open_task[s] \in {"none", "done", "failed"}
    /\ source_task[s] = "none"
    /\ \A d \in Direction : media[s][d] = "none"

(* "closed" is the barrier after which the client may open a replacement:  *)
(* the native resources of its session are released, without an error.     *)
ClosedMeansReleased ==
  \A s \in closed_sent : /\ s \notin sessions
                         /\ native[s] \in {"absent", "released"}
                         /\ ~errors[s]

(* The close barrier does not open with a build still running, or with a   *)
(* pipeline published behind its back (_close_impl awaits the open task).  *)
NoLatePipeline ==
  \A s \in Session : CloseReturned(s) =>
    /\ ~pipeline[s]
    /\ native[s] \notin {"building", "held", "closing"}

(* The demuxer closes only after every source task has ended, the one that *)
(* _source_task names and any that it has lost (_close_impl). It does not  *)
(* if a seek comes back from _stop_server_source after another source task *)
(* was started (run stray).                                                *)
DemuxerInUse ==
  \A s \in Session : source_task[s] \in {"running", "cancelling"} \/ stray[s] => source_track[s]
SeekLosesSource(s) ==
  handler[s] = "seek_stop" /\ handler'[s] # "seek_stop" /\ source_task[s] = "running"

(* Once the close task has stopped the media handlers and the source, no   *)
(* seek or attachment in flight starts another.                            *)
NothingRestarts ==
  [][\A s \in Session :
       close_task[s] \in {"open", "native", "tracks", "ok", "failed"} =>
         /\ source_task'[s] = "none"
         /\ \A d \in Direction : media'[s][d] = "none"]_vars

(* A session whose connection ended, or whose client asked for a teardown, *)
(* is released: the handler, the open task, the close task and the media   *)
(* handlers never wait for each other in a circle.                         *)
EveryEndReleases ==
  \A s \in Session :
    (s \in sessions /\ (~ws[s] \/ handler[s] = "ending")) ~> (s \notin sessions)

(* A server stop ends with no session left, one opened while it was under  *)
(* way included.                                                           *)
StopReleases == (stop = "cleanup") ~> (sessions = {})

-----------------------------------------------------------------------------
(* Why it holds: what every step of every task keeps, one idea to a name.  *)

Started(s) == handler[s] \notin {"free", "refused"}
PastOpen == {"native", "tracks", "ok", "failed"}  \* the open task is awaited
PastSource == PastOpen \cup {"open"}               \* the source task is awaited
PastMedia == PastSource \cup {"source"}            \* the media handlers are awaited

(* Before its open_session a session has nothing.                          *)
Fresh(s) == ~Started(s) =>
  /\ open_task[s] = "none" /\ close_task[s] = "none"
  /\ s \notin sessions /\ s \notin stop_queue
  /\ \A d \in Direction : media[s][d] = "none"

(* A session is listed until its handler has retired it, which it does     *)
(* with the outcome of the close in hand.                                  *)
Listed(s) ==
  /\ Started(s) /\ handler[s] # "done" => s \in sessions
  /\ handler[s] = "done" => /\ s \notin sessions
                            /\ CloseReturned(s)
                            /\ close_task[s] = "failed" => native_teardown_error
  /\ s \in closed_sent => handler[s] = "done" /\ close_task[s] = "ok"

(* Who works on the native resources: one task at a time.                  *)
Owner(s) ==
  /\ native[s] = "building" <=> open_task[s] = "building"
  /\ native[s] = "held" <=> pipeline[s]
  /\ native[s] = "closing" <=> open_task[s] = "reaping" \/ close_task[s] = "native"
  /\ open_task[s] \in {"none", "created"} => native[s] = "absent"
  /\ close_task[s] \in PastOpen => /\ open_task[s] \in {"none", "done", "failed"}
                                   /\ ~pipeline[s]

(* A failed native close is never forgotten on the way to the barrier.     *)
Remembered(s) ==
  /\ native[s] = "wedged" => errors[s] \/ open_task[s] = "failed"
  /\ open_task[s] = "failed" /\ close_task[s] \in PastOpen => errors[s]
  /\ close_task[s] = "ok" => ~errors[s]

(* The order in which the close task stops things.                         *)
Stopped(s) ==
  /\ close_task[s] \in PastMedia => \A d \in Direction : media[s][d] = "none"
  /\ close_task[s] \in PastSource => source_task[s] = "none"
  /\ CloseReturned(s) => ~source_track[s]
  /\ open_task[s] \in {"none", "created"} => source_task[s] = "none"
  /\ open_task[s] = "none" => ~source_track[s]
  /\ source_task[s] \in {"running", "cancelling"} => source_track[s]

SessionInv(s) == Fresh(s) /\ Listed(s) /\ Owner(s) /\ Remembered(s) /\ Stopped(s)
LifecycleInv == TypeOK /\ \A s \in Session : SessionInv(s)

-----------------------------------------------------------------------------
(* What the documents say and the code does not do.                        *)

(* NVENC_SESSION_TEARDOWN_PLAN.md: the teardown stops source production    *)
(* before it releases anything. A source task that _stop_server_source     *)
(* lost from _source_task is not stopped.                                  *)
NoStraySource == \A s \in Session : CloseReturned(s) => ~stray[s]
=============================================================================
