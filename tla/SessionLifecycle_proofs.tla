----------------------- MODULE SessionLifecycle_proofs -----------------------
(***************************************************************************)
(* Proofs about SessionLifecycle for every set of sessions. There is one   *)
(* lemma for each group of actions of Next, with one case for each action, *)
(* first for TypeOK and then for SessionInv; the theorems put them         *)
(* together. native_teardown_error, stray and errors hold Boolean values,  *)
(* which the SMT solver does not identify with formulas: where a step      *)
(* computes one, the proof states the equivalence first.                   *)
(***************************************************************************)
EXTENDS SessionLifecycle, TLAPS

-----------------------------------------------------------------------------
(* Type correctness.                                                       *)

LEMMA InitialTypes ==
  ASSUME Init
  PROVE  TypeOK
<1> USE DEF Init
<1>1. /\ handler \in [Session -> HandlerPc] /\ open_task \in [Session -> OpenPc]
      /\ close_task \in [Session -> ClosePc]
  BY DEF HandlerPc, OpenPc, ClosePc
<1>2. /\ media \in [Session -> [Direction -> {"none", "accepted", "serving",
                                             "cancelled"}]]
      /\ source_task \in [Session -> {"none", "running", "cancelling", "done"}]
      /\ state \in [Session -> {"open", "playing", "paused", "closed"}]
      /\ native \in [Session -> {"absent", "building", "held", "closing",
                                "released", "wedged"}]
  OBVIOUS
<1>3. /\ ws \in [Session -> BOOLEAN] /\ acknowledge \in [Session -> BOOLEAN]
      /\ errors \in [Session -> BOOLEAN] /\ pipeline \in [Session -> BOOLEAN]
      /\ source_track \in [Session -> BOOLEAN] /\ stray \in [Session -> BOOLEAN]
      /\ native_teardown_error \in BOOLEAN
  OBVIOUS
<1>4. /\ stop \in {"serving", "closing", "sockets", "cleanup"}
      /\ stop_current \in Session \cup {NoSession}
      /\ opened_sent \subseteq Session /\ closed_sent \subseteq Session
      /\ sessions \subseteq Session /\ stop_queue \subseteq Session
  OBVIOUS
<1> HIDE DEF Init
<1> QED
  BY <1>1, <1>2, <1>3, <1>4 DEF TypeOK

LEMMA ClientTypes ==
  ASSUME TypeOK, NEW s \in Session, ClientStep(s)
  PROVE  TypeOK'
<1> USE DEF TypeOK, HandlerPc, OpenPc, connectionVars, taskVars,
        resourceVars, serverVars, stopVars
<1>1. CASE OpenSession(s)
  BY <1>1 DEF OpenSession
<1>2. CASE RefuseOpen(s)
  BY <1>2 DEF RefuseOpen
<1>3. CASE SeekBegin(s)
  BY <1>3 DEF SeekBegin
<1>4. CASE Teardown(s)
  BY <1>4 DEF Teardown
<1>5. CASE Disconnect(s)
  BY <1>5 DEF Disconnect
<1>6. CASE \E new \in {"playing", "paused"} : SetState(s, new)
  BY <1>6 DEF SetState
<1> QED
  BY <1>1, <1>2, <1>3, <1>4, <1>5, <1>6 DEF ClientStep

LEMMA HandlerTypes ==
  ASSUME TypeOK, NEW s \in Session, HandlerStep(s)
  PROVE  TypeOK'
<1> USE DEF TypeOK, HandlerPc, ClosePc, connectionVars, taskVars,
        resourceVars, serverVars, stopVars
<1>1. CASE SeekStop(s)
  <2>1. /\ UNCHANGED <<ws, acknowledge, opened_sent, closed_sent, state, open_task,
                       close_task, errors, stray, media>>
        /\ UNCHANGED <<pipeline, native, source_track, sessions, native_teardown_error,
                       stop, stop_queue, stop_current>>
    BY <1>1 DEF SeekStop
  <2>2. handler' \in [Session -> HandlerPc]
    BY <1>1 DEF SeekStop
  <2>3. \/ source_task' = source_task
        \/ source_task' = [source_task EXCEPT ![s] = "cancelling"]
    BY <1>1 DEF SeekStop, CancelSource
  <2>4. source_task' \in [Session -> {"none", "running", "cancelling", "done"}]
    BY <2>3
  <2> QED
    BY <2>1, <2>2, <2>4
<1>2. CASE SeekFlush(s)
  BY <1>2 DEF SeekFlush, ForgetSource
<1>3. CASE SeekFinish(s)
  BY <1>3 DEF SeekFinish, StartServerSource, downlink_attached
<1>4. CASE LoopEnds(s)
  BY <1>4 DEF LoopEnds
<1>5. CASE CloseControlSession(s)
  BY <1>5 DEF CloseControlSession, RequestClose
<1>6. CASE RetireSession(s)
  BY <1>6 DEF RetireSession, Retire
<1>7. CASE DoneCallback(s)
  BY <1>7 DEF DoneCallback, Retire
<1> QED
  BY <1>1, <1>2, <1>3, <1>4, <1>5, <1>6, <1>7 DEF HandlerStep

LEMMA OpenTypes ==
  ASSUME TypeOK, NEW s \in Session, OpenStep(s)
  PROVE  TypeOK'
<1> USE DEF TypeOK, OpenPc, ClosePc, connectionVars, taskVars,
        resourceVars, serverVars, stopVars
<1>1. CASE OpenRejected(s)
  BY <1>1 DEF OpenRejected
<1>2. CASE OpenBuild(s)
  BY <1>2 DEF OpenBuild
<1>3. CASE BuildReturns(s)
  BY <1>3 DEF BuildReturns
<1>4. CASE BuildFails(s)
  BY <1>4 DEF BuildFails
<1>5. CASE OpenFails(s)
  BY <1>5 DEF OpenFails, RequestClose
<1>6. CASE OpenReply(s)
  <2>1. CASE state[s] = "closed"
    BY <1>6, <2>1 DEF OpenReply
  <2>2. CASE state[s] # "closed"
    BY <1>6, <2>2 DEF OpenReply
  <2> QED
    BY <2>1, <2>2
<1>7. CASE OpenReplied(s)
  BY <1>7 DEF OpenReplied
<1>8. CASE Reap(s)
  <2>1. CASE state[s] = "closed" /\ pipeline[s]
    BY <1>8, <2>1 DEF Reap
  <2>2. CASE ~(state[s] = "closed" /\ pipeline[s])
    BY <1>8, <2>2 DEF Reap
  <2> QED
    BY <2>1, <2>2
<1>9. CASE ReapReturns(s)
  BY <1>9 DEF ReapReturns
<1> QED
  BY <1>1, <1>2, <1>3, <1>4, <1>5, <1>6, <1>7, <1>8, <1>9 DEF OpenStep

LEMMA MediaTypes ==
  ASSUME TypeOK, NEW s \in Session, MediaStep(s)
  PROVE  TypeOK'
<1> USE DEF TypeOK, connectionVars, taskVars,
        resourceVars, serverVars, stopVars
<1>1. CASE \E d \in Direction : Attach(s, d)
  BY <1>1 DEF Attach
<1>2. CASE \E d \in Direction : Serve(s, d)
  <2>1. ASSUME NEW d \in Direction, Serve(s, d) PROVE TypeOK'
    <3>1. CASE d = "downlink"
      BY <2>1, <3>1 DEF Serve, StartServerSource
    <3>2. CASE d # "downlink"
      BY <2>1, <3>2 DEF Serve
    <3> QED
      BY <3>1, <3>2
  <2> QED
    BY <1>2, <2>1
<1>3. CASE \E d \in Direction : Detach(s, d)
  BY <1>3 DEF Detach
<1> QED
  BY <1>1, <1>2, <1>3 DEF MediaStep

LEMMA TaskTypes ==
  ASSUME TypeOK, NEW s \in Session,
         SourceEnds(s) \/ StrayEnds(s) \/ PipelineError(s) \/ CancelHandler(s)
  PROVE  TypeOK'
<1> USE DEF TypeOK, HandlerPc, ClosePc, connectionVars, taskVars,
        resourceVars, serverVars, stopVars
<1>1. CASE SourceEnds(s)
  BY <1>1 DEF SourceEnds
<1>2. CASE StrayEnds(s)
  BY <1>2 DEF StrayEnds
<1>3. CASE PipelineError(s)
  BY <1>3 DEF PipelineError, RequestClose
<1>4. CASE CancelHandler(s)
  BY <1>4 DEF CancelHandler, Retire
<1> QED
  BY <1>1, <1>2, <1>3, <1>4

LEMMA CloseTypes ==
  ASSUME TypeOK, NEW s \in Session, CloseTaskStep(s)
  PROVE  TypeOK'
<1> USE DEF TypeOK, ClosePc, connectionVars, taskVars,
        resourceVars, serverVars, stopVars
<1>1. CASE CloseAnnounce(s)
  BY <1>1 DEF CloseAnnounce, CloseStep
<1>2. CASE CloseMedia(s)
  BY <1>2 DEF CloseMedia, CloseStep, Cancelled
<1>3. CASE CloseSource(s)
  BY <1>3 DEF CloseSource, CloseStep, CancelSource
<1>4. CASE CloseAwaitOpen(s)
  BY <1>4 DEF CloseAwaitOpen, CloseStep, ForgetSource
<1>5. CASE CloseTakePipeline(s)
  BY <1>5 DEF CloseTakePipeline, CloseStep
<1>6. CASE CloseNative(s)
  BY <1>6 DEF CloseNative, CloseStep
<1>7. CASE CloseTracks(s)
  BY <1>7 DEF CloseTracks, CloseStep
<1> QED
  BY <1>1, <1>2, <1>3, <1>4, <1>5, <1>6, <1>7 DEF CloseTaskStep

LEMMA StopTypes ==
  ASSUME TypeOK, StopStep
  PROVE  TypeOK'
<1> USE DEF TypeOK, ClosePc, connectionVars, taskVars,
        resourceVars, serverVars, stopVars
<1>1. CASE StopServer
  BY <1>1 DEF StopServer
<1>2. CASE StopMedia
  BY <1>2 DEF StopMedia, Cancelled
<1>3. CASE StopSockets
  BY <1>3 DEF StopSockets
<1>4. CASE StopListening
  BY <1>4 DEF StopListening
<1>5. CASE \E s \in Session : StopClose(s)
  BY <1>5 DEF StopClose, RequestClose
<1>6. CASE \E s \in Session : StopClosed(s)
  BY <1>6 DEF StopClosed
<1> QED
  BY <1>1, <1>2, <1>3, <1>4, <1>5, <1>6 DEF StopStep

(* Every variable keeps to its type through every step of every task.      *)
THEOREM TypeCorrect == Spec => []TypeOK
<1>1. Init => TypeOK
  BY InitialTypes
<1>2. TypeOK /\ [Next]_vars => TypeOK'
  <2> SUFFICES ASSUME TypeOK, [Next]_vars PROVE TypeOK'
    OBVIOUS
  <2>1. CASE Next
    BY <2>1, ClientTypes, HandlerTypes, OpenTypes, MediaTypes, TaskTypes,
       CloseTypes, StopTypes DEF Next
  <2>2. CASE UNCHANGED vars
    BY <2>2 DEF vars, connectionVars, taskVars, resourceVars, serverVars, stopVars,
                TypeOK, HandlerPc, OpenPc, ClosePc, Direction
  <2> QED
    BY <2>1, <2>2
<1> QED
  BY <1>1, <1>2, PTL DEF Spec

-----------------------------------------------------------------------------
(* The inductive invariant.                                                *)

(* Retiring a session whose close has returned, by whichever way the       *)
(* handler comes to do it; "closed" goes only to a session closed "ok".    *)
LEMMA Retirement ==
  ASSUME LifecycleInv, NEW s \in Session,
         handler[s] \in {"closing", "detached"}, CloseReturned(s), Retire(s),
         handler' = [handler EXCEPT ![s] = "done"],
         \/ closed_sent' = closed_sent
         \/ closed_sent' = closed_sent \cup {s} /\ close_task[s] = "ok",
         UNCHANGED <<state, taskVars, resourceVars, stopVars>>
  PROVE  \A t \in Session : SessionInv(t)'
<1> USE DEF LifecycleInv, SessionInv, Started, CloseReturned, PastOpen, PastSource,
        PastMedia, TypeOK, HandlerPc, OpenPc, ClosePc, Direction, taskVars,
        resourceVars, stopVars
<1> SUFFICES ASSUME NEW t \in Session PROVE SessionInv(t)'
  OBVIOUS
<1>1. native_teardown_error' <=> native_teardown_error \/ close_task[s] = "failed"
  BY DEF Retire
<1>2. Fresh(t)'
  BY DEF Retire, Fresh
<1>3. Listed(t)'
  BY <1>1 DEF Retire, Listed
<1>4. Owner(t)'
  BY DEF Owner
<1>5. Remembered(t)'
  BY DEF Remembered
<1>6. Stopped(t)'
  BY DEF Stopped
<1> QED
  BY <1>2, <1>3, <1>4, <1>5, <1>6

(* Taking the pipeline for the native close, once the open task has ended: *)
(* an open task that failed has its error remembered in this step.         *)
LEMMA TakePipeline ==
  ASSUME LifecycleInv, NEW s \in Session, CloseTakePipeline(s)
  PROVE  \A t \in Session : SessionInv(t)'
<1> USE DEF LifecycleInv, SessionInv, CloseTakePipeline, CloseStep, Started,
        CloseReturned, PastOpen, PastSource, PastMedia, TypeOK, HandlerPc, OpenPc,
        ClosePc, Direction, connectionVars, resourceVars, serverVars, stopVars
<1> SUFFICES ASSUME NEW t \in Session PROVE SessionInv(t)'
  OBVIOUS
<1>1. errors'[s] <=> errors[s] \/ open_task[s] = "failed"
  OBVIOUS
<1>2. Fresh(t)'
  BY DEF Fresh
<1>3. Listed(t)'
  BY DEF Listed
<1>4. Owner(t)'
  BY DEF Owner
<1>5. Remembered(t)'
  BY <1>1 DEF Remembered, Owner
<1>6. Stopped(t)'
  BY DEF Stopped
<1> QED
  BY <1>2, <1>3, <1>4, <1>5, <1>6

LEMMA ClientKeeps ==
  ASSUME LifecycleInv, NEW s \in Session, ClientStep(s)
  PROVE  \A t \in Session : SessionInv(t)'
<1> USE DEF LifecycleInv, SessionInv, Fresh, Listed, Owner, Remembered, Stopped, Started,
        CloseReturned, PastOpen, PastSource, PastMedia,
        TypeOK, HandlerPc, OpenPc, ClosePc, Direction,
        connectionVars, taskVars, resourceVars, serverVars,
        stopVars
<1>1. CASE OpenSession(s)
  BY <1>1 DEF OpenSession
<1>2. CASE RefuseOpen(s)
  BY <1>2 DEF RefuseOpen
<1>3. CASE SeekBegin(s)
  BY <1>3 DEF SeekBegin
<1>4. CASE Teardown(s)
  BY <1>4 DEF Teardown
<1>5. CASE Disconnect(s)
  BY <1>5 DEF Disconnect
<1>6. CASE \E new \in {"playing", "paused"} : SetState(s, new)
  BY <1>6 DEF SetState
<1> QED
  BY <1>1, <1>2, <1>3, <1>4, <1>5, <1>6 DEF ClientStep

LEMMA HandlerKeeps ==
  ASSUME LifecycleInv, NEW s \in Session, HandlerStep(s)
  PROVE  \A t \in Session : SessionInv(t)'
<1> USE DEF LifecycleInv, SessionInv, Fresh, Listed, Owner, Remembered, Stopped, Started,
        CloseReturned, PastOpen, PastSource, PastMedia,
        TypeOK, HandlerPc, OpenPc, ClosePc, Direction,
        connectionVars, taskVars, resourceVars, serverVars,
        stopVars
<1>1. CASE SeekStop(s)
  BY <1>1 DEF SeekStop, CancelSource
<1>2. CASE SeekFlush(s)
  BY <1>2 DEF SeekFlush, ForgetSource
<1>3. CASE SeekFinish(s)
  BY <1>3 DEF SeekFinish, StartServerSource, downlink_attached
<1>4. CASE LoopEnds(s)
  BY <1>4 DEF LoopEnds
<1>5. CASE CloseControlSession(s)
  BY <1>5 DEF CloseControlSession, RequestClose
<1>6. CASE RetireSession(s)
  BY <1>6, Retirement DEF RetireSession
<1>7. CASE DoneCallback(s)
  BY <1>7, Retirement DEF DoneCallback
<1> QED
  BY <1>1, <1>2, <1>3, <1>4, <1>5, <1>6, <1>7 DEF HandlerStep

LEMMA OpenKeeps ==
  ASSUME LifecycleInv, NEW s \in Session, OpenStep(s)
  PROVE  \A t \in Session : SessionInv(t)'
<1> USE DEF LifecycleInv, SessionInv, Fresh, Listed, Owner, Remembered, Stopped, Started,
        CloseReturned, PastOpen, PastSource, PastMedia,
        TypeOK, HandlerPc, OpenPc, ClosePc, Direction,
        connectionVars, taskVars, resourceVars, serverVars,
        stopVars
<1>1. CASE OpenRejected(s)
  BY <1>1 DEF OpenRejected
<1>2. CASE OpenBuild(s)
  BY <1>2 DEF OpenBuild
<1>3. CASE BuildReturns(s)
  BY <1>3 DEF BuildReturns
<1>4. CASE BuildFails(s)
  BY <1>4 DEF BuildFails
<1>5. CASE OpenFails(s)
  BY <1>5 DEF OpenFails, RequestClose
<1>6. CASE OpenReply(s)
  BY <1>6 DEF OpenReply
<1>7. CASE OpenReplied(s)
  BY <1>7 DEF OpenReplied
<1>8. CASE Reap(s)
  BY <1>8 DEF Reap
<1>9. CASE ReapReturns(s)
  BY <1>9 DEF ReapReturns
<1> QED
  BY <1>1, <1>2, <1>3, <1>4, <1>5, <1>6, <1>7, <1>8, <1>9 DEF OpenStep

LEMMA MediaKeeps ==
  ASSUME LifecycleInv, NEW s \in Session, MediaStep(s)
  PROVE  \A t \in Session : SessionInv(t)'
<1> USE DEF LifecycleInv, SessionInv, Fresh, Listed, Owner, Remembered, Stopped, Started,
        CloseReturned, PastOpen, PastSource, PastMedia,
        TypeOK, HandlerPc, OpenPc, ClosePc, Direction,
        connectionVars, taskVars, resourceVars, serverVars,
        stopVars
<1>1. CASE \E d \in Direction : Attach(s, d)
  BY <1>1 DEF Attach
<1>2. CASE \E d \in Direction : Serve(s, d)
  BY <1>2 DEF Serve, StartServerSource
<1>3. CASE \E d \in Direction : Detach(s, d)
  BY <1>3 DEF Detach
<1> QED
  BY <1>1, <1>2, <1>3 DEF MediaStep

LEMMA TaskKeeps ==
  ASSUME LifecycleInv, NEW s \in Session,
         SourceEnds(s) \/ StrayEnds(s) \/ PipelineError(s) \/ CancelHandler(s)
  PROVE  \A t \in Session : SessionInv(t)'
<1> USE DEF LifecycleInv, SessionInv, Fresh, Listed, Owner, Remembered, Stopped, Started,
        CloseReturned, PastOpen, PastSource, PastMedia,
        TypeOK, HandlerPc, OpenPc, ClosePc, Direction,
        connectionVars, taskVars, resourceVars, serverVars,
        stopVars
<1>1. CASE SourceEnds(s)
  BY <1>1 DEF SourceEnds
<1>2. CASE StrayEnds(s)
  BY <1>2 DEF StrayEnds
<1>3. CASE PipelineError(s)
  BY <1>3 DEF PipelineError, RequestClose
<1>4. CASE CancelHandler(s)
  <2>1. CASE handler[s] = "closing" /\ CloseReturned(s)
    BY <1>4, <2>1, Retirement DEF CancelHandler
  <2>2. CASE ~(handler[s] = "closing" /\ CloseReturned(s))
    BY <1>4, <2>2 DEF CancelHandler
  <2> QED
    BY <2>1, <2>2
<1> QED
  BY <1>1, <1>2, <1>3, <1>4

LEMMA CloseKeeps ==
  ASSUME LifecycleInv, NEW s \in Session, CloseTaskStep(s)
  PROVE  \A t \in Session : SessionInv(t)'
<1> USE DEF LifecycleInv, SessionInv, Fresh, Listed, Owner, Remembered, Stopped, Started,
        CloseReturned, PastOpen, PastSource, PastMedia,
        TypeOK, HandlerPc, OpenPc, ClosePc, Direction,
        connectionVars, taskVars, resourceVars, serverVars,
        stopVars
<1>1. CASE CloseAnnounce(s)
  BY <1>1 DEF CloseAnnounce, CloseStep
<1>2. CASE CloseMedia(s)
  BY <1>2 DEF CloseMedia, CloseStep, Cancelled
<1>3. CASE CloseSource(s)
  BY <1>3 DEF CloseSource, CloseStep, CancelSource
<1>4. CASE CloseAwaitOpen(s)
  BY <1>4 DEF CloseAwaitOpen, CloseStep, ForgetSource
<1>5. CASE CloseTakePipeline(s)
  BY <1>5, TakePipeline
<1>6. CASE CloseNative(s)
  BY <1>6 DEF CloseNative, CloseStep
<1>7. CASE CloseTracks(s)
  BY <1>7 DEF CloseTracks, CloseStep
<1> QED
  BY <1>1, <1>2, <1>3, <1>4, <1>5, <1>6, <1>7 DEF CloseTaskStep

LEMMA StopKeeps ==
  ASSUME LifecycleInv, StopStep
  PROVE  \A t \in Session : SessionInv(t)'
<1> USE DEF LifecycleInv, SessionInv, Fresh, Listed, Owner, Remembered, Stopped, Started,
        CloseReturned, PastOpen, PastSource, PastMedia,
        TypeOK, HandlerPc, OpenPc, ClosePc, Direction,
        connectionVars, taskVars, resourceVars, serverVars,
        stopVars
<1>1. CASE StopServer
  BY <1>1 DEF StopServer
<1>2. CASE StopMedia
  BY <1>2 DEF StopMedia, Cancelled
<1>3. CASE StopSockets
  BY <1>3 DEF StopSockets
<1>4. CASE StopListening
  BY <1>4 DEF StopListening
<1>5. CASE \E s \in Session : StopClose(s)
  BY <1>5 DEF StopClose, RequestClose
<1>6. CASE \E s \in Session : StopClosed(s)
  BY <1>6 DEF StopClosed
<1> QED
  BY <1>1, <1>2, <1>3, <1>4, <1>5, <1>6 DEF StopStep

(* One idea to a conjunct: what a session has before it is opened, who     *)
(* lists it, who owns its native resources, what is remembered of an       *)
(* error, and the order in which the close task stops things.              *)
THEOREM LifecycleInvariant == Spec => []LifecycleInv
<1>1. Init => \A t \in Session : SessionInv(t)
  BY DEF Init, SessionInv, Fresh, Listed, Owner, Remembered, Stopped, Started,
        CloseReturned, PastOpen, PastSource, PastMedia
<1>2. LifecycleInv /\ [Next]_vars => \A t \in Session : SessionInv(t)'
  <2> SUFFICES ASSUME LifecycleInv, [Next]_vars
               PROVE  \A t \in Session : SessionInv(t)'
    OBVIOUS
  <2>1. CASE Next
    BY <2>1, ClientKeeps, HandlerKeeps, OpenKeeps, MediaKeeps, TaskKeeps,
       CloseKeeps, StopKeeps DEF Next
  <2>2. CASE UNCHANGED vars
    BY <2>2 DEF vars, connectionVars, taskVars, resourceVars, serverVars, stopVars,
                LifecycleInv, SessionInv, Fresh, Listed, Owner, Remembered,
                Stopped, Started, CloseReturned, PastOpen, PastSource, PastMedia
  <2> QED
    BY <2>1, <2>2
<1> DEFINE AllKept == \A t \in Session : SessionInv(t)
<1>3. LifecycleInv <=> TypeOK /\ AllKept
  BY DEF LifecycleInv
<1>4. Init => AllKept
  BY <1>1
<1>5. TypeOK /\ AllKept /\ [Next]_vars => AllKept'
  BY <1>2, <1>3
<1> HIDE DEF AllKept
<1> QED
  BY <1>3, <1>4, <1>5, TypeCorrect, PTL DEF Spec

-----------------------------------------------------------------------------
(* What follows from it.                                                   *)

(* A session leaves GET /status only with its native resources released,   *)
(* or with their loss recorded in the latch, and with nothing of it left   *)
(* at work (RelayServer._retire_session after Session._close_impl).        *)
THEOREM Release == Spec => []ReleaseContract
<1>1. LifecycleInv => ReleaseContract
  <2> SUFFICES ASSUME LifecycleInv, NEW s \in Session, Gone(s)
               PROVE  /\ native[s] \in {"absent", "released", "wedged"}
                      /\ native[s] = "wedged" => native_teardown_error
                      /\ ~pipeline[s] /\ ~source_track[s]
                      /\ open_task[s] \in {"none", "done", "failed"}
                      /\ source_task[s] = "none"
                      /\ \A d \in Direction : media[s][d] = "none"
    BY DEF ReleaseContract
  <2>1. CloseReturned(s) /\ (close_task[s] = "failed" => native_teardown_error)
    BY DEF LifecycleInv, SessionInv, Listed, Started, Gone
  <2>2. /\ close_task[s] \in PastOpen
        /\ close_task[s] \in PastSource
        /\ close_task[s] \in PastMedia
        /\ close_task[s] # "native"
    BY <2>1 DEF CloseReturned, PastOpen, PastSource, PastMedia
  <2>3. open_task[s] \in {"none", "done", "failed"} /\ ~pipeline[s]
    BY <2>2 DEF LifecycleInv, SessionInv, Owner
  <2>4. native[s] \in {"absent", "released", "wedged"}
    BY <2>2, <2>3 DEF LifecycleInv, SessionInv, Owner, TypeOK
  <2>5. native[s] = "wedged" => native_teardown_error
    BY <2>1, <2>2 DEF LifecycleInv, SessionInv, Remembered, CloseReturned
  <2>6. /\ ~source_track[s] /\ source_task[s] = "none"
        /\ \A d \in Direction : media[s][d] = "none"
    BY <2>1, <2>2 DEF LifecycleInv, SessionInv, Stopped
  <2> QED
    BY <2>3, <2>4, <2>5, <2>6
<1> QED
  BY <1>1, LifecycleInvariant, PTL

(* "closed" reaches a client only for a session whose close returned       *)
(* without an error and which has left GET /status.                        *)
THEOREM Barrier == Spec => []ClosedMeansReleased
<1>1. LifecycleInv => ClosedMeansReleased
  <2> SUFFICES ASSUME LifecycleInv, NEW s \in closed_sent
               PROVE  /\ s \notin sessions
                      /\ native[s] \in {"absent", "released"}
                      /\ ~errors[s]
    BY DEF ClosedMeansReleased
  <2>1. s \in Session /\ s \notin sessions /\ close_task[s] = "ok"
    BY DEF LifecycleInv, SessionInv, Listed, TypeOK
  <2>2. ~errors[s] /\ open_task[s] # "failed"
    BY <2>1 DEF LifecycleInv, SessionInv, Remembered, PastOpen
  <2>3. open_task[s] \in {"none", "done"} /\ ~pipeline[s]
    BY <2>1, <2>2 DEF LifecycleInv, SessionInv, Owner, PastOpen
  <2>4. native[s] \in {"absent", "released"}
    BY <2>1, <2>2, <2>3 DEF LifecycleInv, SessionInv, Owner, Remembered, TypeOK
  <2> QED
    BY <2>1, <2>2, <2>4
<1> QED
  BY <1>1, LifecycleInvariant, PTL

(* When the close task returns no build is running, and no pipeline is     *)
(* left or can still appear, whatever the open task was doing              *)
(* (_close_impl, _open_and_reap).                                          *)
THEOREM OneOwner == Spec => []NoLatePipeline
<1>1. LifecycleInv => NoLatePipeline
  BY DEF LifecycleInv, SessionInv, Owner, CloseReturned, PastOpen, NoLatePipeline
<1> QED
  BY <1>1, LifecycleInvariant, PTL

(* The only step that loses a source task is the return of a seek from     *)
(* _stop_server_source. The close task waits in the same code, but when it *)
(* does nothing is left that could start another task.                     *)
Kept(s) == ~stray[s] /\ (close_task[s] = "source" => source_task[s] # "running")

LEMMA KeptStep ==
  ASSUME LifecycleInv, Next, NEW t \in Session, Kept(t), ~SeekLosesSource(t)
  PROVE  Kept(t)'
<1> USE DEF Kept, TypeOK, LifecycleInv, taskVars, connectionVars
<1>1. ASSUME NEW s \in Session, ClientStep(s) PROVE Kept(t)'
  BY <1>1 DEF ClientStep, OpenSession, RefuseOpen, SeekBegin, Teardown, Disconnect,
              SetState
<1>2. ASSUME NEW s \in Session, HandlerStep(s) PROVE Kept(t)'
  <2> USE DEF ClosePc, RequestClose
  <2>1. CASE SeekStop(s)
    BY <2>1 DEF SeekStop, CancelSource
  <2>2. CASE SeekFlush(s)
    <3>1. handler'[s] # "seek_stop" /\ handler[s] = "seek_stop"
      BY <2>2 DEF SeekFlush
    <3>2. s = t => source_task[t] # "running"
      BY <3>1 DEF SeekLosesSource
    <3>3. ~stray'[t]
      BY <2>2, <3>2 DEF SeekFlush, ForgetSource
    <3>4. close_task' = close_task /\ (source_task'[t] = "none" \/ source_task'[t] = source_task[t])
      BY <2>2 DEF SeekFlush, ForgetSource
    <3> QED
      BY <3>3, <3>4
  <2>3. CASE SeekFinish(s)
    <3>1. close_task[s] = "source" => ~downlink_attached(s)
      BY DEF SessionInv, Stopped, PastMedia, downlink_attached, Direction
    <3>2. close_task' = close_task /\ stray' = stray
      BY <2>3 DEF SeekFinish
    <3>3. close_task[t] = "source" => source_task'[t] = source_task[t]
      BY <2>3, <3>1 DEF SeekFinish, StartServerSource
    <3> QED
      BY <3>2, <3>3
  <2>4. CASE LoopEnds(s) \/ CloseControlSession(s) \/ RetireSession(s) \/ DoneCallback(s)
    BY <2>4 DEF LoopEnds, CloseControlSession, RetireSession, DoneCallback
  <2> QED
    BY <1>2, <2>1, <2>2, <2>3, <2>4 DEF HandlerStep
<1>3. ASSUME NEW s \in Session, OpenStep(s) PROVE Kept(t)'
  BY <1>3 DEF OpenStep, OpenRejected, OpenBuild, BuildReturns, BuildFails, OpenFails,
              RequestClose, OpenReply, OpenReplied, Reap, ReapReturns, ClosePc
<1>4. ASSUME NEW s \in Session, MediaStep(s) PROVE Kept(t)'
  <2>1. close_task' = close_task /\ stray' = stray
    BY <1>4 DEF MediaStep, Attach, Serve, Detach
  <2>2. close_task[t] = "source" => source_task'[t] = source_task[t]
    <3>1. close_task[t] = "source" => \A d \in Direction : media[t][d] = "none"
      BY DEF SessionInv, Stopped, PastMedia
    <3> QED
      BY <1>4, <3>1 DEF MediaStep, Attach, Serve, Detach, StartServerSource
  <2> QED
    BY <2>1, <2>2
<1>5. ASSUME NEW s \in Session,
             SourceEnds(s) \/ StrayEnds(s) \/ PipelineError(s) \/ CancelHandler(s)
      PROVE  Kept(t)'
  BY <1>5 DEF SourceEnds, StrayEnds, PipelineError, CancelHandler, RequestClose, ClosePc
<1>6. ASSUME NEW s \in Session, CloseTaskStep(s) PROVE Kept(t)'
  <2> USE DEF CloseStep, ClosePc
  <2>1. CASE CloseSource(s)
    <3>1. source_task'[t] # "running" \/ close_task'[t] # "source"
      BY <2>1 DEF CloseSource, CancelSource
    <3> QED
      BY <2>1, <3>1 DEF CloseSource
  <2>2. CASE CloseAwaitOpen(s)
    BY <2>2 DEF CloseAwaitOpen, ForgetSource
  <2>3. CASE CloseAnnounce(s) \/ CloseMedia(s) \/ CloseTakePipeline(s) \/ CloseNative(s)
               \/ CloseTracks(s)
    BY <2>3 DEF CloseAnnounce, CloseMedia, CloseTakePipeline, CloseNative, CloseTracks
  <2> QED
    BY <1>6, <2>1, <2>2, <2>3 DEF CloseTaskStep
<1>7. ASSUME StopStep PROVE Kept(t)'
  BY <1>7 DEF StopStep, StopServer, StopMedia, StopSockets, StopListening, StopClose,
              StopClosed, RequestClose, ClosePc
<1> QED
  BY <1>1, <1>2, <1>3, <1>4, <1>5, <1>6, <1>7 DEF Next

(* The demuxer of a server file is closed under a source task only if a    *)
(* seek has lost that task (run stray): neither a close, at any moment,    *)
(* nor an attachment or a restart of the stream loses one.                 *)
THEOREM Demuxer ==
  Spec /\ [][\A s \in Session : ~SeekLosesSource(s)]_vars => []DemuxerInUse
<1> DEFINE AllKept == \A s \in Session : Kept(s)
<1>1. Init => AllKept
  BY DEF Init, Kept
<1>2. LifecycleInv /\ AllKept /\ [Next]_vars /\ [\A s \in Session : ~SeekLosesSource(s)]_vars
        => AllKept'
  <2>1. CASE UNCHANGED vars
    BY <2>1 DEF vars, taskVars, Kept
  <2>2. ASSUME LifecycleInv, AllKept, Next, NEW t \in Session, ~SeekLosesSource(t)
        PROVE  Kept(t)'
    BY <2>2, KeptStep
  <2> QED
    BY <2>1, <2>2
<1>3. LifecycleInv /\ AllKept => DemuxerInUse
  BY DEF LifecycleInv, SessionInv, Stopped, DemuxerInUse, Kept
<1> HIDE DEF AllKept
<1> QED
  BY <1>1, <1>2, <1>3, LifecycleInvariant, PTL DEF Spec

(* The close task only goes forward: no step of any task takes it back.    *)
LEMMA CloseOrder ==
  ASSUME TypeOK, Next, NEW t \in Session, close_task[t] \in PastSource
  PROVE  close_task'[t] \in PastSource
<1> USE DEF TypeOK, ClosePc, PastSource, PastOpen, taskVars, connectionVars
<1>1. ASSUME NEW s \in Session, ClientStep(s) PROVE close_task' = close_task
  BY <1>1 DEF ClientStep, OpenSession, RefuseOpen, SeekBegin, Teardown, Disconnect,
              SetState
<1>2. ASSUME NEW s \in Session, HandlerStep(s) PROVE close_task'[t] = close_task[t]
  BY <1>2 DEF HandlerStep, SeekStop, SeekFlush, SeekFinish, LoopEnds, RequestClose,
              CloseControlSession, RetireSession, DoneCallback
<1>3. ASSUME NEW s \in Session, OpenStep(s) PROVE close_task'[t] = close_task[t]
  BY <1>3 DEF OpenStep, OpenRejected, OpenBuild, BuildReturns, BuildFails, OpenFails,
              RequestClose, OpenReply, OpenReplied, Reap, ReapReturns
<1>4. ASSUME NEW s \in Session, MediaStep(s) PROVE close_task' = close_task
  BY <1>4 DEF MediaStep, Attach, Serve, Detach
<1>5. ASSUME NEW s \in Session,
             SourceEnds(s) \/ StrayEnds(s) \/ PipelineError(s) \/ CancelHandler(s)
      PROVE  close_task'[t] = close_task[t]
  BY <1>5 DEF SourceEnds, StrayEnds, PipelineError, CancelHandler, RequestClose
<1>6. ASSUME NEW s \in Session, CloseTaskStep(s) PROVE close_task'[t] \in PastSource
  BY <1>6 DEF CloseTaskStep, CloseStep, CloseAnnounce, CloseMedia, CloseSource,
              CloseAwaitOpen, CloseTakePipeline, CloseNative, CloseTracks
<1>7. ASSUME StopStep PROVE close_task'[t] = close_task[t]
  BY <1>7 DEF StopStep, StopServer, StopMedia, StopSockets, StopListening, StopClose,
              StopClosed, RequestClose
<1> QED
  BY <1>1, <1>2, <1>3, <1>4, <1>5, <1>6, <1>7 DEF Next

(* Once the close task has awaited the source task, no seek or attachment  *)
(* in flight starts a source task or a media handler again.                *)
THEOREM Quiet == Spec => NothingRestarts
<1> DEFINE A == \A s \in Session :
                  close_task[s] \in {"open", "native", "tracks", "ok", "failed"} =>
                    /\ source_task'[s] = "none"
                    /\ \A d \in Direction : media'[s][d] = "none"
<1>1. LifecycleInv /\ LifecycleInv' /\ [Next]_vars => [A]_vars
  <2> SUFFICES ASSUME LifecycleInv, LifecycleInv', Next, NEW s \in Session,
                      close_task[s] \in PastSource
               PROVE  close_task'[s] \in PastSource
    BY DEF LifecycleInv, SessionInv, Stopped, PastSource, PastMedia, PastOpen
  <2> QED
    BY CloseOrder DEF LifecycleInv
<1> QED
  BY <1>1, LifecycleInvariant, PTL DEF Spec, NothingRestarts

=============================================================================
