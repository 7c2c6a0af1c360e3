----------------------------- MODULE InferWorker -----------------------------
(***************************************************************************)
(* The inference worker process and its facade in the server               *)
(* (upscale_cli/infer_worker.py): frames go out and come back through two  *)
(* blocks of shared memory, requests and replies through pipes, and a      *)
(* thread of its own reads the replies of each generation of the worker    *)
(* into that generation's queue. A worker that crashes or does not answer  *)
(* in time is killed, reaped and restarted once for a frame.               *)
(***************************************************************************)
EXTENDS Integers, Sequences

CONSTANTS MaxFrames,   \* bound: frames given to the facade
          MaxWorkers   \* bound: generations of the worker (a frame restarts it once)

ASSUME InferAssumption == MaxFrames \in Nat /\ MaxWorkers \in Nat

Frames == 1..MaxFrames
Worker == 1..MaxWorkers

VARIABLES
  call,     \* what the facade is doing: operation, place, frame, attempt
  gen,      \* the newest worker started
  owned,    \* is there a _proc (the newest worker, not reaped)?
  proc,     \* each worker: [state, what it works on]
  requests, \* its stdin: frames' headers, and 0 for "end"
  pipe,     \* its stdout
  reader,   \* the thread that reads it
  replies,  \* the queue that thread fills: TRUE for a line or a header, FALSE for the end
  shmIn, shmOut,  \* the frame whose pixels each block holds
  memory,   \* the blocks: "mapped" or "released"
  answers   \* what _infer_with_fallback returned for each frame, 0 for nothing yet

workerVars == <<proc, shmOut>>
facadeVars == <<call, gen, owned, shmIn, memory, answers>>
inferVars == <<facadeVars, workerVars, requests, pipe, reader, replies>>

Place == {"start", "loading", "write", "waiting", "kill", "reap", "stop",
          "release", "done", "raised"}
NoCall == [op |-> "none", at |-> "done", frame |-> 0, try |-> 1]

InferTypeOK ==
  /\ call \in [op : {"none", "init", "infer", "close"}, at : Place,
               frame : 0..MaxFrames, try : 1..2]
  /\ gen \in 0..MaxWorkers /\ owned \in BOOLEAN
  /\ proc \in [Worker -> [state : {"none", "loading", "serving", "busy", "written",
                                   "killed", "dead"}, on : 0..MaxFrames]]
  /\ requests \in [Worker -> Seq(0..MaxFrames)]
  /\ pipe \in [Worker -> Seq({TRUE})]
  /\ reader \in [Worker -> {"none", "reading", "ended"}]
  /\ replies \in [Worker -> Seq(BOOLEAN)]
  /\ shmIn \in 0..MaxFrames /\ shmOut \in 0..MaxFrames
  /\ memory \in {"mapped", "released"}
  /\ answers \in [Frames -> 0..MaxFrames]
  /\ owned => gen # 0

InferInit ==
  /\ call = [op |-> "init", at |-> "start", frame |-> 0, try |-> 1]
  /\ gen = 0 /\ owned = FALSE
  /\ proc = [w \in Worker |-> [state |-> "none", on |-> 0]]
  /\ requests = [w \in Worker |-> <<>>] /\ pipe = [w \in Worker |-> <<>>]
  /\ reader = [w \in Worker |-> "none"] /\ replies = [w \in Worker |-> <<>>]
  /\ shmIn = 0 /\ shmOut = 0 /\ memory = "mapped"
  /\ answers = [f \in Frames |-> 0]

CallAt(place) == call.at = place
CallGoes(place) == call' = [call EXCEPT !.at = place]
Alive(w) == proc[w].state \notin {"none", "dead"}

-----------------------------------------------------------------------------
(* The facade                                                              *)

(* _start_worker: a process, a queue and a reader of their own.            *)
StartWorker ==
  /\ CallAt("start") /\ gen < MaxWorkers
  /\ LET w == gen + 1 IN
       /\ gen' = w /\ owned' = TRUE
       /\ proc' = [proc EXCEPT ![w].state = "loading"]
       /\ reader' = [reader EXCEPT ![w] = "reading"]
  /\ CallGoes("loading")
  /\ UNCHANGED <<requests, pipe, replies, shmIn, shmOut, memory, answers>>

(* A bug: one queue for all generations.                                   *)
ReceiveAnyGeneration(got) ==
  \/ \E w \in Worker :
       /\ replies[w] # <<>> /\ got = Head(replies[w])
       /\ replies' = [replies EXCEPT ![w] = Tail(@)]
  \/ got = FALSE /\ replies[gen] = <<>> /\ UNCHANGED replies

(* The next reply of the newest worker, or none before the timeout.        *)
Receive(got) ==
  \/ /\ replies[gen] # <<>> /\ got = Head(replies[gen])
     /\ replies' = [replies EXCEPT ![gen] = Tail(@)]
  \/ got = FALSE /\ replies[gen] = <<>> /\ UNCHANGED replies

(* READY, with a provider the caller accepts; anything else kills the      *)
(* worker and raises.                                                      *)
AwaitReady ==
  /\ CallAt("loading")
  /\ \E got \in BOOLEAN, accepted \in BOOLEAN :
       /\ Receive(got)
       /\ IF got /\ accepted
            THEN CallGoes(IF call.op = "init" THEN "done" ELSE "write")
            ELSE call' = [call EXCEPT !.at = "kill", !.try = 2]
  /\ UNCHANGED <<gen, owned, workerVars, requests, pipe, reader, shmIn, memory, answers>>

(* A call: the caller stops after the first that raised.                   *)
Infer(f) ==
  /\ CallAt("done") /\ call.op \in {"init", "infer"} /\ memory = "mapped"
  /\ f = call.frame + 1
  /\ call' = [op |-> "infer", at |-> "write", frame |-> f, try |-> 1]
  /\ UNCHANGED <<gen, owned, workerVars, requests, pipe, reader, replies,
                 shmIn, memory, answers>>

Write ==
  /\ CallAt("write")
  /\ shmIn' = call.frame
  /\ \/ /\ proc[gen].state # "dead"
        /\ requests' = [requests EXCEPT ![gen] = Append(@, call.frame)]
        /\ CallGoes("waiting")
     \/ /\ proc[gen].state = "dead"
        /\ CallGoes("kill") /\ UNCHANGED requests
  /\ UNCHANGED <<gen, owned, workerVars, pipe, reader, replies, memory, answers>>

AwaitReply ==
  /\ CallAt("waiting")
  /\ \E got \in BOOLEAN :
       /\ Receive(got)
       /\ IF got THEN /\ answers' = [answers EXCEPT ![call.frame] = shmOut]
                      /\ CallGoes("done")
                 ELSE CallGoes("kill") /\ UNCHANGED answers
  /\ UNCHANGED <<gen, owned, workerVars, requests, pipe, reader, shmIn, memory>>

KillOf(w) == IF Alive(w) THEN [proc EXCEPT ![w].state = "killed"] ELSE proc

Kill ==
  /\ CallAt("kill")
  /\ proc' = IF owned THEN KillOf(gen) ELSE proc
  /\ CallGoes("reap")
  /\ UNCHANGED <<gen, owned, shmOut, requests, pipe, reader, replies, shmIn,
                 memory, answers>>

(* What comes after the old generation is gone.                            *)
AfterReap ==
  CASE call.op \in {"close", "init"} -> CallGoes("release")
    [] call.op = "infer" /\ call.try = 1 -> call' = [call EXCEPT !.at = "start", !.try = 2]
    [] OTHER -> CallGoes("raised")

(* _reap_worker: the process has ended and so has the reader.              *)
Reap ==
  /\ CallAt("reap")
  /\ owned => proc[gen].state = "dead" /\ reader[gen] = "ended"
  /\ owned' = FALSE /\ AfterReap
  /\ UNCHANGED <<gen, workerVars, requests, pipe, reader, replies, shmIn,
                 memory, answers>>

(* It does not end in 5 seconds. A close that asked politely kills it now; *)
(* otherwise the error goes to the caller, and the blocks stay unless the  *)
(* constructor is failing.                                                 *)
ReapTimesOut ==
  /\ CallAt("reap") /\ owned /\ (Alive(gen) \/ reader[gen] # "ended")
  /\ CallGoes(CASE call.op = "close" /\ call.try = 1 -> "stop"
            [] call.op = "init" -> "release"
            [] OTHER -> "raised")
  /\ UNCHANGED <<gen, owned, workerVars, requests, pipe, reader, replies, shmIn,
                 memory, answers>>

(* close: a request to end, then the reaping, then the kill.               *)
Close ==
  /\ call.at \in {"done", "raised"} /\ call.op \in {"init", "infer"}
  /\ memory = "mapped"
  /\ \/ /\ owned /\ proc[gen].state # "dead"
        /\ requests' = [requests EXCEPT ![gen] = Append(@, 0)]
        /\ call' = [call EXCEPT !.op = "close", !.at = "reap", !.try = 1]
     \/ /\ owned => proc[gen].state = "dead"
        /\ call' = [call EXCEPT !.op = "close", !.at = IF owned THEN "stop" ELSE "release"]
        /\ UNCHANGED requests
  /\ UNCHANGED <<gen, owned, workerVars, pipe, reader, replies, shmIn, memory, answers>>

CloseKills ==
  /\ CallAt("stop")
  /\ proc' = KillOf(gen)
  /\ call' = [call EXCEPT !.at = "reap", !.try = 2]
  /\ UNCHANGED <<gen, owned, shmOut, requests, pipe, reader, replies, shmIn,
                 memory, answers>>

ReleaseMemory ==
  /\ CallAt("release")
  /\ memory' = "released"
  /\ CallGoes(IF call.op = "init" THEN "raised" ELSE "done")
  /\ UNCHANGED <<gen, owned, workerVars, requests, pipe, reader, replies, shmIn, answers>>

-----------------------------------------------------------------------------
(* A worker (worker_main). It may stop answering at any place.             *)

LoadModel(w) ==
  /\ proc[w].state = "loading"
  /\ proc' = [proc EXCEPT ![w].state = "serving"]
  /\ pipe' = [pipe EXCEPT ![w] = Append(@, TRUE)]
  /\ UNCHANGED <<facadeVars, shmOut, requests, reader, replies>>

TakeRequest(w) ==
  /\ proc[w].state = "serving" /\ requests[w] # <<>>
  /\ requests' = [requests EXCEPT ![w] = Tail(@)]
  /\ proc' = [proc EXCEPT ![w] = IF Head(requests[w]) = 0
                THEN [state |-> "dead", on |-> 0]
                ELSE [state |-> "busy", on |-> shmIn]]
  /\ UNCHANGED <<facadeVars, shmOut, pipe, reader, replies>>

CopyFrame(w) ==
  /\ proc[w].state \in {"busy", "killed"} /\ proc[w].on # 0
  /\ shmOut' = proc[w].on
  /\ proc' = IF proc[w].state = "busy" THEN [proc EXCEPT ![w].state = "written"]
             ELSE [proc EXCEPT ![w].on = 0]
  /\ UNCHANGED <<facadeVars, requests, pipe, reader, replies>>

Answer(w) ==
  /\ proc[w].state = "written"
  /\ proc' = [proc EXCEPT ![w] = [state |-> "serving", on |-> 0]]
  /\ pipe' = [pipe EXCEPT ![w] = Append(@, TRUE)]
  /\ UNCHANGED <<facadeVars, shmOut, requests, reader, replies>>

(* A crash, or the end of one that was killed.                             *)
Die(w) ==
  /\ Alive(w)
  /\ proc' = [proc EXCEPT ![w] = [state |-> "dead", on |-> 0]]
  /\ UNCHANGED <<facadeVars, shmOut, requests, pipe, reader, replies>>

(* infer-worker-reader.                                                    *)
ReadReply(w) ==
  /\ reader[w] = "reading"
  /\ \/ /\ pipe[w] # <<>>
        /\ pipe' = [pipe EXCEPT ![w] = Tail(@)]
        /\ replies' = [replies EXCEPT ![w] = Append(@, TRUE)]
        /\ UNCHANGED reader
     \/ /\ pipe[w] = <<>> /\ ~Alive(w)
        /\ replies' = [replies EXCEPT ![w] = Append(@, FALSE)]
        /\ reader' = [reader EXCEPT ![w] = "ended"]
        /\ UNCHANGED pipe
  /\ UNCHANGED <<facadeVars, workerVars, requests>>

-----------------------------------------------------------------------------
Facade ==
  \/ StartWorker \/ AwaitReady \/ Write \/ AwaitReply \/ Kill \/ Reap \/ ReapTimesOut
  \/ CloseKills \/ ReleaseMemory

InferNext ==
  \/ Facade
  \/ \E f \in Frames : Infer(f)
  \/ Close
  \/ \E w \in Worker : \/ LoadModel(w) \/ TakeRequest(w) \/ CopyFrame(w)
                       \/ Answer(w) \/ Die(w) \/ ReadReply(w)

InferSpec == InferInit /\ [][InferNext]_inferVars

-----------------------------------------------------------------------------
(* A result is computed from the frame it is returned for, whatever late   *)
(* answers and half-finished copies killed workers leave behind: only one  *)
(* worker at a time has the blocks ("Finish the old generation before      *)
(* pipes or shared buffers are reused", _reap_worker).                     *)
OwnAnswer ==
  /\ \A f \in Frames : answers[f] \in {0, f}
  /\ \A v, w \in Worker : Alive(v) /\ Alive(w) => v = w

(* A call of the facade that has neither returned nor raised.              *)
CallAtWork == ~(call.at \in {"done", "raised"})
=============================================================================
