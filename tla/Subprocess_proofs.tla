------------------------- MODULE Subprocess_proofs -------------------------
(***************************************************************************)
(* The two kinds of subprocess that the server works with, and what they   *)
(* promise for any number of frames, epochs, processes and crashes.        *)
(*                                                                         *)
(* A result of the inference worker belongs to the frame it is returned    *)
(* for (upscale_cli/infer_worker.py). The blocks of shared memory carry no *)
(* frame number, so the proof is about who may still touch them: every     *)
(* generation but the newest is dead before the next one starts, and       *)
(* between the facade and the newest one a single request or reply is on   *)
(* the way.                                                                *)
(*                                                                         *)
(* An epoch leaves its display mapper in order and complete                *)
(* (relay_server/display_mapping.py, relay_server/pipeline.py). The proof  *)
(* follows every item from the queue through the decode thread and the     *)
(* mapper to the stages downstream: what is coming is behind what is       *)
(* inside of the mapper, and that is behind what has passed it.            *)
(***************************************************************************)
EXTENDS InferWorker, DisplayMapper, SequenceTheorems, TLAPS

-----------------------------------------------------------------------------
(* PART 1: the inference worker. The inductive invariant                   *)

(* Every generation has ended before the next one starts, and those to     *)
(* come have left no trace.                                                *)
Generations ==
  /\ \A w \in Worker : w < gen => proc[w].state = "dead"
  /\ \A w \in Worker : w > gen => /\ proc[w].state = "none" /\ reader[w] = "none"
                                  /\ requests[w] = <<>> /\ pipe[w] = <<>>
                                  /\ replies[w] = <<>>

(* Where the facade may be, and with which worker.                         *)
Serving == call.at \in {"loading", "write", "waiting"}
              \/ (call.at = "done" /\ call.op # "close")
FacadeInv ==
  /\ call.at = "start" => gen = 0 \/ proc[gen].state = "dead"
  /\ Serving \/ call.at \in {"kill", "reap", "stop"} => owned
  /\ call.at \in {"start", "loading"} => call.op \in {"init", "infer"}
  /\ call.at \in {"write", "waiting"} => call.op = "infer"
  /\ call.at \in {"stop", "release"} => call.op \in {"init", "close"}
  /\ call.op = "infer" => call.frame # 0

(* What the reader of the newest worker has put into its queue while the   *)
(* facade may still read it: at most one reply, then at most the end.      *)
Ended == reader[gen] = "ended"
Reply == {<<TRUE>>, <<TRUE, FALSE>>}
NoReply == {<<>>, <<FALSE>>}
OneReply ==
  /\ proc[gen].state \in {"loading", "serving", "busy", "written", "dead"}
  /\ reader[gen] \in {"reading", "ended"}
  /\ ~Ended => replies[gen] \in {<<>>, <<TRUE>>}
  /\ Ended => /\ replies[gen] \in {<<FALSE>>, <<TRUE, FALSE>>}
              /\ proc[gen].state = "dead" /\ pipe[gen] = <<>>
  /\ pipe[gen] \in {<<>>, <<TRUE>>}
  /\ pipe[gen] # <<>> => replies[gen] = <<>> /\ proc[gen].state \in {"serving", "dead"}
  /\ replies[gen] \in Reply => proc[gen].state \in {"serving", "dead"}

(* Nothing is on the way between the two.                                  *)
Idle ==
  /\ requests[gen] = <<>> /\ pipe[gen] = <<>> /\ replies[gen] \in NoReply
  /\ proc[gen].state \in {"serving", "dead"}

(* READY is.                                                               *)
Loading ==
  /\ requests[gen] = <<>> /\ proc[gen].state \in {"loading", "serving", "dead"}
  /\ proc[gen].state = "loading" => pipe[gen] = <<>> /\ replies[gen] = <<>>

(* The request for a frame is, or its answer.                              *)
Computed == \/ proc[gen].state = "written" \/ pipe[gen] # <<>> \/ replies[gen] \in Reply
Asked ==
  /\ proc[gen].state # "loading" /\ shmIn = call.frame
  /\ requests[gen] \in {<<>>, <<call.frame>>}
  /\ requests[gen] # <<>> => proc[gen].state \in {"serving", "dead"} /\ ~Computed
  /\ proc[gen].state = "busy" => proc[gen].on = call.frame
  /\ Computed => shmOut = call.frame

Exchange ==
  /\ Serving => OneReply
  /\ call.at = "loading" => Loading
  /\ call.at = "waiting" => Asked
  /\ (call.at = "write" \/ (call.at = "done" /\ call.op # "close")) => Idle

Answers == \A f \in Frames : answers[f] \in {0, f}

InferInv == InferTypeOK /\ Generations /\ FacadeInv /\ Exchange /\ Answers

-----------------------------------------------------------------------------
(* Short sequences                                                         *)

(* Appending to and taking from the queues of a family keeps their type.   *)
LEMMA Queues ==
  ASSUME NEW D, NEW S, NEW q \in [D -> Seq(S)], NEW w \in D
  PROVE  /\ \A x \in S : [q EXCEPT ![w] = Append(@, x)] \in [D -> Seq(S)]
         /\ q[w] # <<>> => [q EXCEPT ![w] = Tail(@)] \in [D -> Seq(S)]
         /\ q[w] # <<>> => Head(q[w]) \in S
<1>1. q[w] \in Seq(S)  OBVIOUS
<1>2. ASSUME NEW x \in S PROVE [q EXCEPT ![w] = Append(@, x)] \in [D -> Seq(S)]
  <2>1. Append(q[w], x) \in Seq(S)  BY <1>1
  <2> QED  BY <2>1
<1>3. ASSUME q[w] # <<>>
      PROVE  [q EXCEPT ![w] = Tail(@)] \in [D -> Seq(S)] /\ Head(q[w]) \in S
  <2>1. Tail(q[w]) \in Seq(S) /\ Head(q[w]) \in S  BY <1>1, <1>3
  <2> QED  BY <2>1
<1> QED  BY <1>2, <1>3

(* A queue of one entry grows to one of two.                               *)
LEMMA Second ==
  ASSUME NEW x, NEW y
  PROVE  Append(<<x>>, y) = <<x, y>>
<1> DEFINE p == <<x>>
           q == <<x, y>>
<1>1. /\ p \in Seq({x, y}) /\ Len(p) = 1 /\ p[1] = x
      /\ q \in Seq({x, y}) /\ Len(q) = 2 /\ q[1] = x /\ q[2] = y
  OBVIOUS
<1>2. Append(p, y) \in Seq({x, y}) /\ Len(Append(p, y)) = 2
  BY <1>1
<1>3. Append(p, y)[1] = x /\ Append(p, y)[2] = y
  BY <1>1
<1>4. \A i \in 1..2 : Append(p, y)[i] = q[i]
  BY <1>1, <1>3
<1> HIDE DEF p, q
<1>5. Append(p, y) = q
  BY <1>1, <1>2, <1>4, SeqEqual
<1> QED  BY <1>5 DEF p, q

(* What a queue of at most two entries becomes.                            *)
LEMMA Short ==
  ASSUME NEW x, NEW y
  PROVE  /\ Append(<<>>, x) = <<x>> /\ Append(<<x>>, y) = <<x, y>>
         /\ Tail(<<x>>) = <<>> /\ Tail(<<x, y>>) = <<y>>
         /\ Head(<<x>>) = x /\ Head(<<x, y>>) = x
         /\ <<x>> # <<>> /\ <<x, y>> # <<>> /\ <<x>> # <<x, y>> /\ <<x>> # <<y, x>>
         /\ <<x>> = <<y>> => x = y
<1>1. Append(<<>>, x) = <<x>>  OBVIOUS
<1>2. Tail(<<x>>) = <<>> /\ Tail(<<x, y>>) = <<y>>  OBVIOUS
<1>3. Head(<<x>>) = x /\ Head(<<x, y>>) = x  OBVIOUS
<1>4. <<x>> # <<>> /\ <<x, y>> # <<>> /\ <<x>> # <<x, y>> /\ <<x>> # <<y, x>>  OBVIOUS
<1>5. <<x>> = <<y>> => x = y  OBVIOUS
<1> QED  BY <1>1, <1>2, <1>3, <1>4, <1>5, Second

-----------------------------------------------------------------------------
(* Types                                                                   *)

CallType == [op : {"none", "init", "infer", "close"}, at : Place,
             frame : 0..MaxFrames, try : 1..2]
ProcType == [state : {"none", "loading", "serving", "busy", "written", "killed", "dead"},
             on : 0..MaxFrames]

(* The facade only moves from place to place within its types.             *)
LEMMA Goes ==
  ASSUME NEW c \in CallType, NEW p \in Place
  PROVE  /\ [c EXCEPT !.at = p] \in CallType
         /\ \A t \in 1..2 : [c EXCEPT !.at = p, !.try = t] \in CallType
         /\ \A t \in 1..2, o \in {"none", "init", "infer", "close"} :
              [c EXCEPT !.op = o, !.at = p, !.try = t] \in CallType
         /\ \A o \in {"none", "init", "infer", "close"} :
              [c EXCEPT !.op = o, !.at = p] \in CallType
BY DEF CallType

(* So do the workers.                                                      *)
LEMMA Moves ==
  ASSUME NEW f \in [Worker -> ProcType], NEW w \in Worker
  PROVE  /\ \A s \in {"none", "loading", "serving", "busy", "written", "killed", "dead"} :
              /\ [f EXCEPT ![w].state = s] \in [Worker -> ProcType]
              /\ \A n \in 0..MaxFrames :
                   [f EXCEPT ![w] = [state |-> s, on |-> n]] \in [Worker -> ProcType]
         /\ 0 \in 0..MaxFrames => [f EXCEPT ![w].on = 0] \in [Worker -> ProcType]
BY DEF ProcType

RequestsType == [Worker -> Seq(0..MaxFrames)]
PipeType == [Worker -> Seq({TRUE})]
RepliesType == [Worker -> Seq(BOOLEAN)]

(* So do the pipes and the queues.                                         *)
LEMMA Flows ==
  ASSUME InferTypeOK, NEW w \in Worker
  PROVE  /\ \A x \in 0..MaxFrames : [requests EXCEPT ![w] = Append(@, x)] \in RequestsType
         /\ requests[w] # <<>> => [requests EXCEPT ![w] = Tail(@)] \in RequestsType
         /\ [pipe EXCEPT ![w] = Append(@, TRUE)] \in PipeType
         /\ pipe[w] # <<>> => [pipe EXCEPT ![w] = Tail(@)] \in PipeType
         /\ \A b \in BOOLEAN : [replies EXCEPT ![w] = Append(@, b)] \in RepliesType
         /\ replies[w] # <<>> => [replies EXCEPT ![w] = Tail(@)] \in RepliesType
<1>1. requests \in [Worker -> Seq(0..MaxFrames)] /\ pipe \in [Worker -> Seq({TRUE})]
      /\ replies \in [Worker -> Seq(BOOLEAN)]
  BY DEF InferTypeOK
<1>2. /\ \A x \in 0..MaxFrames : [requests EXCEPT ![w] = Append(@, x)] \in RequestsType
      /\ requests[w] # <<>> => [requests EXCEPT ![w] = Tail(@)] \in RequestsType
  BY <1>1, Queues, Zenon DEF RequestsType
<1>3. /\ \A x \in {TRUE} : [pipe EXCEPT ![w] = Append(@, x)] \in PipeType
      /\ pipe[w] # <<>> => [pipe EXCEPT ![w] = Tail(@)] \in PipeType
  BY <1>1, Queues, Zenon DEF PipeType
<1>4. /\ \A b \in BOOLEAN : [replies EXCEPT ![w] = Append(@, b)] \in RepliesType
      /\ replies[w] # <<>> => [replies EXCEPT ![w] = Tail(@)] \in RepliesType
  BY <1>1, Queues, Zenon DEF RepliesType
<1> QED  BY <1>2, <1>3, <1>4, Zenon

(* The newest worker is one.                                               *)
LEMMA Newest ==
  InferTypeOK /\ owned => gen \in Worker
BY InferAssumption DEF InferTypeOK, Worker

(* Init satisfies the invariant.                                           *)
LEMMA InferStarts ==
  InferInit => InferInv
<1> SUFFICES ASSUME InferInit PROVE InferInv  OBVIOUS
<1> USE InferAssumption DEF InferInit
<1>1. InferTypeOK
  <2>1. 0 \in 0..MaxFrames /\ <<>> \in Seq(0..MaxFrames) /\ <<>> \in Seq({TRUE})
        /\ <<>> \in Seq(BOOLEAN)
    OBVIOUS
  <2>2. call \in CallType  BY <2>1 DEF CallType, Place
  <2>3. proc \in [Worker -> ProcType]  BY <2>1 DEF ProcType
  <2>4. /\ requests \in [Worker -> Seq(0..MaxFrames)] /\ pipe \in [Worker -> Seq({TRUE})]
        /\ replies \in [Worker -> Seq(BOOLEAN)]
    BY <2>1, Zenon
  <2>5. owned \in BOOLEAN /\ (owned => gen # 0)  OBVIOUS
  <2>6. gen \in 0..MaxWorkers /\ reader \in [Worker -> {"none", "reading", "ended"}]
        /\ shmIn \in 0..MaxFrames /\ shmOut \in 0..MaxFrames
        /\ memory \in {"mapped", "released"} /\ answers \in [Frames -> 0..MaxFrames]
    OBVIOUS
  <2> QED  BY <2>2, <2>3, <2>4, <2>5, <2>6, Zenon DEF InferTypeOK, CallType, ProcType
<1>2. Generations  BY DEF Generations, Worker
<1>3. FacadeInv /\ Exchange  BY DEF FacadeInv, Exchange, Serving
<1>4. Answers  BY DEF Answers
<1> QED  BY <1>1, <1>2, <1>3, <1>4 DEF InferInv

(* Types are kept by every step of the facade ...                          *)
LEMMA FacadeTypes ==
  ASSUME InferTypeOK, FacadeInv, Facade \/ (\E f \in Frames : Infer(f)) \/ Close
  PROVE  InferTypeOK'
<1>0. /\ call \in CallType /\ proc \in [Worker -> ProcType]
      /\ requests \in RequestsType /\ replies \in RepliesType /\ pipe \in PipeType
      /\ owned => gen \in Worker
  BY Newest DEF InferTypeOK, CallType, ProcType, RequestsType, RepliesType, PipeType
<1>g. \A p \in Place : CallGoes(p) => call' \in CallType
  BY <1>0, Goes, Zenon DEF CallGoes
<1>h. /\ \A p \in Place, t \in 1..2 : [call EXCEPT !.at = p, !.try = t] \in CallType
      /\ [call EXCEPT !.op = "close", !.at = "reap", !.try = 1] \in CallType
      /\ \A p \in Place : [call EXCEPT !.op = "close", !.at = p] \in CallType
  <2>1. "close" \in {"none", "init", "infer", "close"} /\ "reap" \in Place /\ 1 \in 1..2
    BY DEF Place
  <2> QED  BY <1>0, <2>1, Goes, Zenon
<1>k. \A w \in Worker : KillOf(w) \in [Worker -> ProcType]
  BY <1>0, Moves DEF KillOf
<1>r. ASSUME NEW got \in BOOLEAN, owned, Receive(got)
      PROVE  replies' \in RepliesType
  BY <1>0, <1>r, Flows, Zenon DEF Receive
<1>1. CASE StartWorker
  <2>1. gen + 1 \in Worker /\ gen' \in 0..MaxWorkers /\ gen' # 0
    BY <1>1, InferAssumption DEF StartWorker, InferTypeOK, Worker
  <2>2. proc' \in [Worker -> ProcType]
    BY <1>0, <1>1, <2>1, Moves DEF StartWorker
  <2>3. call' \in CallType  BY <1>1, <1>g DEF StartWorker, Place
  <2>4. reader' \in [Worker -> {"none", "reading", "ended"}]
    BY <1>1, <2>1 DEF StartWorker, InferTypeOK
  <2>5. UNCHANGED <<requests, pipe, replies, shmIn, shmOut, memory, answers>> /\ owned' = TRUE
    BY <1>1 DEF StartWorker
  <2> QED  BY <2>1, <2>2, <2>3, <2>4, <2>5 DEF InferTypeOK, CallType, ProcType, RequestsType, RepliesType, PipeType
<1>2. CASE AwaitReady
  <2>1. owned  BY <1>2 DEF AwaitReady, FacadeInv, Serving, CallAt
  <2>2. call' \in CallType
    BY <1>2, <1>g, <1>h DEF AwaitReady, Place
  <2>3. replies' \in RepliesType  BY <1>2, <1>r, <2>1 DEF AwaitReady
  <2>4. UNCHANGED <<gen, owned, workerVars, requests, pipe, reader, shmIn, memory, answers>>
    BY <1>2 DEF AwaitReady
  <2> QED  BY <2>2, <2>3, <2>4 DEF InferTypeOK, CallType, ProcType, workerVars, RequestsType,
                                                RepliesType, PipeType
<1>3. CASE Write
  <2>1. owned /\ call.frame \in 0..MaxFrames
    BY <1>0, <1>3 DEF Write, FacadeInv, Serving, CallAt, CallType
  <2>2. call' \in CallType  BY <1>3, <1>g DEF Write, Place
  <2>3. requests' \in RequestsType
    BY <1>0, <1>3, <2>1, Flows, Zenon DEF Write
  <2>4. UNCHANGED <<gen, owned, workerVars, pipe, reader, replies, memory, answers>>
        /\ shmIn' = call.frame
    BY <1>3 DEF Write
  <2> QED  BY <2>1, <2>2, <2>3, <2>4 DEF InferTypeOK, CallType, ProcType, workerVars, RequestsType,
                                                RepliesType, PipeType
<1>4. CASE AwaitReply
  <2>1. owned  BY <1>4 DEF AwaitReply, FacadeInv, Serving, CallAt
  <2>2. call' \in CallType  BY <1>4, <1>g DEF AwaitReply, Place
  <2>3. replies' \in RepliesType  BY <1>4, <1>r, <2>1 DEF AwaitReply
  <2>4. answers' \in [Frames -> 0..MaxFrames]  BY <1>4 DEF AwaitReply, InferTypeOK
  <2>5. UNCHANGED <<gen, owned, workerVars, requests, pipe, reader, shmIn, memory>>
    BY <1>4 DEF AwaitReply
  <2> QED  BY <2>2, <2>3, <2>4, <2>5 DEF InferTypeOK, CallType, ProcType, workerVars, RequestsType,
                                                RepliesType, PipeType
<1>5. CASE Kill \/ CloseKills
  <2>1. owned  BY <1>5 DEF Kill, CloseKills, FacadeInv, CallAt
  <2>2. call' \in CallType  BY <1>5, <1>g, <1>h DEF Kill, CloseKills, Place
  <2>3. proc' \in [Worker -> ProcType]  BY <1>0, <1>5, <1>k, <2>1 DEF Kill, CloseKills
  <2>4. UNCHANGED <<gen, owned, shmOut, requests, pipe, reader, replies, shmIn, memory, answers>>
    BY <1>5 DEF Kill, CloseKills
  <2> QED  BY <2>2, <2>3, <2>4 DEF InferTypeOK, CallType, ProcType, RequestsType, RepliesType, PipeType
<1>6. CASE Reap \/ ReapTimesOut
  <2>1. call' \in CallType
    BY <1>6, <1>g, <1>h DEF Reap, ReapTimesOut, AfterReap, Place
  <2>2. /\ UNCHANGED <<gen, workerVars, requests, pipe, reader, replies, shmIn, memory, answers>>
    BY <1>6 DEF Reap, ReapTimesOut
  <2>3. owned' \in BOOLEAN /\ (owned' => gen' # 0)
    BY <1>6, Zenon DEF Reap, ReapTimesOut, InferTypeOK
  <2> QED  BY <2>1, <2>2, <2>3 DEF InferTypeOK, CallType, ProcType, workerVars, RequestsType,
                                                RepliesType, PipeType
<1>7. CASE ReleaseMemory
  <2>1. call' \in CallType  BY <1>7, <1>g DEF ReleaseMemory, Place
  <2>2. UNCHANGED <<gen, owned, workerVars, requests, pipe, reader, replies, shmIn, answers>>
        /\ memory' = "released"
    BY <1>7 DEF ReleaseMemory
  <2> QED  BY <2>1, <2>2 DEF InferTypeOK, CallType, ProcType, workerVars, RequestsType,
                                                RepliesType, PipeType
<1>8. ASSUME NEW f \in Frames, Infer(f) PROVE InferTypeOK'
  <2>1. call' \in CallType
    BY <1>8, InferAssumption DEF Infer, CallType, Place, Frames
  <2>2. UNCHANGED <<gen, owned, workerVars, requests, pipe, reader, replies, shmIn, memory, answers>>
    BY <1>8 DEF Infer
  <2> QED  BY <2>1, <2>2 DEF InferTypeOK, CallType, ProcType, workerVars, RequestsType,
                                                RepliesType, PipeType
<1>9. CASE Close
  <2>1. call' \in CallType  BY <1>9, <1>h DEF Close, Place
  <2>2. 0 \in 0..MaxFrames  BY InferAssumption
  <2>3. requests' \in RequestsType
    <3>1. CASE UNCHANGED requests  BY <1>0, <3>1
    <3>2. CASE owned /\ requests' = [requests EXCEPT ![gen] = Append(@, 0)]
      BY <1>0, <2>2, <3>2, Flows
    <3> QED  BY <1>9, <3>1, <3>2 DEF Close
  <2>4. UNCHANGED <<gen, owned, workerVars, pipe, reader, replies, shmIn, memory, answers>>
    BY <1>9 DEF Close
  <2> QED  BY <2>1, <2>3, <2>4 DEF InferTypeOK, CallType, ProcType, workerVars, RequestsType,
                                                RepliesType, PipeType
<1> QED  BY <1>1, <1>2, <1>3, <1>4, <1>5, <1>6, <1>7, <1>8, <1>9 DEF Facade

(* ... and by every step of a worker or of its reader.                     *)
WorkerStep(w) ==
  LoadModel(w) \/ TakeRequest(w) \/ CopyFrame(w) \/ Answer(w) \/ Die(w) \/ ReadReply(w)

LEMMA WorkerTypes ==
  ASSUME InferTypeOK, NEW w \in Worker, WorkerStep(w)
  PROVE  InferTypeOK'
<1>0. /\ call \in CallType /\ proc \in [Worker -> ProcType]
      /\ requests \in RequestsType /\ replies \in RepliesType /\ pipe \in PipeType
      /\ 0 \in 0..MaxFrames
  BY InferAssumption DEF InferTypeOK, CallType, ProcType, RequestsType, RepliesType, PipeType
<1>1. proc' \in [Worker -> ProcType]
  <2>1. proc[w].on \in 0..MaxFrames /\ shmIn \in 0..MaxFrames
    BY <1>0 DEF ProcType, InferTypeOK
  <2>2. /\ [proc EXCEPT ![w].state = "serving"] \in [Worker -> ProcType]
        /\ [proc EXCEPT ![w].state = "written"] \in [Worker -> ProcType]
        /\ [proc EXCEPT ![w].on = 0] \in [Worker -> ProcType]
        /\ [proc EXCEPT ![w] = [state |-> "dead", on |-> 0]] \in [Worker -> ProcType]
        /\ [proc EXCEPT ![w] = [state |-> "serving", on |-> 0]] \in [Worker -> ProcType]
        /\ [proc EXCEPT ![w] = [state |-> "busy", on |-> shmIn]] \in [Worker -> ProcType]
    BY <1>0, <2>1, Moves
  <2> QED  BY <1>0, <2>2, Zenon DEF WorkerStep, LoadModel, TakeRequest, CopyFrame, Answer, Die,
                                    ReadReply, workerVars
<1>2. requests' \in RequestsType
  BY <1>0, Flows, Zenon DEF WorkerStep, LoadModel, TakeRequest, CopyFrame, Answer, Die, ReadReply
<1>3. pipe' \in PipeType
  BY <1>0, Flows, Zenon DEF WorkerStep, LoadModel, TakeRequest, CopyFrame, Answer, Die, ReadReply
<1>4. replies' \in RepliesType
  BY <1>0, Flows, Zenon DEF WorkerStep, LoadModel, TakeRequest, CopyFrame, Answer, Die, ReadReply
<1>5. shmOut' \in 0..MaxFrames
  BY <1>0 DEF WorkerStep, LoadModel, TakeRequest, CopyFrame, Answer, Die, ReadReply, workerVars,
              ProcType, InferTypeOK
<1>6. reader' \in [Worker -> {"none", "reading", "ended"}]
  BY DEF WorkerStep, LoadModel, TakeRequest, CopyFrame, Answer, Die, ReadReply, InferTypeOK
<1>7. UNCHANGED facadeVars
  BY DEF WorkerStep, LoadModel, TakeRequest, CopyFrame, Answer, Die, ReadReply
<1> QED  BY <1>1, <1>2, <1>3, <1>4, <1>5, <1>6, <1>7 DEF InferTypeOK, ProcType, facadeVars,
                                                     RequestsType, RepliesType, PipeType

-----------------------------------------------------------------------------
(* Generations                                                             *)

(* Only the newest worker acts; of those before it, a reader may be left.  *)
LEMMA OnlyNewestActs ==
  ASSUME InferTypeOK, Generations, NEW w \in Worker, WorkerStep(w)
  PROVE  /\ w <= gen
         /\ w # gen => /\ UNCHANGED <<proc, shmOut, requests>>
                       /\ \A v \in Worker : v # w => /\ pipe'[v] = pipe[v] /\ replies'[v] = replies[v]
                                                     /\ reader'[v] = reader[v]
<1>1. w \in Nat /\ gen \in Nat  BY InferAssumption DEF InferTypeOK, Worker
<1>2. CASE w > gen
  <2>1. proc[w].state = "none" /\ reader[w] = "none"  BY <1>2 DEF Generations
  <2> QED  BY <2>1 DEF WorkerStep, LoadModel, TakeRequest, CopyFrame, Answer, Die, ReadReply, Alive
<1>3. CASE w < gen
  <2>1. proc[w].state = "dead"  BY <1>3 DEF Generations
  <2>2. ReadReply(w)
    BY <2>1 DEF WorkerStep, LoadModel, TakeRequest, CopyFrame, Answer, Die, Alive
  <2>3. UNCHANGED <<proc, shmOut, requests>>  BY <2>2 DEF ReadReply, workerVars
  <2>4. ASSUME NEW v \in Worker, v # w
        PROVE  pipe'[v] = pipe[v] /\ replies'[v] = replies[v] /\ reader'[v] = reader[v]
    BY <2>2, <2>4 DEF ReadReply, InferTypeOK
  <2> QED  BY <1>1, <1>3, <2>3, <2>4
<1>4. CASE w = gen  BY <1>1, <1>4
<1> QED  BY <1>1, <1>2, <1>3, <1>4

(* No step touches a generation that has ended or is yet to come.          *)
LEMMA GenerationsKept ==
  ASSUME InferTypeOK, Generations, FacadeInv, InferNext
  PROVE  Generations'
<1>0. gen \in Nat /\ Worker \subseteq Nat /\ (owned => gen \in Worker)
  <2>1. gen \in Nat  BY DEF InferTypeOK
  <2>2. Worker \subseteq Nat  BY InferAssumption DEF Worker
  <2>3. owned => gen \in Worker  BY Newest
  <2> QED  BY <2>1, <2>2, <2>3
<1>1. CASE StartWorker
  <2>1. gen + 1 \in Worker /\ gen' = gen + 1
    BY <1>1, InferAssumption DEF StartWorker, InferTypeOK, Worker
  <2>2. \A v \in Worker : v # gen + 1 => proc'[v] = proc[v] /\ reader'[v] = reader[v]
    BY <1>1 DEF StartWorker, InferTypeOK
  <2>3. UNCHANGED <<requests, pipe, replies>>  BY <1>1 DEF StartWorker
  <2>4. gen = 0 \/ proc[gen].state = "dead"  BY <1>1 DEF StartWorker, FacadeInv, CallAt
  <2>5. ASSUME NEW v \in Worker, v < gen' PROVE proc'[v].state = "dead"
    <3>1. v < gen \/ (v = gen /\ gen # 0)  BY <1>0, <2>1, <2>5 DEF Worker
    <3> QED  BY <1>0, <2>1, <2>2, <2>4, <3>1 DEF Generations
  <2>6. ASSUME NEW v \in Worker, v > gen'
        PROVE  /\ proc'[v].state = "none" /\ reader'[v] = "none"
               /\ requests'[v] = <<>> /\ pipe'[v] = <<>> /\ replies'[v] = <<>>
    <3>1. v > gen /\ v # gen + 1  BY <1>0, <2>1, <2>6
    <3> QED  BY <2>2, <2>3, <3>1 DEF Generations
  <2> QED  BY <2>5, <2>6 DEF Generations
<1>2. ASSUME gen' = gen,
             \A v \in Worker : v # gen => /\ proc'[v] = proc[v] /\ reader'[v] = reader[v]
                                          /\ requests'[v] = requests[v] /\ pipe'[v] = pipe[v]
                                          /\ replies'[v] = replies[v]
      PROVE  Generations'
  BY <1>0, <1>2 DEF Generations
<1>3. CASE AwaitReady \/ AwaitReply
  <2>1. UNCHANGED <<gen, proc, requests, pipe, reader>> /\ owned
    BY <1>3 DEF AwaitReady, AwaitReply, workerVars, FacadeInv, Serving, CallAt
  <2>2. \A v \in Worker : v # gen => replies'[v] = replies[v]
    BY <1>3 DEF AwaitReady, AwaitReply, Receive, InferTypeOK
  <2> QED  BY <1>2, <2>1, <2>2
<1>4. CASE Write \/ Close
  <2>1. UNCHANGED <<gen, proc, replies, pipe, reader>>
    BY <1>4 DEF Write, Close, workerVars
  <2>2. \A v \in Worker : v # gen => requests'[v] = requests[v]
    BY <1>4 DEF Write, Close, InferTypeOK
  <2> QED  BY <1>2, <2>1, <2>2
<1>5. CASE Kill \/ CloseKills
  <2>1. UNCHANGED <<gen, requests, replies, pipe, reader>>
    BY <1>5 DEF Kill, CloseKills
  <2>2. \A v \in Worker : v # gen => proc'[v] = proc[v]
    BY <1>5 DEF Kill, CloseKills, KillOf, InferTypeOK
  <2> QED  BY <1>2, <2>1, <2>2
<1>6. CASE Reap \/ ReapTimesOut \/ ReleaseMemory \/ \E f \in Frames : Infer(f)
  <2>1. UNCHANGED <<gen, proc, requests, replies, pipe, reader>>
    BY <1>6 DEF Reap, ReapTimesOut, ReleaseMemory, Infer, workerVars
  <2> QED  BY <1>2, <2>1
<1>7. ASSUME NEW w \in Worker, WorkerStep(w) PROVE Generations'
  <2>1. gen' = gen
    BY <1>7 DEF WorkerStep, LoadModel, TakeRequest, CopyFrame, Answer, Die, ReadReply, facadeVars
  <2>2. CASE w = gen
    <3>1. \A v \in Worker : v # gen => /\ proc'[v] = proc[v] /\ reader'[v] = reader[v]
                                       /\ requests'[v] = requests[v] /\ pipe'[v] = pipe[v]
                                       /\ replies'[v] = replies[v]
      BY <1>7, <2>2 DEF WorkerStep, LoadModel, TakeRequest, CopyFrame, Answer, Die, ReadReply,
                        InferTypeOK, workerVars
    <3> QED  BY <1>2, <2>1, <3>1
  <2>3. CASE w # gen
    <3>1. /\ w < gen /\ UNCHANGED <<proc, requests>>
          /\ \A v \in Worker : v # w => /\ pipe'[v] = pipe[v] /\ replies'[v] = replies[v]
                                        /\ reader'[v] = reader[v]
      <4>1. /\ w <= gen /\ UNCHANGED <<proc, shmOut, requests>>
            /\ \A v \in Worker : v # w => /\ pipe'[v] = pipe[v] /\ replies'[v] = replies[v]
                                          /\ reader'[v] = reader[v]
        BY <1>7, <2>3, OnlyNewestActs
      <4>2. w < gen  BY <1>0, <2>3, <4>1
      <4> QED  BY <4>1, <4>2
    <3> QED  BY <1>0, <2>1, <3>1 DEF Generations
  <2> QED  BY <2>2, <2>3
<1> QED  BY <1>1, <1>3, <1>4, <1>5, <1>6, <1>7 DEF InferNext, Facade, WorkerStep

-----------------------------------------------------------------------------
(* The places of the facade                                                *)

(* Every step of the facade keeps what is known of its place.              *)
LEMMA FacadeKept ==
  ASSUME InferTypeOK, FacadeInv, InferNext
  PROVE  FacadeInv'
<1>0. call \in CallType  BY DEF InferTypeOK, CallType
<1>g. \A p \in Place : CallGoes(p) => /\ call'.at = p /\ call'.op = call.op
                                      /\ call'.frame = call.frame
  BY <1>0 DEF CallGoes, CallType
<1>1. CASE StartWorker
  <2>1. call'.at = "loading" /\ call'.op = call.op /\ call'.frame = call.frame /\ owned'
    BY <1>1, <1>g DEF StartWorker, Place
  <2> QED  BY <1>1, <2>1 DEF StartWorker, FacadeInv, Serving, CallAt
<1>2. CASE AwaitReady
  <2>1. call'.at \in {"done", "write", "kill"} /\ call'.op = call.op /\ call'.frame = call.frame
        /\ (call'.at = "write" => call.op # "init")
    BY <1>0, <1>2 DEF AwaitReady, CallGoes, CallType
  <2> QED  BY <1>2, <2>1 DEF AwaitReady, FacadeInv, Serving, CallAt
<1>3. CASE Write \/ AwaitReply
  <2>1. call'.at \in {"waiting", "kill", "done"} /\ call'.op = call.op /\ call'.frame = call.frame
        /\ owned' = owned
    BY <1>0, <1>3 DEF Write, AwaitReply, CallGoes, CallType
  <2> QED  BY <1>3, <2>1 DEF Write, AwaitReply, FacadeInv, Serving, CallAt
<1>4. CASE Kill \/ CloseKills
  <2>1. call'.at = "reap" /\ call'.op = call.op /\ call'.frame = call.frame /\ owned' = owned
    BY <1>0, <1>4 DEF Kill, CloseKills, CallGoes, CallType
  <2> QED  BY <1>4, <2>1 DEF Kill, CloseKills, FacadeInv, Serving, CallAt
<1>5. CASE Reap
  <2>1. owned /\ proc[gen].state = "dead" /\ gen' = gen /\ proc' = proc
    BY <1>5 DEF Reap, FacadeInv, CallAt, workerVars
  <2>2. CASE call.op = "infer" /\ call.try = 1
    <3>1. call'.at = "start" /\ call'.op = "infer" /\ call'.frame = call.frame
      BY <1>0, <1>5, <2>2 DEF Reap, AfterReap, CallType
    <3> QED  BY <2>1, <2>2, <3>1 DEF FacadeInv, Serving
  <2>3. CASE ~(call.op = "infer" /\ call.try = 1)
    <3>1. call'.at \in {"release", "raised"} /\ call'.op = call.op /\ call'.frame = call.frame
          /\ (call'.at = "release" => call.op \in {"init", "close"})
      BY <1>0, <1>5, <2>3 DEF Reap, AfterReap, CallGoes, CallType
    <3> QED  BY <3>1 DEF FacadeInv, Serving
  <2> QED  BY <2>2, <2>3
<1>6. CASE ReapTimesOut \/ ReleaseMemory
  <2>1. call'.at \in {"stop", "release", "raised", "done"} /\ call'.op = call.op
        /\ call'.frame = call.frame /\ (call'.at = "stop" => owned) /\ owned' = owned
        /\ (call'.at \in {"stop", "release"} => call.op \in {"init", "close"})
        /\ (call'.at = "done" => call.op = "close")
    BY <1>0, <1>6 DEF ReapTimesOut, ReleaseMemory, CallGoes, CallType, FacadeInv, CallAt
  <2> QED  BY <2>1 DEF FacadeInv, Serving
<1>7. ASSUME NEW f \in Frames, Infer(f) PROVE FacadeInv'
  <2>1. call'.at = "write" /\ call'.op = "infer" /\ call'.frame = f /\ owned' = owned
    BY <1>7 DEF Infer
  <2>2. f # 0  BY InferAssumption DEF Frames
  <2> QED  BY <1>7, <2>1, <2>2 DEF Infer, FacadeInv, Serving, CallAt
<1>8. CASE Close
  <2>1. call'.op = "close" /\ call'.at \in {"reap", "stop", "release"} /\ owned' = owned
        /\ (call'.at \in {"reap", "stop"} => owned)
    BY <1>0, <1>8 DEF Close, CallType
  <2> QED  BY <2>1 DEF FacadeInv, Serving
<1>9. ASSUME NEW w \in Worker, WorkerStep(w) PROVE FacadeInv'
  <2>1. UNCHANGED facadeVars
    BY <1>9 DEF WorkerStep, LoadModel, TakeRequest, CopyFrame, Answer, Die, ReadReply
  <2>2. ASSUME NEW v \in Worker, proc[v].state = "dead" PROVE proc'[v].state = "dead"
    BY <1>9, <2>2 DEF WorkerStep, LoadModel, TakeRequest, CopyFrame, Answer, Die, ReadReply,
                      InferTypeOK, workerVars, Alive
  <2>3. gen = 0 \/ gen \in Worker  BY InferAssumption DEF InferTypeOK, Worker
  <2> QED  BY <2>1, <2>2, <2>3 DEF FacadeInv, Serving, facadeVars
<1> QED  BY <1>1, <1>2, <1>3, <1>4, <1>5, <1>6, <1>7, <1>8, <1>9 DEF InferNext, Facade, WorkerStep

-----------------------------------------------------------------------------
(* What is on the way                                                      *)

(* A step of the facade leaves at most one request or reply on the way.    *)
LEMMA FacadeExchange ==
  ASSUME InferTypeOK, Generations, FacadeInv, Exchange,
         Facade \/ (\E f \in Frames : Infer(f)) \/ Close
  PROVE  Exchange'
<1>0. call \in CallType  BY DEF InferTypeOK, CallType
<1>s. \A x : /\ <<x>> # <<>> /\ <<x, FALSE>> # <<>> /\ Tail(<<x>>) = <<>>
             /\ Tail(<<x, FALSE>>) = <<FALSE>> /\ Append(<<>>, x) = <<x>>
             /\ Head(<<x>>) = x /\ Head(<<x, FALSE>>) = x
  BY Short
<1>q. <<TRUE>> \notin NoReply /\ <<TRUE, FALSE>> \notin NoReply /\ <<FALSE>> \in NoReply
      /\ <<>> \in NoReply /\ <<>> \notin Reply /\ <<FALSE>> \notin Reply
  BY DEF NoReply, Reply
<1>1. CASE StartWorker
  <2>1. call'.at = "loading"  BY <1>0, <1>1 DEF StartWorker, CallGoes, CallType
  <2>2. gen' = gen + 1 /\ gen + 1 \in Worker /\ gen + 1 > gen
    BY <1>1, InferAssumption DEF StartWorker, InferTypeOK, Worker
  <2>3. proc'[gen'].state = "loading" /\ reader'[gen'] = "reading"
    BY <1>1, <2>2 DEF StartWorker, InferTypeOK
  <2>4. requests'[gen'] = <<>> /\ pipe'[gen'] = <<>> /\ replies'[gen'] = <<>>
    BY <1>1, <2>2 DEF StartWorker, Generations
  <2> QED  BY <2>1, <2>3, <2>4, <1>q DEF Exchange, Serving, OneReply, Loading, Ended
<1>2. CASE AwaitReady
  <2>1. OneReply /\ Loading /\ owned /\ gen \in Worker
    BY <1>2, Newest DEF AwaitReady, Exchange, CallAt, Serving, FacadeInv
  <2>2. UNCHANGED <<gen, proc, requests, pipe, reader>>
    BY <1>2 DEF AwaitReady, workerVars
  <2>3. PICK got \in BOOLEAN, accepted \in BOOLEAN :
          /\ Receive(got)
          /\ IF got /\ accepted
               THEN CallGoes(IF call.op = "init" THEN "done" ELSE "write")
               ELSE call' = [call EXCEPT !.at = "kill", !.try = 2]
    BY <1>2 DEF AwaitReady
  <2>4. CASE ~(got /\ accepted)
    <3>1. call'.at = "kill"  BY <1>0, <2>3, <2>4 DEF CallType
    <3> QED  BY <3>1 DEF Exchange, Serving
  <2>5. CASE got /\ accepted
    <3>1. call'.at \in {"done", "write"}
      BY <1>0, <2>3, <2>5 DEF CallGoes, CallType
    <3>2. replies[gen] # <<>> /\ Head(replies[gen]) = TRUE /\ replies'[gen] = Tail(replies[gen])
      BY <2>1, <2>3, <2>5 DEF Receive, InferTypeOK
    <3>3. replies[gen] \in Reply /\ replies'[gen] \in NoReply /\ (Ended => replies'[gen] = <<FALSE>>)
          /\ (~Ended => replies'[gen] = <<>>)
      BY <1>s, <1>q, <2>1, <3>2 DEF OneReply, Reply
    <3>4. pipe[gen] = <<>> /\ requests[gen] = <<>> /\ proc[gen].state \in {"serving", "dead"}
      BY <1>q, <2>1, <3>3 DEF OneReply, Loading
    <3>5. OneReply' /\ Idle'
      BY <1>q, <2>1, <2>2, <3>3, <3>4 DEF OneReply, Idle, Ended
    <3> QED  BY <3>1, <3>5 DEF Exchange, Serving
  <2> QED  BY <2>4, <2>5
<1>3. CASE Write
  <2>1. OneReply /\ Idle /\ owned /\ gen \in Worker
    BY <1>3, Newest DEF Write, Exchange, CallAt, Serving, FacadeInv
  <2>2. UNCHANGED <<gen, proc, shmOut, replies, pipe, reader>> /\ shmIn' = call.frame
    BY <1>3 DEF Write, workerVars
  <2>3. CASE CallGoes("kill")
    <3>1. call'.at = "kill"  BY <1>0, <2>3 DEF CallGoes, CallType
    <3> QED  BY <3>1 DEF Exchange, Serving
  <2>4. CASE proc[gen].state # "dead" /\ CallGoes("waiting")
                /\ requests' = [requests EXCEPT ![gen] = Append(@, call.frame)]
    <3>1. call'.at = "waiting" /\ call'.frame = call.frame
      BY <1>0, <2>4 DEF CallGoes, CallType
    <3>2. requests'[gen] = <<call.frame>>
      BY <1>s, <2>1, <2>4 DEF Idle, InferTypeOK
    <3>3. OneReply'  BY <2>1, <2>2 DEF OneReply, Ended
    <3>4. proc[gen].state = "serving" /\ ~Computed'
      BY <1>q, <2>1, <2>2, <2>4 DEF Idle, Computed, NoReply, Reply
    <3>5. Asked'
      BY <2>2, <3>1, <3>2, <3>4 DEF Asked
    <3> QED  BY <3>1, <3>3, <3>5 DEF Exchange, Serving
  <2> QED  BY <1>3, <2>3, <2>4 DEF Write
<1>4. CASE AwaitReply
  <2>1. OneReply /\ Asked /\ owned /\ gen \in Worker
    BY <1>4, Newest DEF AwaitReply, Exchange, CallAt, Serving, FacadeInv
  <2>2. UNCHANGED <<gen, proc, requests, pipe, reader>>
    BY <1>4 DEF AwaitReply, workerVars
  <2>3. PICK got \in BOOLEAN : /\ Receive(got)
                               /\ IF got THEN CallGoes("done") ELSE CallGoes("kill")
    BY <1>4 DEF AwaitReply
  <2>4. CASE ~got
    <3>1. call'.at = "kill"  BY <1>0, <2>3, <2>4 DEF CallGoes, CallType
    <3> QED  BY <3>1 DEF Exchange, Serving
  <2>5. CASE got
    <3>1. call'.at = "done"  BY <1>0, <2>3, <2>5 DEF CallGoes, CallType
    <3>2. replies[gen] # <<>> /\ Head(replies[gen]) = TRUE /\ replies'[gen] = Tail(replies[gen])
      BY <2>1, <2>3, <2>5 DEF Receive, InferTypeOK
    <3>3. replies[gen] \in Reply /\ replies'[gen] \in NoReply /\ (Ended => replies'[gen] = <<FALSE>>)
          /\ (~Ended => replies'[gen] = <<>>)
      BY <1>s, <1>q, <2>1, <3>2 DEF OneReply, Reply
    <3>4. pipe[gen] = <<>> /\ requests[gen] = <<>> /\ proc[gen].state \in {"serving", "dead"}
      BY <1>q, <2>1, <3>3 DEF OneReply, Asked, Computed
    <3>5. OneReply' /\ Idle'
      BY <1>q, <2>1, <2>2, <3>3, <3>4 DEF OneReply, Idle, Ended
    <3> QED  BY <3>1, <3>5 DEF Exchange, Serving
  <2> QED  BY <2>4, <2>5
<1>5. CASE Kill \/ CloseKills \/ Reap \/ ReapTimesOut \/ ReleaseMemory \/ Close
  <2>1. call'.at \in {"reap", "start", "release", "raised", "stop", "done"}
        /\ (call'.at = "done" => call'.op = "close")
    BY <1>0, <1>5 DEF Kill, CloseKills, Reap, AfterReap, ReapTimesOut, ReleaseMemory, Close, CallGoes,
                      CallType, FacadeInv, CallAt
  <2> QED  BY <2>1 DEF Exchange, Serving
<1>6. ASSUME NEW f \in Frames, Infer(f) PROVE Exchange'
  <2>1. OneReply /\ Idle  BY <1>6 DEF Infer, Exchange, Serving, CallAt
  <2>2. UNCHANGED <<gen, proc, requests, replies, pipe, reader>> /\ call'.at = "write"
    BY <1>6 DEF Infer, workerVars
  <2> QED  BY <2>1, <2>2 DEF Exchange, Serving, OneReply, Idle, Ended
<1> QED  BY <1>1, <1>2, <1>3, <1>4, <1>5, <1>6 DEF Facade

(* So does a step of the newest worker or of its reader; the pixels it     *)
(* leaves in the block are those of the frame that was asked for.          *)
LEMMA WorkerExchange ==
  ASSUME InferTypeOK, Generations, FacadeInv, Exchange, NEW w \in Worker, WorkerStep(w)
  PROVE  Exchange'
<1>s. \A x : /\ <<x>> # <<>> /\ Tail(<<x>>) = <<>> /\ Append(<<>>, x) = <<x>>
             /\ Append(<<x>>, FALSE) = <<x, FALSE>> /\ Head(<<x>>) = x
  <2> TAKE x
  <2>1. Append(<<x>>, FALSE) = <<x, FALSE>>  BY Second
  <2>2. Append(<<>>, x) = <<x>>  OBVIOUS
  <2>3. Tail(<<x>>) = <<>> /\ Head(<<x>>) = x  OBVIOUS
  <2>4. <<x>> # <<>>  OBVIOUS
  <2> QED  BY <2>1, <2>2, <2>3, <2>4
<1>q. <<TRUE>> \notin NoReply /\ <<TRUE, FALSE>> \notin NoReply /\ <<FALSE>> \in NoReply
      /\ <<>> \in NoReply /\ <<>> \notin Reply /\ <<FALSE>> \notin Reply
      /\ <<TRUE>> \in Reply /\ <<TRUE, FALSE>> \in Reply
  BY DEF NoReply, Reply
<1>f. UNCHANGED facadeVars
  BY DEF WorkerStep, LoadModel, TakeRequest, CopyFrame, Answer, Die, ReadReply
<1>1. CASE w # gen
  <2>1. gen \in Worker => UNCHANGED <<proc[gen], requests[gen], pipe[gen], replies[gen],
                                      reader[gen], shmOut>>
    BY <1>1, <1>f, OnlyNewestActs DEF facadeVars
  <2>2. Serving => gen \in Worker  BY Newest DEF FacadeInv
  <2> QED  BY <1>f, <2>1, <2>2 DEF Exchange, Serving, OneReply, Loading, Asked, Computed, Idle,
                                   Ended, facadeVars
<1>2. CASE w = gen /\ Serving
  <2>0. /\ gen \in Worker /\ OneReply /\ gen' = gen
        /\ call' = call /\ shmIn' = shmIn /\ Serving'
    BY <1>2, <1>f, Newest DEF FacadeInv, Exchange, facadeVars, Serving
  <2>1. CASE LoadModel(w)
    <3>1. /\ proc[gen].state = "loading" /\ proc'[gen].state = "serving"
          /\ pipe'[gen] = Append(pipe[gen], TRUE)
          /\ UNCHANGED <<shmOut, requests, replies, reader>>
      BY <1>2, <2>0, <2>1 DEF LoadModel, InferTypeOK
    <3>2. call.at = "loading" /\ pipe'[gen] = <<TRUE>> /\ replies[gen] = <<>>
      BY <1>2, <1>s, <3>1 DEF Exchange, Serving, Loading, Idle, Asked
    <3>3. OneReply' /\ Loading'
      BY <1>2, <1>q, <1>s, <2>0, <3>1, <3>2 DEF OneReply, Loading, Ended, Exchange
    <3> QED  BY <2>0, <3>2, <3>3 DEF Exchange, Serving
  <2>2. CASE TakeRequest(w)
    <3>1. requests[gen] # <<>> /\ proc[gen].state = "serving" /\ requests'[gen] = Tail(requests[gen])
          /\ UNCHANGED <<shmOut, pipe, replies, reader>>
      BY <1>2, <2>0, <2>2 DEF TakeRequest, InferTypeOK
    <3>2. call.at = "waiting" /\ requests[gen] = <<call.frame>> /\ ~Computed /\ Asked
      BY <1>2, <3>1 DEF Exchange, Serving, Loading, Idle, Asked
    <3>3. Head(requests[gen]) # 0 /\ requests'[gen] = <<>>
      BY <1>s, <3>1, <3>2 DEF FacadeInv
    <3>4. proc'[gen] = [state |-> "busy", on |-> shmIn]
      BY <1>2, <2>0, <2>2, <3>3 DEF TakeRequest, InferTypeOK
    <3>a. ~Ended /\ pipe[gen] = <<>> /\ replies[gen] = <<>>
      BY <1>q, <2>0, <3>1, <3>2 DEF OneReply, Computed
    <3>5. OneReply'
      BY <1>q, <2>0, <3>1, <3>4, <3>a DEF OneReply, Ended
    <3>6. Asked'
      BY <2>0, <3>1, <3>2, <3>3, <3>4 DEF Asked, Computed
    <3> QED  BY <2>0, <3>2, <3>5, <3>6 DEF Exchange, Serving
  <2>3. CASE CopyFrame(w)
    <3>1. proc[gen].state = "busy"
      BY <1>2, <2>0, <2>3 DEF CopyFrame, OneReply
    <3>2. proc'[gen].state = "written" /\ shmOut' = proc[gen].on
          /\ UNCHANGED <<requests, pipe, replies, reader>>
      BY <1>2, <2>0, <2>3, <3>1 DEF CopyFrame, InferTypeOK
    <3>3. call.at = "waiting" /\ Asked /\ requests[gen] = <<>> /\ shmOut' = call.frame
      BY <1>2, <3>1, <3>2 DEF Exchange, Serving, Loading, Idle, Asked
    <3>4. pipe[gen] = <<>> /\ replies[gen] \notin Reply
      BY <2>0, <3>1 DEF OneReply
    <3>5. OneReply'  BY <2>0, <3>1, <3>2, <3>4 DEF OneReply, Ended
    <3>6. Asked'  BY <2>0, <3>2, <3>3 DEF Asked
    <3> QED  BY <2>0, <3>3, <3>5, <3>6 DEF Exchange, Serving
  <2>4. CASE Answer(w)
    <3>1. /\ proc[gen].state = "written" /\ proc'[gen] = [state |-> "serving", on |-> 0]
          /\ pipe'[gen] = Append(pipe[gen], TRUE)
          /\ UNCHANGED <<shmOut, requests, replies, reader>>
      BY <1>2, <2>0, <2>4 DEF Answer, InferTypeOK
    <3>2. call.at = "waiting" /\ Asked /\ requests[gen] = <<>> /\ shmOut = call.frame
      BY <1>2, <3>1 DEF Exchange, Serving, Loading, Idle, Asked, Computed
    <3>3. pipe'[gen] = <<TRUE>> /\ replies[gen] = <<>>
      BY <1>q, <1>s, <2>0, <3>1 DEF OneReply
    <3>a. ~Ended  BY <2>0, <3>1 DEF OneReply
    <3>b. replies'[gen] = <<>> /\ reader'[gen] = "reading" /\ proc'[gen].state = "serving"
      BY <2>0, <3>1, <3>3, <3>a DEF OneReply, Ended
    <3>4. OneReply'  BY <1>q, <2>0, <3>3, <3>b DEF OneReply, Ended
    <3>5. Asked'  BY <2>0, <3>1, <3>2 DEF Asked
    <3> QED  BY <2>0, <3>2, <3>4, <3>5 DEF Exchange, Serving
  <2>5. CASE Die(w)
    <3>1. proc'[gen].state = "dead" /\ UNCHANGED <<shmOut, requests, pipe, replies, reader>>
      BY <1>2, <2>0, <2>5 DEF Die, InferTypeOK
    <3>2. OneReply'  BY <2>0, <3>1 DEF OneReply, Ended
    <3>3. Loading => Loading'  BY <2>0, <3>1 DEF Loading
    <3>4. Idle => Idle'  BY <2>0, <3>1 DEF Idle
    <3>5. Computed' => Computed  BY <2>0, <3>1 DEF Computed
    <3>6. Asked => Asked'  BY <2>0, <3>1, <3>5 DEF Asked
    <3> QED  BY <2>0, <3>2, <3>3, <3>4, <3>6 DEF Exchange, Serving
  <2>6. CASE ReadReply(w)
    <3>0. UNCHANGED <<proc, shmOut, requests>> /\ reader[gen] = "reading"
      BY <1>2, <2>6 DEF ReadReply, workerVars
    <3>1. CASE /\ pipe[w] # <<>>
               /\ pipe' = [pipe EXCEPT ![w] = Tail(@)]
               /\ replies' = [replies EXCEPT ![w] = Append(@, TRUE)]
               /\ UNCHANGED reader
      <4>1. /\ pipe[gen] = <<TRUE>> /\ replies[gen] = <<>>
            /\ proc[gen].state \in {"serving", "dead"}
        BY <1>2, <2>0, <3>1 DEF OneReply
      <4>2. pipe'[gen] = <<>> /\ replies'[gen] = <<TRUE>>
        BY <1>2, <1>s, <2>0, <3>1, <4>1 DEF InferTypeOK
      <4>3. OneReply'  BY <1>q, <1>s, <2>0, <3>0, <3>1, <4>1, <4>2 DEF OneReply, Ended
      <4>4. Loading => Loading'  BY <2>0, <3>0, <4>1 DEF Loading
      <4>5. ~Idle  BY <1>s, <4>1 DEF Idle
      <4>6. Computed  BY <1>s, <4>1 DEF Computed
      <4>7. Asked => Asked'  BY <2>0, <3>0, <4>6 DEF Asked
      <4> QED  BY <2>0, <4>3, <4>4, <4>5, <4>7 DEF Exchange, Serving
    <3>2. CASE /\ pipe[w] = <<>> /\ ~Alive(w)
               /\ replies' = [replies EXCEPT ![w] = Append(@, FALSE)]
               /\ reader' = [reader EXCEPT ![w] = "ended"]
               /\ UNCHANGED pipe
      <4>1. proc[gen].state = "dead" /\ pipe[gen] = <<>> /\ replies[gen] \in {<<>>, <<TRUE>>}
        BY <1>2, <2>0, <3>0, <3>2 DEF OneReply, Alive, Ended
      <4>2. reader'[gen] = "ended" /\ replies'[gen] = Append(replies[gen], FALSE)
        BY <1>2, <2>0, <3>2 DEF InferTypeOK
      <4>3. /\ replies'[gen] \in {<<FALSE>>, <<TRUE, FALSE>>}
            /\ (replies'[gen] \in Reply) <=> (replies[gen] \in Reply)
            /\ (replies'[gen] \in NoReply) <=> (replies[gen] \in NoReply)
        BY <1>q, <1>s, <4>1, <4>2
      <4>4. OneReply'  BY <2>0, <3>0, <3>2, <4>1, <4>2, <4>3 DEF OneReply, Ended
      <4>5. Loading => Loading'  BY <2>0, <3>0, <4>1 DEF Loading
      <4>6. Idle => Idle'  BY <2>0, <3>0, <3>2, <4>3 DEF Idle
      <4>7. Computed' <=> Computed  BY <2>0, <3>0, <3>2, <4>3 DEF Computed
      <4>8. Asked => Asked'  BY <2>0, <3>0, <4>7 DEF Asked
      <4> QED  BY <2>0, <4>4, <4>5, <4>6, <4>8 DEF Exchange, Serving
    <3> QED  BY <2>6, <3>1, <3>2 DEF ReadReply
  <2> QED  BY <2>1, <2>2, <2>3, <2>4, <2>5, <2>6 DEF WorkerStep
<1>3. CASE ~Serving
  <2>1. ~Serving' /\ call' = call  BY <1>3, <1>f DEF Serving, facadeVars
  <2> QED  BY <2>1 DEF Exchange, Serving
<1> QED  BY <1>1, <1>2, <1>3

-----------------------------------------------------------------------------
(* The answers                                                             *)

(* What the facade returns was computed from the frame it was asked for.   *)
LEMMA AnswersKept ==
  ASSUME InferTypeOK, FacadeInv, Exchange, Answers, InferNext
  PROVE  Answers'
<1>1. CASE AwaitReply
  <2>1. OneReply /\ Asked /\ owned /\ gen \in Worker
    BY <1>1, Newest DEF AwaitReply, Exchange, CallAt, Serving, FacadeInv
  <2>2. PICK got \in BOOLEAN :
          /\ Receive(got)
          /\ IF got THEN answers' = [answers EXCEPT ![call.frame] = shmOut]
                    ELSE UNCHANGED answers
    BY <1>1 DEF AwaitReply
  <2>3. CASE got
    <3>1. replies[gen] # <<>> /\ Head(replies[gen]) = TRUE  BY <2>2, <2>3 DEF Receive
    <3>2. Head(<<FALSE>>) = FALSE  BY Short
    <3>3. replies[gen] \in Reply  BY <2>1, <3>1, <3>2 DEF OneReply, Reply
    <3>4. shmOut = call.frame  BY <2>1, <3>3 DEF Asked, Computed
    <3> QED  BY <2>2, <2>3, <3>4 DEF Answers, InferTypeOK
  <2> QED  BY <2>2, <2>3 DEF Answers
<1>2. ASSUME UNCHANGED answers PROVE Answers'  BY <1>2 DEF Answers
<1> QED  BY <1>1, <1>2 DEF InferNext, Facade, StartWorker, AwaitReady, Infer, Write, Kill, Reap,
              ReapTimesOut, Close, CloseKills, ReleaseMemory, LoadModel, TakeRequest, CopyFrame,
              Answer, Die, ReadReply, facadeVars

(* The invariant holds in every state: one worker at a time, one request   *)
(* or reply at a time between it and the facade, and the block it answers  *)
(* from holds the frame that was asked for.                                *)
THEOREM WorkerInvariant == InferSpec => []InferInv
<1>1. InferInit => InferInv  BY InferStarts
<1>2. InferInv /\ [InferNext]_inferVars => InferInv'
  <2> SUFFICES ASSUME InferInv, [InferNext]_inferVars PROVE InferInv'  OBVIOUS
  <2>1. CASE InferNext
    <3>0. InferTypeOK /\ Generations /\ FacadeInv /\ Exchange /\ Answers  BY DEF InferInv
    <3>1. \/ Facade \/ (\E f \in Frames : Infer(f)) \/ Close
          \/ \E w \in Worker : WorkerStep(w)
      BY <2>1 DEF InferNext, WorkerStep
    <3>2. InferTypeOK'  BY <3>0, <3>1, FacadeTypes, WorkerTypes
    <3>3. Exchange'  BY <3>0, <3>1, FacadeExchange, WorkerExchange
    <3>4. Generations' /\ FacadeInv' /\ Answers'
      BY <2>1, <3>0, GenerationsKept, FacadeKept, AnswersKept
    <3> QED  BY <3>2, <3>3, <3>4 DEF InferInv
  <2>2. CASE UNCHANGED inferVars
    <3>0. /\ UNCHANGED <<call, gen, owned, memory, answers>>
          /\ UNCHANGED <<proc, requests, pipe, reader, replies, shmIn, shmOut>>
      BY <2>2 DEF inferVars, facadeVars, workerVars
    <3>1. InferTypeOK'  BY <3>0 DEF InferInv, InferTypeOK
    <3>2. Generations'  BY <3>0 DEF InferInv, Generations
    <3>3. FacadeInv'  BY <3>0 DEF InferInv, FacadeInv, Serving, CallAt
    <3>4. Exchange'
      BY <3>0 DEF InferInv, Exchange, Serving, OneReply, Ended, Idle, Loading, Asked, Computed
    <3>5. Answers'  BY <3>0 DEF InferInv, Answers
    <3> QED  BY <3>1, <3>2, <3>3, <3>4, <3>5 DEF InferInv
  <2> QED  BY <2>1, <2>2
<1> QED  BY <1>1, <1>2, PTL DEF InferSpec

(* Every variable of the worker and its facade keeps its type.             *)
THEOREM WorkerTypeCorrect == InferSpec => []InferTypeOK
BY WorkerInvariant, PTL DEF InferInv

(* The result that infer() returns for a frame was computed from that      *)
(* frame, whatever timeouts, crashes and restarts came before, and two     *)
(* workers are never alive at once (_reap_worker before _start_worker).    *)
THEOREM AnswersAreOwn == InferSpec => []OwnAnswer
<1>1. InferInv => OwnAnswer
  <2> SUFFICES ASSUME InferInv PROVE OwnAnswer  OBVIOUS
  <2>1. gen \in Nat /\ Worker \subseteq Nat
    BY InferAssumption DEF InferInv, InferTypeOK, Worker
  <2>2. ASSUME NEW w \in Worker, Alive(w) PROVE w = gen
    <3>1. ~(w < gen) /\ ~(w > gen)  BY <2>2 DEF InferInv, Generations, Alive
    <3>2. w \in Nat  BY <2>1
    <3> QED  BY <2>1, <3>1, <3>2
  <2> QED  BY <2>2 DEF InferInv, Answers, OwnAnswer
<1> QED  BY <1>1, WorkerInvariant, PTL

-----------------------------------------------------------------------------
(* PART 2: the display mapper. Where the decode thread may be, and what it *)
(* holds there.                                                            *)
DecodePlace == {"get", "ensure", "start", "spare", "use", "drain", "failed",
                "release", "pass", "ending", "ended"}
Handled == {"ensure", "start", "spare", "use", "drain", "failed", "release", "pass"}
Places ==
  /\ decode.at \in {"start", "spare", "use", "drain", "failed"} => current # 0
  /\ decode.at \in {"ensure", "start", "spare"} => decode.item.kind \in {"video", "aux"}
  /\ decode.at \in {"use", "failed"} => decode.item.kind \in {"video", "aux", "eos"}
  /\ decode.at = "drain" => decode.item.kind = "eos"
  /\ decode.at \in {"release", "pass"} => decode.item.kind \in {"eos", "flush"}
  /\ decode.at = "pass" => current = 0
  /\ decode.at = "ended" => current = 0 /\ spare = 0
  /\ decode.at = "failed" => mapper[current].proc = "dead"
  /\ decode.at = "ending" /\ ~closed => current # 0 /\ mapper[current].proc = "dead"
  /\ decode.at = "start" => mapper[current].reader = "none"
  /\ decode.at = "release" /\ decode.item.kind = "eos" /\ current # 0 => mapper[current].proc = "dead"

(* The current mapper was started, and nobody used the spare one.          *)
Fresh(r) ==
  /\ r.epoch = 0 /\ ~r.finishing /\ ~r.claimed /\ r.packets = <<>> /\ r.sent = 0
  /\ r.out = 0 /\ r.held = <<>> /\ r.hand = <<>> /\ ~r.all /\ r.reader = "none"
Owners ==
  /\ current # 0 => mapper[current].proc # "none" /\ current # spare
  /\ spare # 0 => mapper[spare].proc # "none" /\ Fresh(mapper[spare])

(* The life of a mapper and of its reader; only the current one has a      *)
(* reader at work. In it, the decode thread waits once the input ended.    *)
Life(r) ==
  /\ r.proc = "none" => ~r.killed /\ ~r.crashed /\ Fresh(r)
  /\ r.proc = "alive" => ~r.killed /\ ~r.crashed
  /\ r.proc = "dead" => r.killed \/ r.crashed
  /\ r.hand # <<>> => r.reader \in {"releasing", "last"}
  /\ r.reader = "last" => r.all /\ (r.killed \/ (r.finishing /\ (r.crashed \/ r.packets = <<>>)))
  /\ r.reader = "ended" => \/ r.killed \/ r.crashed
                           \/ r.finishing /\ r.packets = <<>> /\ r.held = <<>>
Lives == \A m \in Mapper : Life(mapper[m])
(* No more is held back for it than it has room for, until it is killed.   *)
Roomy(r) == Len(r.held) <= HoldMax \/ r.killed
Readers == \A m \in Mapper : m # current => mapper[m].reader \in {"none", "ended"}
Finishing ==
  current # 0 /\ mapper[current].finishing =>
    decode.item.kind = "eos" /\ decode.at \in {"drain", "failed", "release", "ending"}
Claims == \A m \in Mapper : reports[m] # 0 => mapper[m].claimed

(* What a sequence is made of.                                             *)
Elems(s) == {s[i] : i \in DOMAIN s}

(* The source runs on the epoch of the last flush that is through.         *)
Feeding ==
  /\ fed.epoch <= epoch
  /\ flush \in {"idle", "mark"} => fed.epoch = epoch
  /\ flush = "mark" => epoch < MaxSeeks
  /\ flush \in {"kill", "drain", "put"} => fed.epoch < epoch
  /\ closed <=> closing # "open"
  /\ closed => flush = "idle"
  /\ closed \/ \A x \in Elems(inq) : x.kind # "stop"

DecodeType == [at : DecodePlace, item : Items]

-----------------------------------------------------------------------------
(* Lemmas on data                                                          *)

(* One more element, and one less.                                         *)
LEMMA ElemsOf ==
  ASSUME NEW S, NEW s \in Seq(S)
  PROVE  /\ Elems(<<>>) = {}
         /\ \A i \in 1..Len(s) : s[i] \in Elems(s)
         /\ Elems(s) \subseteq S
         /\ \A x \in S : Elems(Append(s, x)) = Elems(s) \cup {x}
         /\ s # <<>> => Elems(s) = Elems(Tail(s)) \cup {Head(s)}
<1>1. Elems(<<>>) = {}
  BY DEF Elems
<1>2. DOMAIN s = 1..Len(s) /\ Len(s) \in Nat
  OBVIOUS
<1>3. Elems(s) \subseteq S /\ \A i \in 1..Len(s) : s[i] \in Elems(s)
  BY <1>2 DEF Elems
<1>4. ASSUME NEW x \in S PROVE Elems(Append(s, x)) = Elems(s) \cup {x}
  <2> DEFINE t == Append(s, x)
  <2>1. DOMAIN t = 1..Len(s) + 1 /\ t[Len(s) + 1] = x /\ \A i \in 1..Len(s) : t[i] = s[i]
    BY AppendProperties
  <2> HIDE DEF t
  <2>2. \A j \in 1..Len(s) + 1 : j \in 1..Len(s) \/ j = Len(s) + 1
    BY <1>2
  <2>3. 1..Len(s) \subseteq 1..Len(s) + 1 /\ Len(s) + 1 \in 1..Len(s) + 1
    BY <1>2
  <2>4. Elems(t) \subseteq Elems(s) \cup {x}
    BY <1>2, <2>1, <2>2 DEF Elems
  <2>5. Elems(s) \subseteq Elems(t)
    BY <1>2, <2>1, <2>3 DEF Elems
  <2>6. x \in Elems(t)
    BY <2>1, <2>3 DEF Elems
  <2> QED  BY <2>4, <2>5, <2>6 DEF t
<1>5. ASSUME s # <<>> PROVE Elems(s) = Elems(Tail(s)) \cup {Head(s)}
  <2> DEFINE t == Tail(s)
  <2>1. Len(s) \in Nat \ {0} /\ Head(s) = s[1]
    BY <1>5, EmptySeq
  <2>2. DOMAIN t = 1..Len(s) - 1 /\ \A i \in 1..Len(s) - 1 : t[i] = s[i + 1]
    BY <1>5, <2>1, HeadTailProperties
  <2> HIDE DEF t
  <2>3. \A j \in 1..Len(s) : j = 1 \/ (j - 1 \in 1..Len(s) - 1 /\ j = (j - 1) + 1)
    BY <2>1
  <2>4. \A j \in 1..Len(s) - 1 : j + 1 \in 1..Len(s)
    BY <2>1
  <2>5. ASSUME NEW x \in Elems(s) PROVE x \in Elems(t) \cup {Head(s)}
    <3>1. PICK j \in 1..Len(s) : x = s[j]
      BY <1>2 DEF Elems
    <3>2. CASE j = 1
      BY <2>1, <3>1, <3>2
    <3>3. CASE j # 1
      <4>1. j - 1 \in 1..Len(s) - 1 /\ j = (j - 1) + 1
        BY <2>3, <3>1, <3>3
      <4>2. x = t[j - 1] /\ j - 1 \in DOMAIN t
        BY <2>2, <3>1, <4>1
      <4> QED  BY <4>2 DEF Elems
    <3> QED  BY <3>2, <3>3
  <2>6. Elems(t) \cup {Head(s)} \subseteq Elems(s)
    <3>1. Head(s) \in Elems(s)
      BY <2>1, <1>3
    <3>2. ASSUME NEW x \in Elems(t) PROVE x \in Elems(s)
      <4>1. PICK j \in 1..Len(s) - 1 : x = t[j]
        BY <2>2, <3>2 DEF Elems
      <4> QED  BY <1>3, <2>2, <2>4, <4>1
    <3> QED  BY <3>1, <3>2
  <2> QED  BY <2>5, <2>6 DEF t
<1> QED  BY <1>1, <1>3, <1>4, <1>5

(* What a kill leaves of a mapper.                                         *)
Same(r, q) ==
  /\ q.epoch = r.epoch /\ q.crashed = r.crashed /\ q.finishing = r.finishing
  /\ q.claimed = r.claimed /\ q.packets = r.packets /\ q.sent = r.sent /\ q.out = r.out
  /\ q.held = r.held /\ q.hand = r.hand /\ q.all = r.all /\ q.reader = r.reader
Hit(r, q) ==
  /\ Same(r, q) /\ (r.killed => q.killed) /\ (q.killed => r.killed \/ q.proc = "dead")
  /\ q.proc \in {r.proc, "dead"} /\ (q.proc # r.proc => q.killed)

(* A kill of a mapper is one.                                              *)
LEMMA ShotHits ==
  ASSUME NEW r \in MapperRecord
  PROVE  Shot(r) \in MapperRecord /\ Shot(r).killed /\ Shot(r).proc = "dead" /\ Hit(r, Shot(r))
BY DEF Shot, MapperRecord, Hit, Same

(* A kill touches one mapper, of which it says only that it is dead.       *)
LEMMA KilledHits ==
  ASSUME NEW M \in [Mapper -> MapperRecord], NEW k \in 0..MaxMappers
  PROVE  /\ Killed(M, k) \in [Mapper -> MapperRecord]
         /\ k = 0 => Killed(M, k) = M
         /\ k # 0 => Killed(M, k)[k].killed
         /\ \A m \in Mapper : m # k \/ M[m].killed => Killed(M, k)[m] = M[m]
         /\ \A m \in Mapper : Hit(M[m], Killed(M, k)[m])
<1>1. CASE k = 0
  <2>1. Killed(M, k) = M
    BY <1>1 DEF Killed
  <2>2. k \notin Mapper
    BY <1>1 DEF Mapper
  <2> QED  BY <1>1, <2>1, <2>2 DEF Hit, Same
<1>2. CASE k # 0 /\ M[k].killed
  <2>1. Killed(M, k) = M
    BY <1>2 DEF Killed
  <2> QED  BY <1>2, <2>1 DEF Hit, Same
<1>3. CASE k # 0 /\ ~M[k].killed
  <2>1. k \in Mapper /\ Killed(M, k) = [M EXCEPT ![k] = Shot(M[k])]
    BY <1>3, MappingAssumption DEF Killed, Mapper
  <2>2. /\ Shot(M[k]) \in MapperRecord /\ Shot(M[k]).killed /\ Hit(M[k], Shot(M[k]))
    BY <2>1, ShotHits
  <2>3. /\ Killed(M, k) \in [Mapper -> MapperRecord] /\ Killed(M, k)[k] = Shot(M[k])
        /\ \A m \in Mapper : m # k => Killed(M, k)[m] = M[m]
    BY <2>1, <2>2
  <2>4. ASSUME NEW m \in Mapper PROVE Hit(M[m], Killed(M, k)[m])
    <3>1. CASE m = k
      BY <2>2, <2>3, <3>1
    <3>2. CASE m # k
      <4>1. Killed(M, k)[m] = M[m]
        BY <2>3, <3>2
      <4> QED  BY <4>1 DEF Hit, Same
    <3> QED  BY <3>1, <3>2
  <2> QED  BY <1>3, <2>2, <2>3, <2>4
<1> QED  BY <1>1, <1>2, <1>3

-----------------------------------------------------------------------------
(* What every change of a mapper leaves of it                              *)

(* It carries the same, ...                                                *)
SameCargo(r, q) ==
  /\ q.epoch = r.epoch /\ q.packets = r.packets /\ q.sent = r.sent /\ q.out = r.out
  /\ q.held = r.held /\ q.hand = r.hand
(* ... or it lives and is owned as before.                                 *)
SameFlags(r, q) ==
  /\ q.proc = r.proc /\ q.killed = r.killed /\ q.crashed = r.crashed
  /\ q.finishing = r.finishing /\ q.claimed = r.claimed

(* A spare becomes the mapper of an epoch.                                 *)
TakenFor(r, e) == [r EXCEPT !.epoch = e]
(* All else of it stays.                                                   *)
LEMMA TakenForHas ==
  ASSUME NEW r \in MapperRecord, NEW e \in Epoch
  PROVE  /\ TakenFor(r, e) \in MapperRecord
         /\ TakenFor(r, e).epoch = e
         /\ TakenFor(r, e).packets = r.packets /\ TakenFor(r, e).sent = r.sent
         /\ TakenFor(r, e).out = r.out
         /\ TakenFor(r, e).held = r.held /\ TakenFor(r, e).hand = r.hand
         /\ SameFlags(r, TakenFor(r, e))
         /\ TakenFor(r, e).all = r.all /\ TakenFor(r, e).reader = r.reader
BY DEF TakenFor, MapperRecord, SameCargo, SameFlags

(* Its reader goes on to another place, ...                                *)
WithReader(r, w) == [r EXCEPT !.reader = w]
(* All else of it stays.                                                   *)
LEMMA WithReaderHas ==
  ASSUME NEW r \in MapperRecord, NEW w \in {"none", "reading", "releasing", "last", "ended"}
  PROVE  /\ WithReader(r, w) \in MapperRecord
         /\ WithReader(r, w).reader = w
         /\ SameCargo(r, WithReader(r, w))
         /\ SameFlags(r, WithReader(r, w))
         /\ WithReader(r, w).all = r.all
BY DEF WithReader, MapperRecord, SameCargo, SameFlags

(* ... a packet is written to it, ...                                      *)
WithPacket(r, n) == [r EXCEPT !.packets = Append(@, n), !.sent = n]
(* All else of it stays.                                                   *)
LEMMA WithPacketHas ==
  ASSUME NEW r \in MapperRecord, NEW n \in 0..Len(Script) + 1
  PROVE  /\ WithPacket(r, n) \in MapperRecord
         /\ WithPacket(r, n).packets = Append(r.packets, n) /\ WithPacket(r, n).sent = n
         /\ WithPacket(r, n).epoch = r.epoch /\ WithPacket(r, n).out = r.out
         /\ WithPacket(r, n).held = r.held
         /\ WithPacket(r, n).hand = r.hand
         /\ SameFlags(r, WithPacket(r, n))
         /\ WithPacket(r, n).all = r.all /\ WithPacket(r, n).reader = r.reader
<1>1. Append(r.packets, n) \in Seq(0..Len(Script) + 1) /\ n \in Nat
  BY MappingAssumption DEF MapperRecord
<1> QED  BY <1>1 DEF WithPacket, MapperRecord, SameCargo, SameFlags

(* ... an item held for it, ...                                            *)
WithItem(r, i) == [r EXCEPT !.held = Append(@, [after |-> r.sent, item |-> i])]
(* All else of it stays.                                                   *)
LEMMA WithItemHas ==
  ASSUME NEW r \in MapperRecord, NEW i \in Items
  PROVE  /\ WithItem(r, i) \in MapperRecord
         /\ WithItem(r, i).held = Append(r.held, [after |-> r.sent, item |-> i])
         /\ WithItem(r, i).epoch = r.epoch /\ WithItem(r, i).packets = r.packets
         /\ WithItem(r, i).sent = r.sent
         /\ WithItem(r, i).out = r.out /\ WithItem(r, i).hand = r.hand
         /\ SameFlags(r, WithItem(r, i))
         /\ WithItem(r, i).all = r.all /\ WithItem(r, i).reader = r.reader
<1>1. Append(r.held, [after |-> r.sent, item |-> i]) \in Seq([after : Nat, item : Items])
  BY DEF MapperRecord
<1> QED  BY <1>1 DEF WithItem, MapperRecord, SameCargo, SameFlags

(* ... its input ends, ...                                                 *)
InputEnded(r) == [r EXCEPT !.finishing = TRUE]
(* All else of it stays.                                                   *)
LEMMA InputEndedHas ==
  ASSUME NEW r \in MapperRecord
  PROVE  /\ InputEnded(r) \in MapperRecord
         /\ InputEnded(r).finishing = TRUE
         /\ SameCargo(r, InputEnded(r))
         /\ InputEnded(r).proc = r.proc /\ InputEnded(r).killed = r.killed
         /\ InputEnded(r).crashed = r.crashed
         /\ InputEnded(r).claimed = r.claimed
         /\ InputEnded(r).all = r.all /\ InputEnded(r).reader = r.reader
BY DEF InputEnded, MapperRecord, SameCargo, SameFlags

(* ... its failure is claimed.                                             *)
Claimed(r) == [r EXCEPT !.claimed = TRUE]
(* All else of it stays.                                                   *)
LEMMA ClaimedHas ==
  ASSUME NEW r \in MapperRecord
  PROVE  /\ Claimed(r) \in MapperRecord
         /\ Claimed(r).claimed = TRUE
         /\ SameCargo(r, Claimed(r))
         /\ Claimed(r).proc = r.proc /\ Claimed(r).killed = r.killed
         /\ Claimed(r).crashed = r.crashed
         /\ Claimed(r).finishing = r.finishing
         /\ Claimed(r).all = r.all /\ Claimed(r).reader = r.reader
BY DEF Claimed, MapperRecord, SameCargo, SameFlags

(* A frame comes out of it, ...                                            *)
FrameOut(r) == [r EXCEPT !.packets = Tail(@), !.out = Head(r.packets),
           !.all = FALSE, !.reader = "releasing",
           !.hand = <<Item("video", r.epoch, Head(r.packets))>>]
(* All else of it stays.                                                   *)
LEMMA FrameOutHas ==
  ASSUME NEW r \in MapperRecord, r.packets # <<>>, Item("video", r.epoch, Head(r.packets)) \in Items
  PROVE  /\ FrameOut(r) \in MapperRecord
         /\ FrameOut(r).packets = Tail(r.packets) /\ FrameOut(r).out = Head(r.packets)
         /\ FrameOut(r).all = FALSE
         /\ FrameOut(r).reader = "releasing"
         /\ FrameOut(r).hand = <<Item("video", r.epoch, Head(r.packets))>>
         /\ FrameOut(r).epoch = r.epoch /\ FrameOut(r).sent = r.sent /\ FrameOut(r).held = r.held
         /\ SameFlags(r, FrameOut(r))
<1>1. Tail(r.packets) \in Seq(0..Len(Script) + 1) /\ Head(r.packets) \in Nat
      /\ <<Item("video", r.epoch, Head(r.packets))>> \in Seq(Items)
  BY MappingAssumption DEF MapperRecord
<1> QED  BY <1>1 DEF FrameOut, MapperRecord, SameCargo, SameFlags

(* ... or none for a while, ...                                            *)
AllDue(r) == [r EXCEPT !.reader = "releasing", !.all = TRUE]
(* All else of it stays.                                                   *)
LEMMA AllDueHas ==
  ASSUME NEW r \in MapperRecord
  PROVE  /\ AllDue(r) \in MapperRecord
         /\ AllDue(r).reader = "releasing" /\ AllDue(r).all = TRUE
         /\ SameCargo(r, AllDue(r))
         /\ SameFlags(r, AllDue(r))
BY DEF AllDue, MapperRecord, SameCargo, SameFlags

(* ... what is in its hand goes downstream, ...                            *)
HandEmptied(r) == [r EXCEPT !.hand = <<>>]
(* All else of it stays.                                                   *)
LEMMA HandEmptiedHas ==
  ASSUME NEW r \in MapperRecord
  PROVE  /\ HandEmptied(r) \in MapperRecord
         /\ HandEmptied(r).hand = <<>>
         /\ HandEmptied(r).epoch = r.epoch /\ HandEmptied(r).packets = r.packets
         /\ HandEmptied(r).sent = r.sent
         /\ HandEmptied(r).out = r.out /\ HandEmptied(r).held = r.held
         /\ SameFlags(r, HandEmptied(r))
         /\ HandEmptied(r).all = r.all /\ HandEmptied(r).reader = r.reader
<1>1. <<>> \in Seq(Items)
  BY DEF MapperRecord
<1> QED  BY <1>1 DEF HandEmptied, MapperRecord, SameCargo, SameFlags

(* ... an item that is due is taken, ...                                   *)
HeldOut(r) == [r EXCEPT !.held = Tail(@), !.hand = <<Head(r.held).item>>]
(* All else of it stays.                                                   *)
LEMMA HeldOutHas ==
  ASSUME NEW r \in MapperRecord, r.held # <<>>
  PROVE  /\ HeldOut(r) \in MapperRecord
         /\ HeldOut(r).held = Tail(r.held) /\ HeldOut(r).hand = <<Head(r.held).item>>
         /\ HeldOut(r).epoch = r.epoch /\ HeldOut(r).packets = r.packets /\ HeldOut(r).sent = r.sent
         /\ HeldOut(r).out = r.out
         /\ SameFlags(r, HeldOut(r))
         /\ HeldOut(r).all = r.all /\ HeldOut(r).reader = r.reader
<1>1. Tail(r.held) \in Seq([after : Nat, item : Items]) /\ <<Head(r.held).item>> \in Seq(Items)
  <2>1. r.held \in Seq([after : Nat, item : Items])
    BY DEF MapperRecord
  <2>2. Tail(r.held) \in Seq([after : Nat, item : Items]) /\ Head(r.held) \in [after : Nat, item : Items]
    BY <2>1, HeadTailProperties
  <2>3. Head(r.held).item \in Items
    BY <2>2
  <2> QED  BY <2>2, <2>3
<1> QED  BY <1>1 DEF HeldOut, MapperRecord, SameCargo, SameFlags

(* ... its stream ends, ...                                                *)
LastOnes(r) == [r EXCEPT !.reader = "last", !.all = TRUE]
(* All else of it stays.                                                   *)
LEMMA LastOnesHas ==
  ASSUME NEW r \in MapperRecord
  PROVE  /\ LastOnes(r) \in MapperRecord
         /\ LastOnes(r).reader = "last" /\ LastOnes(r).all = TRUE
         /\ SameCargo(r, LastOnes(r))
         /\ SameFlags(r, LastOnes(r))
BY DEF LastOnes, MapperRecord, SameCargo, SameFlags

(* ... its reader fails, ...                                               *)
ReaderFailed(r) == [r EXCEPT !.reader = "ended", !.claimed = TRUE, !.killed = TRUE]
(* All else of it stays.                                                   *)
LEMMA ReaderFailedHas ==
  ASSUME NEW r \in MapperRecord
  PROVE  /\ ReaderFailed(r) \in MapperRecord
         /\ ReaderFailed(r).reader = "ended" /\ ReaderFailed(r).claimed = TRUE
         /\ ReaderFailed(r).killed = TRUE
         /\ SameCargo(r, ReaderFailed(r))
         /\ ReaderFailed(r).proc = r.proc /\ ReaderFailed(r).crashed = r.crashed
         /\ ReaderFailed(r).finishing = r.finishing
         /\ ReaderFailed(r).all = r.all
BY DEF ReaderFailed, MapperRecord, SameCargo, SameFlags

(* ... and so does its process.                                            *)
ProcessCrashed(r) == [r EXCEPT !.proc = "dead", !.crashed = TRUE]
(* All else of it stays.                                                   *)
LEMMA ProcessCrashedHas ==
  ASSUME NEW r \in MapperRecord
  PROVE  /\ ProcessCrashed(r) \in MapperRecord
         /\ ProcessCrashed(r).proc = "dead" /\ ProcessCrashed(r).crashed = TRUE
         /\ SameCargo(r, ProcessCrashed(r))
         /\ ProcessCrashed(r).killed = r.killed /\ ProcessCrashed(r).finishing = r.finishing
         /\ ProcessCrashed(r).claimed = r.claimed
         /\ ProcessCrashed(r).all = r.all /\ ProcessCrashed(r).reader = r.reader
BY DEF ProcessCrashed, MapperRecord, SameCargo, SameFlags

-----------------------------------------------------------------------------
(* The structure: types, places, and whose mapper is whose                 *)

Structure ==
  /\ MappingTypeOK /\ Places /\ Owners /\ Lives /\ Readers /\ Finishing /\ Claims /\ Feeding

(* The parts of the type that the steps of the threads change.             *)
MapperTypes ==
  /\ mapper \in [Mapper -> MapperRecord]
  /\ \A m \in Mapper : Roomy(mapper[m]) /\ Len(mapper[m].hand) <= 1
PipeTypes ==
  /\ inq \in Seq(Items)
  /\ fed \in [epoch : Epoch, n : 0..Len(Script) + 1]
  /\ epoch \in Epoch /\ pending \in BOOLEAN /\ closed \in BOOLEAN
  /\ flush \in {"idle", "mark", "kill", "drain", "put"}
  /\ closing \in {"open", "stop", "kill", "join", "closed"}
OtherTypes ==
  /\ decode \in DecodeType
  /\ current \in 0..MaxMappers /\ spare \in 0..MaxMappers
  /\ passed \in Seq(Items)
  /\ reports \in [Mapper -> 0..1]

(* The type is the three of them.                                          *)
LEMMA TypesSplit ==
  /\ MappingTypeOK <=> PipeTypes /\ MapperTypes /\ OtherTypes
  /\ MappingTypeOK' <=> PipeTypes' /\ MapperTypes' /\ OtherTypes'
BY DEF MappingTypeOK, PipeTypes, MapperTypes, OtherTypes, DecodeType, DecodePlace, Roomy

(* A mapper is replaced.                                                   *)
LEMMA Replaced ==
  ASSUME MapperTypes, NEW m \in Mapper, NEW q \in MapperRecord, Set(m, q)
  PROVE  /\ mapper' \in [Mapper -> MapperRecord] /\ mapper'[m] = q
         /\ \A k \in Mapper : k # m => mapper'[k] = mapper[k]
         /\ Roomy(q) /\ Len(q.hand) <= 1 => MapperTypes'
         /\ Lives /\ Life(q) => Lives'
<1>1. /\ mapper' \in [Mapper -> MapperRecord] /\ mapper'[m] = q
      /\ \A k \in Mapper : k # m => mapper'[k] = mapper[k]
  BY DEF Set, MapperTypes
<1>2. Roomy(q) /\ Len(q.hand) <= 1 => MapperTypes'
  BY <1>1 DEF MapperTypes
<1>3. Lives /\ Life(q) => Lives'
  BY <1>1, Zenon DEF Lives
<1> QED  BY <1>1, <1>2, <1>3

(* The decode thread goes to a place.                                      *)
LEMMA Going ==
  ASSUME decode \in DecodeType, NEW p \in DecodePlace, DecodeGoes(p)
  PROVE  decode' \in DecodeType /\ decode'.at = p /\ decode'.item = decode.item
BY DEF DecodeType, DecodeGoes

(* Kills, and steps that change no mapper.                                 *)
AllHit ==
  mapper' \in [Mapper -> MapperRecord] /\ \A m \in Mapper : Hit(mapper[m], mapper'[m])

(* What a kill, or two of them, and no kill at all come to.                *)
LEMMA Kills ==
  ASSUME MapperTypes
  PROVE  /\ UNCHANGED mapper => AllHit
         /\ \A k \in 0..MaxMappers : mapper' = Killed(mapper, k) =>
              AllHit /\ (k # 0 => mapper'[k].killed)
         /\ \A k, l \in 0..MaxMappers : mapper' = Killed(Killed(mapper, k), l) => AllHit
<1>1. UNCHANGED mapper => AllHit
  BY DEF AllHit, Hit, Same, MapperTypes
<1>2. ASSUME NEW k \in 0..MaxMappers, mapper' = Killed(mapper, k)
      PROVE  AllHit /\ (k # 0 => mapper'[k].killed)
  BY <1>2, KilledHits DEF AllHit, MapperTypes
<1>3. ASSUME NEW k \in 0..MaxMappers, NEW l \in 0..MaxMappers,
             mapper' = Killed(Killed(mapper, k), l)
      PROVE  AllHit
  <2> DEFINE M == Killed(mapper, k)
  <2>1. M \in [Mapper -> MapperRecord] /\ \A m \in Mapper : Hit(mapper[m], M[m])
    BY KilledHits DEF MapperTypes
  <2>2. mapper' = Killed(M, l)
    BY <1>3
  <2> HIDE DEF M
  <2>3. mapper' \in [Mapper -> MapperRecord] /\ \A m \in Mapper : Hit(M[m], mapper'[m])
    BY <2>1, <2>2, KilledHits
  <2>4. ASSUME NEW m \in Mapper PROVE Hit(mapper[m], mapper'[m])
    <3>1. Hit(mapper[m], M[m]) /\ Hit(M[m], mapper'[m])
      BY <2>1, <2>3
    <3> QED  BY <3>1 DEF Hit, Same
  <2> QED  BY <2>3, <2>4 DEF AllHit
<1> QED  BY <1>1, <1>2, <1>3

(* A mapper that is hit lives as one may.                                  *)
LEMMA HitLives ==
  ASSUME MapperTypes, Lives, AllHit
  PROVE  MapperTypes' /\ Lives'
<1>1. MapperTypes'
  BY DEF MapperTypes, AllHit, Hit, Same, Roomy
<1>2. ASSUME NEW m \in Mapper PROVE Life(mapper'[m])
  <2>1. Life(mapper[m]) /\ Hit(mapper[m], mapper'[m]) /\ mapper[m] \in MapperRecord
        /\ mapper'[m] \in MapperRecord
    BY DEF Lives, AllHit, MapperTypes
  <2>2. /\ mapper[m].proc \in {"none", "alive", "dead"}
        /\ mapper'[m].proc \in {"none", "alive", "dead"}
    BY <2>1 DEF MapperRecord
  <2> QED  BY <2>1, <2>2 DEF Life, Hit, Same, Fresh
<1> QED  BY <1>1, <1>2 DEF Lives

(* The owners of what is hit.                                              *)
LEMMA HitOwners ==
  ASSUME Structure, AllHit, current' \in {current, 0}, spare' \in {spare, 0}
  PROVE  /\ Owners'
         /\ reports' = reports => Claims'
         /\ current' = current => Readers'
<1>1. /\ MapperTypes /\ OtherTypes /\ Owners /\ Readers /\ Claims
  BY TypesSplit DEF Structure
<1>2. /\ current \in 0..MaxMappers /\ spare \in 0..MaxMappers
      /\ \A k \in 0..MaxMappers : k # 0 => k \in Mapper
  BY <1>1, MappingAssumption DEF OtherTypes, Mapper
<1>3. Owners'
  <2>1. current' # 0 => mapper'[current'].proc # "none" /\ current' # spare'
    BY <1>1, <1>2 DEF Owners, AllHit, Hit
  <2>2. spare' # 0 => mapper'[spare'].proc # "none"
    BY <1>1, <1>2 DEF Owners, AllHit, Hit
  <2>3. spare' # 0 => Fresh(mapper'[spare'])
    BY <1>1, <1>2 DEF Owners, AllHit, Hit, Same, Fresh
  <2> QED  BY <2>1, <2>2, <2>3 DEF Owners
<1>4. reports' = reports => Claims'
  BY <1>1 DEF Claims, AllHit, Hit, Same
<1>5. current' = current => Readers'
  BY <1>1 DEF Readers, AllHit, Hit, Same
<1> QED  BY <1>3, <1>4, <1>5

(* Steps of other threads than the decode thread and the readers.          *)
LEMMA OutsideKeeps ==
  ASSUME Structure, AllHit, UNCHANGED <<decode, current, spare, passed, reports>>,
         PipeTypes', Feeding', closed => closed'
  PROVE  Structure'
<1>1. /\ PipeTypes /\ MapperTypes /\ OtherTypes /\ Places /\ Owners /\ Lives /\ Readers
      /\ Finishing /\ Claims
  BY TypesSplit DEF Structure
<1>2. current \in 0..MaxMappers /\ (current # 0 => current \in Mapper)
  BY <1>1, MappingAssumption DEF OtherTypes, Mapper
<1>3. MapperTypes' /\ Lives' /\ Owners' /\ Readers' /\ Claims'
  BY <1>1, HitLives, HitOwners
<1>4. OtherTypes'
  BY <1>1 DEF OtherTypes
<1>5. current # 0 => Hit(mapper[current], mapper'[current])
  BY <1>2 DEF AllHit
<1>6. Places'
  BY <1>1, <1>5 DEF Places, Hit, Same
<1>7. Finishing'
  BY <1>1, <1>5 DEF Finishing, Hit, Same
<1> QED  BY <1>3, <1>4, <1>6, <1>7, TypesSplit DEF Structure

(* The source, a seek and a close.                                         *)
Outside == Feed \/ FlushBegin \/ Flushing \/ CloseBegin \/ Closing
(* Their steps leave the decode thread and the readers alone.              *)
LEMMA OutsideStructure ==
  ASSUME Structure, Outside
  PROVE  Structure'
<1>1. /\ PipeTypes /\ MapperTypes /\ OtherTypes /\ Feeding
  BY TypesSplit DEF Structure
<1>2. /\ Len(Script) \in Nat /\ StopItem \in Items /\ \A e \in Epoch : Item("flush", e, 0) \in Items
      /\ current \in 0..MaxMappers /\ spare \in 0..MaxMappers /\ epoch \in 0..MaxSeeks
      /\ fed.epoch \in Epoch /\ fed.n \in 0..Len(Script) + 1 /\ Epoch = 0..MaxSeeks
  BY <1>1, MappingAssumption DEF StopItem, Item, Items, Epoch, OtherTypes, PipeTypes
<1>3. CASE Feed
  <2>1. LET n == fed.n + 1 IN
          Item(IF n > Len(Script) THEN "eos" ELSE Script[n], fed.epoch, n) \in Items
    <3>1. fed.n + 1 \in 0..Len(Script) + 1
      BY <1>2, <1>3 DEF Feed
    <3>2. fed.n + 1 <= Len(Script) => Script[fed.n + 1] \in {"video", "aux"}
      BY <1>2, <3>1, MappingAssumption
    <3> QED  BY <1>2, <3>1, <3>2 DEF Item, Items
  <2>2. inq' \in Seq(Items)
    BY <1>1, <1>3, <2>1 DEF Feed, PipeTypes
  <2>3. fed' \in [epoch : Epoch, n : 0..Len(Script) + 1] /\ fed'.epoch = fed.epoch
    BY <1>1, <1>2, <1>3 DEF Feed, PipeTypes
  <2>4. \A x \in Elems(inq') : x \in Elems(inq) \/ x.kind # "stop"
    <3> DEFINE n == fed.n + 1
               i == Item(IF n > Len(Script) THEN "eos" ELSE Script[n], fed.epoch, n)
    <3>1. i.kind # "stop"
      <4>1. n \in Nat /\ n # 0
        BY <1>2
      <4>2. n <= Len(Script) => Script[n] \in {"video", "aux"}
        BY <4>1, MappingAssumption
      <4> QED  BY <1>2, <4>1, <4>2 DEF Item
    <3>2. Elems(inq') = Elems(inq) \cup {i}
      BY <1>1, <1>3, <2>1, ElemsOf DEF Feed, PipeTypes
    <3> QED  BY <3>1, <3>2
  <2>5. PipeTypes' /\ Feeding' /\ closed' = closed
    BY <1>1, <1>3, <2>2, <2>3, <2>4 DEF Feed, PipeTypes, Feeding
  <2>6. AllHit /\ UNCHANGED <<decode, current, spare, passed, reports>>
    BY <1>1, <1>3, Kills DEF Feed
  <2> QED  BY <2>5, <2>6, OutsideKeeps
<1>4. CASE FlushBegin
  <2>1. PipeTypes' /\ Feeding' /\ closed' = closed
    BY <1>1, <1>4 DEF FlushBegin, PipeTypes, Feeding
  <2>2. AllHit /\ UNCHANGED <<decode, current, spare, passed, reports>>
    BY <1>1, <1>4, Kills DEF FlushBegin
  <2> QED  BY <2>1, <2>2, OutsideKeeps
<1>5. CASE FlushMark
  <2>1. PipeTypes' /\ Feeding' /\ closed' = closed
    BY <1>1, <1>2, <1>5, MappingAssumption DEF FlushMark, PipeTypes, Feeding
  <2>2. AllHit /\ UNCHANGED <<decode, current, spare, passed, reports>>
    BY <1>1, <1>5, Kills DEF FlushMark
  <2> QED  BY <2>1, <2>2, OutsideKeeps
<1>6. CASE FlushKill
  <2>1. PipeTypes' /\ Feeding' /\ closed' = closed
    BY <1>1, <1>6 DEF FlushKill, PipeTypes, Feeding
  <2>2. AllHit /\ UNCHANGED <<decode, current, spare, passed, reports>>
    BY <1>1, <1>2, <1>6, Kills DEF FlushKill
  <2> QED  BY <2>1, <2>2, OutsideKeeps
<1>7. CASE FlushDrain
  <2>1. PipeTypes' /\ Feeding' /\ closed' = closed
    BY <1>1, <1>7, ElemsOf DEF FlushDrain, PipeTypes, Feeding
  <2>2. AllHit /\ UNCHANGED <<decode, current, spare, passed, reports>>
    BY <1>1, <1>7, Kills DEF FlushDrain
  <2> QED  BY <2>1, <2>2, OutsideKeeps
<1>8. CASE FlushPut
  <2>1. inq' \in Seq(Items) /\ fed' \in [epoch : Epoch, n : 0..Len(Script) + 1] /\ fed'.epoch = epoch
    BY <1>1, <1>2, <1>8 DEF FlushPut, PipeTypes
  <2>2. /\ Elems(inq') = Elems(inq) \cup {Item("flush", epoch, 0)}
        /\ Item("flush", epoch, 0).kind # "stop"
    BY <1>1, <1>2, <1>8, ElemsOf DEF FlushPut, PipeTypes, Item
  <2>3. PipeTypes' /\ Feeding' /\ closed' = closed
    BY <1>1, <1>2, <1>8, <2>1, <2>2 DEF FlushPut, PipeTypes, Feeding
  <2>4. AllHit /\ UNCHANGED <<decode, current, spare, passed, reports>>
    BY <1>1, <1>8, Kills DEF FlushPut
  <2> QED  BY <2>3, <2>4, OutsideKeeps
<1>9. CASE CloseBegin
  <2>1. PipeTypes' /\ Feeding' /\ closed'
    BY <1>1, <1>9 DEF CloseBegin, PipeTypes, Feeding
  <2>2. AllHit /\ UNCHANGED <<decode, current, spare, passed, reports>>
    BY <1>1, <1>9, Kills DEF CloseBegin
  <2> QED  BY <2>1, <2>2, OutsideKeeps
<1>10. CASE CloseStop
  <2>1. PipeTypes' /\ Feeding' /\ closed' = closed
    BY <1>1, <1>2, <1>10 DEF CloseStop, PipeTypes, Feeding
  <2>2. AllHit /\ UNCHANGED <<decode, current, spare, passed, reports>>
    BY <1>1, <1>10, Kills DEF CloseStop
  <2> QED  BY <2>1, <2>2, OutsideKeeps
<1>11. CASE CloseKill
  <2>1. PipeTypes' /\ Feeding' /\ closed' = closed
    BY <1>1, <1>11 DEF CloseKill, PipeTypes, Feeding
  <2>2. AllHit /\ UNCHANGED <<decode, current, spare, passed, reports>>
    BY <1>1, <1>2, <1>11, Kills DEF CloseKill
  <2> QED  BY <2>1, <2>2, OutsideKeeps
<1>12. CASE CloseJoin
  <2>1. PipeTypes' /\ Feeding' /\ closed' = closed
    BY <1>1, <1>12 DEF CloseJoin, PipeTypes, Feeding
  <2>2. AllHit /\ UNCHANGED <<decode, current, spare, passed, reports>>
    BY <1>1, <1>12, Kills DEF CloseJoin
  <2> QED  BY <2>1, <2>2, OutsideKeeps
<1> QED
  BY <1>3, <1>4, <1>5, <1>6, <1>7, <1>8, <1>9, <1>10, <1>11, <1>12 DEF Outside, Flushing, Closing

(* One mapper is touched.                                                  *)
LEMMA Touched ==
  ASSUME Structure, NEW m \in Mapper, NEW q \in MapperRecord, Set(m, q),
         UNCHANGED <<current, spare>>,
         Life(q), q.proc # "none", Roomy(q), Len(q.hand) <= 1,
         m = spare => Fresh(q), m # current => q.reader \in {"none", "ended"}
  PROVE  /\ MapperTypes' /\ Lives' /\ Owners' /\ Readers'
         /\ mapper'[m] = q /\ \A k \in Mapper : k # m => mapper'[k] = mapper[k]
         /\ UNCHANGED reports /\ (mapper[m].claimed => q.claimed) => Claims'
<1>1. /\ MapperTypes /\ OtherTypes /\ Owners /\ Lives /\ Readers /\ Claims
  BY TypesSplit DEF Structure
<1>2. /\ MapperTypes' /\ Lives'
      /\ mapper'[m] = q /\ \A k \in Mapper : k # m => mapper'[k] = mapper[k]
  BY <1>1, Replaced
<1>3. /\ current \in 0..MaxMappers /\ spare \in 0..MaxMappers
      /\ \A k \in 0..MaxMappers : k # 0 => k \in Mapper
  BY <1>1, MappingAssumption DEF OtherTypes, Mapper
<1>4. Owners'
  BY <1>1, <1>2, <1>3 DEF Owners
<1>5. Readers'
  BY <1>1, <1>2 DEF Readers
<1>6. UNCHANGED reports /\ (mapper[m].claimed => q.claimed) => Claims'
  BY <1>1, <1>2 DEF Claims
<1> QED  BY <1>2, <1>4, <1>5, <1>6

(* What the decode thread knows of its mapper.                             *)
LEMMA Handles ==
  ASSUME Structure
  PROVE  /\ PipeTypes /\ MapperTypes /\ OtherTypes /\ Places /\ Owners /\ Lives /\ Readers
         /\ Finishing /\ Claims /\ Feeding
         /\ decode \in DecodeType /\ decode.item \in Items /\ decode.item.n \in 0..Len(Script) + 1
         /\ decode.item.epoch \in Epoch
         /\ current \in 0..MaxMappers /\ spare \in 0..MaxMappers
         /\ \A m \in 0..MaxMappers : m # 0 =>
              m \in Mapper /\ mapper[m] \in MapperRecord /\ Life(mapper[m])
                /\ Roomy(mapper[m]) /\ Len(mapper[m].hand) <= 1
<1>1. /\ PipeTypes /\ MapperTypes /\ OtherTypes /\ Places /\ Owners /\ Lives /\ Readers
      /\ Finishing /\ Claims /\ Feeding
  BY TypesSplit DEF Structure
<1>2. decode \in DecodeType /\ decode.item \in Items /\ decode.item.n \in 0..Len(Script) + 1
      /\ decode.item.epoch \in Epoch /\ current \in 0..MaxMappers /\ spare \in 0..MaxMappers
  BY <1>1, MappingAssumption DEF OtherTypes, DecodeType, Items
<1>3. \A m \in 0..MaxMappers : m # 0 => m \in Mapper
  BY MappingAssumption DEF Mapper
<1> QED  BY <1>1, <1>2, <1>3 DEF MapperTypes, Lives

(* A step of the decode thread that leaves the pipeline alone, and hits    *)
(* mappers at most: what is left to show is the place it goes to.          *)
LEMMA DecodeHits ==
  ASSUME Structure, AllHit, UNCHANGED <<pipeVars, current, spare, passed, reports>>,
         NEW p \in DecodePlace, DecodeGoes(p)
  PROVE  /\ decode'.at = p /\ decode'.item = decode.item
         /\ Places' /\ Finishing' => Structure'
         /\ current # 0 => Hit(mapper[current], mapper'[current])
<1>1. decode' \in DecodeType /\ decode'.at = p /\ decode'.item = decode.item
  BY Handles, Going
<1>2. MapperTypes' /\ Lives' /\ Owners' /\ Readers' /\ Claims'
  BY Handles, HitLives, HitOwners
<1>3. PipeTypes' /\ OtherTypes' /\ Feeding'
  BY <1>1, Handles DEF PipeTypes, OtherTypes, Feeding, pipeVars
<1>4. current # 0 => Hit(mapper[current], mapper'[current])
  BY Handles DEF AllHit
<1> QED  BY <1>1, <1>2, <1>3, <1>4, TypesSplit DEF Structure

(* One that changes its mapper.                                            *)
LEMMA DecodeTouches ==
  ASSUME Structure, UNCHANGED <<pipeVars, current, spare, passed, reports>>,
         NEW p \in DecodePlace, DecodeGoes(p), current # 0, NEW q \in MapperRecord, Set(current, q),
         Life(q), q.proc # "none", Roomy(q), Len(q.hand) <= 1,
         mapper[current].claimed => q.claimed
  PROVE  /\ decode'.at = p /\ decode'.item = decode.item /\ mapper'[current] = q
         /\ Places' /\ Finishing' => Structure'
<1>1. decode' \in DecodeType /\ decode'.at = p /\ decode'.item = decode.item
  BY Handles, Going
<1>2. current \in Mapper /\ current # spare
  BY Handles DEF Owners
<1>3. MapperTypes' /\ Lives' /\ Owners' /\ Readers' /\ Claims' /\ mapper'[current] = q
  BY <1>2, Touched
<1>4. PipeTypes' /\ OtherTypes' /\ Feeding'
  BY <1>1, Handles DEF PipeTypes, OtherTypes, Feeding, pipeVars
<1> QED  BY <1>1, <1>3, <1>4, TypesSplit DEF Structure

(* The decode thread writes to its mapper.                                 *)
LEMMA SendStructure ==
  ASSUME Structure, Send
  PROVE  Structure'
<1>1. UNCHANGED <<pipeVars, current, spare, passed, reports>> /\ current # 0 /\ decode.at = "use"
      /\ decode.item.kind = "video"
  BY Handles DEF Send, DecodeAt, Places
<1>2. mapper[current].proc # "none" /\ ~mapper[current].finishing
  BY <1>1, Handles DEF Owners, Finishing
<1>3. CASE Set(current, WithPacket(mapper[current], decode.item.n))
           /\ ~mapper[current].killed /\ DecodeGoes("get")
  <2> DEFINE q == WithPacket(mapper[current], decode.item.n)
  <2>1. /\ q \in MapperRecord /\ q.held = mapper[current].held /\ q.hand = mapper[current].hand
        /\ SameFlags(mapper[current], q)
        /\ q.all = mapper[current].all /\ q.reader = mapper[current].reader
    BY <1>1, Handles, WithPacketHas
  <2> HIDE DEF q
  <2>2. Life(q) /\ q.proc # "none" /\ Roomy(q) /\ Len(q.hand) <= 1
        /\ (mapper[current].claimed => q.claimed)
    BY <1>1, <1>2, <2>1, Handles DEF Life, SameFlags, Roomy
  <2>3. decode'.at = "get" /\ (Places' /\ Finishing' => Structure') /\ mapper'[current] = q
    BY <1>1, <1>3, <2>1, <2>2, DecodeTouches DEF DecodePlace, q
  <2>4. Places' /\ Finishing'
    BY <1>1, <1>2, <2>1, <2>3 DEF Places, Finishing, SameFlags
  <2> QED  BY <2>3, <2>4
<1>4. CASE DecodeGoes("failed") /\ UNCHANGED mapper /\ mapper[current].proc = "dead"
  <2>1. decode'.at = "failed" /\ decode'.item = decode.item /\ (Places' /\ Finishing' => Structure')
    BY <1>1, <1>4, Handles, Kills, DecodeHits DEF DecodePlace
  <2>2. Places' /\ Finishing'
    BY <1>1, <1>2, <1>4, <2>1 DEF Places, Finishing
  <2> QED  BY <2>1, <2>2
<1> QED  BY <1>3, <1>4 DEF Send, WithPacket

(* It has an item held back.                                               *)
LEMMA HoldStructure ==
  ASSUME Structure, Hold
  PROVE  Structure'
<1>1. UNCHANGED <<pipeVars, current, spare, passed, reports>> /\ current # 0 /\ decode.at = "use"
      /\ decode.item.kind = "aux" /\ DecodeGoes("get")
  BY Handles DEF Hold, DecodeAt, Places
<1>2. mapper[current].proc # "none" /\ ~mapper[current].finishing
  BY <1>1, Handles DEF Owners, Finishing
<1>3. CASE /\ Set(current, WithItem(mapper[current], decode.item))
           /\ Len(mapper[current].held) < HoldMax \/ mapper[current].killed
  <2> DEFINE r == mapper[current]
             q == WithItem(mapper[current], decode.item)
  <2>1. /\ q \in MapperRecord /\ q.held = Append(r.held, [after |-> r.sent, item |-> decode.item])
        /\ q.hand = r.hand /\ q.packets = r.packets
        /\ SameFlags(r, q)
        /\ q.all = r.all /\ q.reader = r.reader
    BY <1>1, Handles, WithItemHas
  <2>2. Roomy(q)
    <3>1. Len(q.held) = Len(r.held) + 1
      BY <1>1, <2>1, Handles DEF MapperRecord
    <3>2. Len(r.held) \in Nat
      BY <1>1, Handles DEF MapperRecord
    <3>3. Len(r.held) < HoldMax => Len(q.held) <= HoldMax
      BY <3>1, <3>2, MappingAssumption
    <3>4. r.killed => q.killed
      BY <2>1 DEF SameFlags
    <3> QED  BY <1>3, <3>3, <3>4 DEF Roomy
  <2> HIDE DEF q
  <2>3. Life(q) /\ q.proc # "none" /\ Len(q.hand) <= 1 /\ (mapper[current].claimed => q.claimed)
    BY <1>1, <1>2, <2>1, Handles DEF Life, SameFlags
  <2>4. decode'.at = "get" /\ (Places' /\ Finishing' => Structure') /\ mapper'[current] = q
    BY <1>1, <1>3, <2>1, <2>2, <2>3, DecodeTouches DEF DecodePlace, q
  <2>5. Places' /\ Finishing'
    BY <1>1, <1>2, <2>1, <2>4 DEF Places, Finishing, SameFlags
  <2> QED  BY <2>4, <2>5
<1> QED  BY <1>3 DEF Hold, WithItem

(* It ends the input of its mapper.                                        *)
LEMMA FinishStructure ==
  ASSUME Structure, Finish
  PROVE  Structure'
<1> DEFINE r == mapper[current]
           q == InputEnded(mapper[current])
           ended == [mapper EXCEPT ![current] = q]
<1>1. UNCHANGED <<pipeVars, current, spare, passed, reports>> /\ current # 0 /\ decode.at = "use"
      /\ decode.item.kind = "eos"
  BY Handles DEF Finish, DecodeAt, Places
<1>2. r.proc # "none" /\ ~r.finishing /\ current # spare
  BY <1>1, Handles DEF Owners, Finishing
<1>3. /\ q \in MapperRecord /\ SameCargo(r, q) /\ q.finishing = TRUE
      /\ q.proc = r.proc /\ q.killed = r.killed /\ q.crashed = r.crashed /\ q.claimed = r.claimed
      /\ q.all = r.all /\ q.reader = r.reader
  BY <1>1, Handles, InputEndedHas
<1>4. Life(q) /\ q.proc # "none" /\ Roomy(q) /\ Len(q.hand) <= 1 /\ (r.claimed => q.claimed)
  BY <1>1, <1>2, <1>3, Handles DEF Life, SameCargo, Roomy
<1>5. CASE mapper' = ended /\ DecodeGoes("drain") /\ ~r.killed
  <2>1. Set(current, q)
    BY <1>5 DEF Set
  <2> HIDE DEF q, ended
  <2>2. decode'.at = "drain" /\ decode'.item = decode.item /\ (Places' /\ Finishing' => Structure')
        /\ mapper'[current] = q
    BY <1>1, <1>5, <2>1, <1>3, <1>4, DecodeTouches DEF DecodePlace
  <2>3. Places' /\ Finishing'
    BY <1>1, <1>2, <1>3, <2>2 DEF Places, Finishing
  <2> QED  BY <2>2, <2>3
<1>6. CASE mapper' = Killed(ended, current) /\ DecodeGoes("failed") /\ r.proc = "dead"
  <2> HIDE DEF q
  <2>1. /\ ended \in [Mapper -> MapperRecord] /\ ended[current] = q
        /\ \A m \in Mapper : m # current => ended[m] = mapper[m]
    BY <1>1, <1>3, Handles DEF MapperTypes
  <2> HIDE DEF ended
  <2>2. /\ mapper' \in [Mapper -> MapperRecord]
        /\ \A m \in Mapper : m # current => mapper'[m] = mapper[m]
        /\ Hit(q, mapper'[current])
    BY <1>1, <1>6, <2>1, Handles, KilledHits
  <2> DEFINE u == mapper'[current]
  <2>3. u \in MapperRecord /\ Set(current, u)
    <3>1. mapper' = [mapper EXCEPT ![current] = mapper'[current]]
      BY <1>1, <2>2, Handles DEF MapperTypes
    <3> QED  BY <1>1, <2>2, <3>1, Handles DEF Set
  <2>4. Life(u) /\ u.proc = "dead" /\ Roomy(u) /\ Len(u.hand) <= 1 /\ (r.claimed => u.claimed)
        /\ u.reader = r.reader
    BY <1>1, <1>2, <1>3, <1>4, <1>6, <2>2, Handles DEF Life, SameCargo, Hit, Same, Roomy
  <2> HIDE DEF u
  <2>5. decode'.at = "failed" /\ decode'.item = decode.item /\ (Places' /\ Finishing' => Structure')
        /\ mapper'[current] = u
    BY <1>1, <1>6, <2>3, <2>4, DecodeTouches DEF DecodePlace
  <2>6. Places' /\ Finishing'
    BY <1>1, <1>2, <2>4, <2>5 DEF Places, Finishing
  <2> QED  BY <2>5, <2>6
<1> QED  BY <1>5, <1>6 DEF Finish, InputEnded

(* It has waited for the last frames, or for too long.                     *)
LEMMA DrainStructure ==
  ASSUME Structure, Drained \/ DrainTimesOut
  PROVE  Structure'
<1>1. UNCHANGED <<pipeVars, current, spare, passed, reports>> /\ current # 0 /\ decode.at = "drain"
      /\ decode.item.kind = "eos"
  BY Handles DEF Drained, DrainTimesOut, DecodeAt, Places
<1>2. AllHit /\ mapper'[current].killed
  BY <1>1, Handles, Kills DEF Drained, DrainTimesOut
<1>3. PICK p \in {"release", "failed"} : DecodeGoes(p) /\ (p = "failed" => mapper[current].crashed)
  BY DEF Drained, DrainTimesOut
<1>4. decode'.at = p /\ decode'.item = decode.item /\ (Places' /\ Finishing' => Structure')
      /\ Hit(mapper[current], mapper'[current])
  BY <1>1, <1>2, <1>3, DecodeHits DEF DecodePlace
<1>5. mapper'[current].proc = "dead"
  BY <1>1, <1>2, <1>4, Handles DEF Life, Hit, MapperRecord
<1>6. Places' /\ Finishing'
  BY <1>1, <1>3, <1>4, <1>5 DEF Places, Finishing, Hit, Same
<1> QED  BY <1>4, <1>6

(* Its mapper is dead: a seek did it, the reader said so, or the stage     *)
(* ends.                                                                   *)
LEMMA FailedStructure ==
  ASSUME Structure, Failed
  PROVE  Structure'
<1>1. UNCHANGED <<pipeVars, current, spare, passed>> /\ current # 0 /\ decode.at = "failed"
      /\ mapper[current].proc = "dead" /\ decode.item.kind \in {"video", "aux", "eos"}
  BY Handles DEF Failed, DecodeAt, Places
<1>2. CASE DecodeGoes(IF decode.item.kind = "eos" THEN "release" ELSE "get")
           /\ UNCHANGED <<mapper, reports>>
  <2>1. PICK p \in {"release", "get"} : DecodeGoes(p) /\ (p = "release" <=> decode.item.kind = "eos")
    BY <1>2
  <2>2. decode'.at = p /\ decode'.item = decode.item /\ (Places' /\ Finishing' => Structure')
    BY <1>1, <1>2, <2>1, Handles, Kills, DecodeHits DEF DecodePlace
  <2>3. Places' /\ Finishing'
    BY <1>1, <1>2, <2>1, <2>2, Handles DEF Places, Finishing
  <2> QED  BY <2>2, <2>3
<1>3. CASE /\ ~(pending \/ closed \/ mapper[current].claimed)
           /\ Set(current, Claimed(mapper[current]))
           /\ reports' = [reports EXCEPT ![current] = @ + 1] /\ DecodeGoes("ending")
  <2> DEFINE r == mapper[current]
             q == Claimed(mapper[current])
  <2>1. /\ q \in MapperRecord /\ SameCargo(r, q) /\ q.claimed = TRUE
        /\ q.proc = r.proc /\ q.killed = r.killed /\ q.crashed = r.crashed
        /\ q.finishing = r.finishing /\ q.all = r.all /\ q.reader = r.reader
    BY <1>1, Handles, ClaimedHas
  <2>2. Set(current, q)
    BY <1>3
  <2> HIDE DEF q
  <2>3. Life(q) /\ q.proc # "none" /\ Roomy(q) /\ Len(q.hand) <= 1
        /\ current # spare
    BY <1>1, <2>1, Handles DEF Life, SameCargo, Owners, Roomy
  <2>4. MapperTypes' /\ Lives' /\ Owners' /\ Readers' /\ mapper'[current] = q
        /\ \A m \in Mapper : m # current => mapper'[m] = mapper[m]
    BY <1>1, <2>1, <2>2, <2>3, Handles, Touched
  <2>5. decode' \in DecodeType /\ decode'.at = "ending" /\ decode'.item = decode.item
    BY <1>3, Handles, Going DEF DecodePlace
  <2>6. reports[current] = 0
    BY <1>1, <1>3, Handles DEF Claims
  <2>7. reports' \in [Mapper -> 0..1]
    BY <1>1, <1>3, <2>6, Handles DEF OtherTypes
  <2>8. Claims'
    BY <1>1, <1>3, <2>1, <2>4, Handles DEF Claims, OtherTypes
  <2>9. PipeTypes' /\ OtherTypes' /\ Feeding'
    BY <1>1, <2>5, <2>7, Handles DEF PipeTypes, OtherTypes, Feeding, pipeVars
  <2>10. Places' /\ Finishing'
    BY <1>1, <2>1, <2>4, <2>5, Handles DEF Places, Finishing
  <2> QED  BY <2>4, <2>8, <2>9, <2>10, TypesSplit DEF Structure
<1> QED  BY <1>2, <1>3 DEF Failed, Claimed

(* It kills what it gives up, ...                                          *)
LEMMA ReleaseStructure ==
  ASSUME Structure, ReleaseKills
  PROVE  Structure'
<1>1. UNCHANGED <<inq, fed, epoch, pending, closed, flush, closing, decode, current, spare,
                  passed, reports>>
  BY DEF ReleaseKills, pipeVars
<1>2. AllHit
  <2>1. \/ mapper' = Killed(Killed(mapper, current), spare)
        \/ mapper' = Killed(mapper, current)
    BY DEF ReleaseKills
  <2> QED  BY <2>1, Handles, Kills
<1>3. PipeTypes' /\ Feeding'
  BY <1>1, Handles DEF PipeTypes, Feeding
<1> QED  BY <1>1, <1>2, <1>3, OutsideKeeps

(* ... and gives it up once the reader has ended.                          *)
LEMMA LeaveStructure ==
  ASSUME Structure, ReleaseMapper \/ End
  PROVE  Structure'
<1>1. /\ UNCHANGED <<inq, fed, epoch, closed, flush, closing, mapper, passed, reports>>
      /\ current' = 0 /\ spare' \in {spare, 0} /\ pending' \in BOOLEAN
      /\ Released(current)
  BY Handles DEF ReleaseMapper, End, pipeVars, PipeTypes
<1>2. PICK p \in {"pass", "ended"} :
        /\ DecodeGoes(p) /\ (p = "pass" => decode.item.kind \in {"eos", "flush"})
        /\ p = "ended" => spare' = 0
  BY Handles DEF ReleaseMapper, End, DecodeAt, Places
<1>3. decode' \in DecodeType /\ decode'.at = p /\ decode'.item = decode.item
  BY <1>2, Handles, Going DEF DecodePlace
<1>4. AllHit
  BY <1>1, Handles, Kills
<1>5. MapperTypes' /\ Lives' /\ Owners' /\ Claims'
  BY <1>1, <1>4, Handles, HitLives, HitOwners
<1>6. Readers'
  BY <1>1, Handles DEF Readers, Released
<1>7. PipeTypes' /\ OtherTypes' /\ Feeding'
  BY <1>1, <1>3, Handles, MappingAssumption DEF PipeTypes, OtherTypes, Feeding
<1>8. Places' /\ Finishing'
  BY <1>1, <1>2, <1>3 DEF Places, Finishing
<1> QED  BY <1>5, <1>6, <1>7, <1>8, TypesSplit DEF Structure

(* It passes a flush or the end of an epoch on.                            *)
LEMMA PassStructure ==
  ASSUME Structure, Pass
  PROVE  Structure'
<1>1. /\ UNCHANGED <<inq, fed, epoch, pending, closed, flush, closing, current, spare, mapper, reports>>
      /\ DecodeGoes("get") /\ current = 0
  BY Handles DEF Pass, DecodeAt, Places, pipeVars
<1>2. decode' \in DecodeType /\ decode'.at = "get" /\ decode'.item = decode.item
  BY <1>1, Handles, Going DEF DecodePlace
<1>3. passed' \in Seq(Items)
  BY Handles DEF Pass, OtherTypes
<1>4. AllHit
  BY <1>1, Handles, Kills
<1>5. MapperTypes' /\ Lives' /\ Owners' /\ Readers' /\ Claims'
  BY <1>1, <1>4, Handles, HitLives, HitOwners
<1>6. PipeTypes' /\ OtherTypes' /\ Feeding'
  BY <1>1, <1>2, <1>3, Handles DEF PipeTypes, OtherTypes, Feeding
<1>7. Places' /\ Finishing'
  BY <1>1, <1>2, Handles DEF Places, Finishing
<1> QED  BY <1>5, <1>6, <1>7, TypesSplit DEF Structure

(* The decode thread takes the next item.                                  *)
LEMMA GetStructure ==
  ASSUME Structure, Get
  PROVE  Structure'
<1>1. /\ UNCHANGED <<fed, epoch, pending, closed, flush, closing, current, spare, mapper,
                     passed, reports>>
      /\ decode.at = "get" /\ inq # <<>> /\ inq' = Tail(inq)
  BY DEF Get, DecodeAt
<1>2. Head(inq) \in Items /\ inq' \in Seq(Items)
  BY <1>1, Handles, HeadTailProperties DEF PipeTypes
<1> DEFINE i == Head(inq)
           p == IF i.kind = "stop" THEN "ending"
                ELSE IF i.kind = "flush" THEN "release"
                ELSE IF i.epoch < epoch THEN "get"
                ELSE IF i.kind \in {"video", "aux"} THEN "ensure"
                ELSE IF current = 0 THEN "pass" ELSE "use"
<1>3. decode' = [item |-> i, at |-> p]
  BY DEF Get
<1>4. p \in DecodePlace
  BY DEF DecodePlace
<1>5. decode' \in DecodeType /\ decode'.at = p /\ decode'.item = i
  BY <1>2, <1>3, <1>4 DEF DecodeType
<1>6. AllHit
  BY <1>1, Handles, Kills
<1>7. MapperTypes' /\ Lives' /\ Owners' /\ Readers' /\ Claims'
  BY <1>1, <1>6, Handles, HitLives, HitOwners
<1>8. Elems(inq) = Elems(inq') \cup {i}
  BY <1>1, Handles, ElemsOf DEF PipeTypes
<1>9. PipeTypes' /\ OtherTypes' /\ Feeding'
  BY <1>1, <1>2, <1>5, <1>8, Handles DEF PipeTypes, OtherTypes, Feeding
<1>10. current # 0 => ~mapper[current].finishing
  BY <1>1, Handles DEF Finishing
<1>11. i.kind = "stop" => closed
  BY <1>8, Handles DEF Feeding
<1>12. Places' /\ Finishing'
  BY <1>1, <1>2, <1>5, <1>10, <1>11 DEF Places, Finishing, Items
<1> QED  BY <1>7, <1>9, <1>12, TypesSplit DEF Structure

(* A mapper is started, and a reader with it.                              *)
LEMMA StartStructure ==
  ASSUME Structure, StartMapper
  PROVE  Structure'
<1>1. UNCHANGED <<pipeVars, current, spare, passed, reports>> /\ current # 0 /\ decode.at = "start"
      /\ decode.item.kind \in {"video", "aux"} /\ mapper[current].reader = "none"
  BY Handles DEF StartMapper, DecodeAt, Places
<1>2. mapper[current].proc # "none" /\ ~mapper[current].finishing
  BY <1>1, Handles DEF Owners, Finishing
<1>3. CASE /\ Set(current, WithReader(mapper[current], "reading")) /\ DecodeGoes("spare")
           /\ mapper[current].proc = "alive"
  <2> DEFINE r == mapper[current]
             q == WithReader(mapper[current], "reading")
  <2>1. /\ q \in MapperRecord /\ SameCargo(r, q) /\ SameFlags(r, q) /\ q.reader = "reading"
        /\ q.all = r.all
    BY <1>1, Handles, WithReaderHas
  <2>2. Set(current, q)
    BY <1>3
  <2> HIDE DEF q
  <2>3. Life(q) /\ q.proc # "none" /\ Roomy(q) /\ Len(q.hand) <= 1
        /\ (mapper[current].claimed => q.claimed)
    BY <1>1, <1>2, <2>1, Handles DEF Life, SameCargo, SameFlags, Roomy
  <2>4. decode'.at = "spare" /\ decode'.item = decode.item /\ (Places' /\ Finishing' => Structure')
        /\ mapper'[current] = q
    BY <1>1, <1>3, <2>1, <2>2, <2>3, DecodeTouches DEF DecodePlace
  <2>5. Places' /\ Finishing'
    BY <1>1, <1>2, <2>1, <2>4 DEF Places, Finishing, SameFlags
  <2> QED  BY <2>4, <2>5
<1>4. CASE DecodeGoes("failed") /\ UNCHANGED mapper /\ mapper[current].proc = "dead"
  <2>1. decode'.at = "failed" /\ decode'.item = decode.item /\ (Places' /\ Finishing' => Structure')
    BY <1>1, <1>4, Handles, Kills, DecodeHits DEF DecodePlace
  <2>2. Places' /\ Finishing'
    BY <1>1, <1>2, <1>4, <2>1 DEF Places, Finishing
  <2> QED  BY <2>1, <2>2
<1> QED  BY <1>3, <1>4 DEF StartMapper, WithReader

(* A process that was just spawned.                                        *)
LEMMA SpawnedHas ==
  /\ Spawned \in MapperRecord /\ Fresh(Spawned) /\ Life(Spawned)
  /\ Spawned.proc = "alive" /\ ~Spawned.killed /\ ~Spawned.crashed
  /\ Len(Spawned.held) = 0 /\ Len(Spawned.hand) = 0
<1>1. 0 \in Epoch /\ <<>> \in Seq(0..Len(Script) + 1) /\ <<>> \in Seq([after : Nat, item : Items])
      /\ <<>> \in Seq(Items)
  BY MappingAssumption DEF Epoch
<1> QED  BY <1>1 DEF Spawned, NoMapper, MapperRecord, Fresh, Life

(* The decode thread takes a process for the epoch of its item.            *)
LEMMA AdoptedStructure ==
  ASSUME Structure, NEW m \in Mapper, NEW r \in MapperRecord,
         current = 0, current' = m, spare' = 0,
         UNCHANGED <<pipeVars, passed, reports>>, DecodeGoes("start"),
         decode.item.kind \in {"video", "aux"},
         mapper' \in [Mapper -> MapperRecord],
         mapper'[m] = TakenFor(r, decode.item.epoch), Fresh(r), Life(r), r.proc # "none",
         reports[m] = 0,
         \A k \in Mapper : k # m => Hit(mapper[k], mapper'[k])
  PROVE  Structure'
<1> DEFINE q == TakenFor(r, decode.item.epoch)
<1>1. /\ q \in MapperRecord
      /\ q.packets = r.packets /\ q.held = r.held /\ q.hand = r.hand
      /\ SameFlags(r, q) /\ q.all = r.all /\ q.reader = r.reader
  BY Handles, TakenForHas
<1>2. mapper'[m] = q
  OBVIOUS
<1> HIDE DEF q
<1>3. /\ Life(q) /\ q.proc # "none" /\ ~q.finishing /\ q.reader = "none"
      /\ Roomy(q) /\ Len(q.hand) <= 1
  BY <1>1, MappingAssumption DEF Life, SameFlags, Fresh, Roomy
<1>4. decode' \in DecodeType /\ decode'.at = "start" /\ decode'.item = decode.item
  BY Handles, Going DEF DecodePlace
<1>5. ASSUME NEW k \in Mapper, k # m
      PROVE  /\ Life(mapper'[k]) /\ Roomy(mapper'[k]) /\ Len(mapper'[k].hand) <= 1
             /\ mapper'[k].reader \in {"none", "ended"}
             /\ reports[k] # 0 => mapper'[k].claimed
  <2>1. Life(mapper[k]) /\ Hit(mapper[k], mapper'[k]) /\ mapper[k] \in MapperRecord
        /\ mapper'[k] \in MapperRecord
    BY <1>5, Handles DEF Lives, MapperTypes
  <2>2. /\ mapper[k].proc \in {"none", "alive", "dead"}
        /\ mapper'[k].proc \in {"none", "alive", "dead"}
    BY <2>1 DEF MapperRecord
  <2>3. Life(mapper'[k])
    BY <2>1, <2>2 DEF Life, Hit, Same, Fresh
  <2>4. Roomy(mapper'[k]) /\ Len(mapper'[k].hand) <= 1
    BY <2>1, Handles DEF Hit, Same, MapperTypes, Roomy
  <2>5. mapper'[k].reader \in {"none", "ended"}
    BY <2>1, <1>5, Handles, MappingAssumption DEF Hit, Same, Readers, Mapper
  <2>6. reports[k] # 0 => mapper'[k].claimed
    BY <2>1, Handles DEF Hit, Same, Claims
  <2> QED  BY <2>3, <2>4, <2>5, <2>6
<1>6. MapperTypes'
  BY <1>2, <1>3, <1>5 DEF MapperTypes
<1>7. Lives'
  BY <1>2, <1>3, <1>5 DEF Lives
<1>8. Readers' /\ Claims'
  BY <1>2, <1>3, <1>5 DEF Readers, Claims
<1>9. Owners'
  BY <1>2, <1>3, MappingAssumption DEF Owners, Mapper
<1>10. PipeTypes' /\ OtherTypes' /\ Feeding'
  BY <1>4, Handles, MappingAssumption DEF PipeTypes, OtherTypes, Feeding, pipeVars, Mapper
<1>11. Places' /\ Finishing'
  BY <1>2, <1>3, <1>4, MappingAssumption DEF Places, Finishing, Mapper
<1> QED  BY <1>6, <1>7, <1>8, <1>9, <1>10, <1>11, TypesSplit DEF Structure

(* A mapper of its own for the epoch.                                      *)
LEMMA EnsureStructure ==
  ASSUME Structure, Ensure
  PROVE  Structure'
<1>1. UNCHANGED <<pipeVars, passed, reports>> /\ decode.at = "ensure"
      /\ decode.item.kind \in {"video", "aux"}
  BY Handles DEF Ensure, DecodeAt, Places
<1>2. CASE UNCHANGED <<current, spare, mapper>>
  <2>1. PICK p \in {"use", "ending"} :
          DecodeGoes(p) /\ (p = "use" => current # 0) /\ (p = "ending" => closed)
    BY <1>2, Handles, MappingAssumption DEF Ensure, Set, Spawned, NoMapper, Unused, MapperTypes, Mapper, Owners
  <2>2. decode'.at = p /\ decode'.item = decode.item /\ (Places' /\ Finishing' => Structure')
    BY <1>1, <1>2, <2>1, Handles, Kills, DecodeHits DEF DecodePlace
  <2>3. Places' /\ Finishing'
    BY <1>1, <1>2, <2>1, <2>2, Handles DEF Places, Finishing, pipeVars
  <2> QED  BY <2>2, <2>3
<1>3. CASE /\ current = 0 /\ spare # 0 /\ current' = spare /\ spare' = 0
           /\ Set(spare, TakenFor(mapper[spare], decode.item.epoch))
           /\ DecodeGoes("start")
  <2> DEFINE q == TakenFor(mapper[spare], decode.item.epoch)
  <2>1. spare \in Mapper /\ mapper[spare] \in MapperRecord /\ Life(mapper[spare])
        /\ Fresh(mapper[spare]) /\ mapper[spare].proc # "none"
    BY <1>3, Handles DEF Owners
  <2>2. q \in MapperRecord
    BY <2>1, Handles, TakenForHas
  <2>3. reports[spare] = 0
    BY <2>1, Handles DEF Claims, Fresh
  <2>4. Set(spare, q)
    BY <1>3
  <2>5. mapper' \in [Mapper -> MapperRecord] /\ mapper'[spare] = q
        /\ \A k \in Mapper : k # spare => mapper'[k] = mapper[k]
    BY <2>1, <2>2, <2>4, Handles, Replaced
  <2>6. \A k \in Mapper : k # spare => Hit(mapper[k], mapper'[k])
    BY <2>5 DEF Hit, Same
  <2> QED  BY <1>1, <1>3, <2>1, <2>3, <2>5, <2>6, AdoptedStructure
<1>4. CASE /\ current = 0 /\ spare' = 0 /\ DecodeGoes("start")
           /\ \E m \in Unused : /\ current' = m
                /\ mapper' = [Killed(mapper, spare) EXCEPT ![m] = TakenFor(Spawned, decode.item.epoch)]
  <2> DEFINE q == TakenFor(Spawned, decode.item.epoch)
             M == Killed(mapper, spare)
  <2>1. PICK m \in Unused : current' = m /\ mapper' = [M EXCEPT ![m] = q]
    BY <1>4
  <2>2. m \in Mapper /\ mapper[m].proc = "none"
    BY DEF Unused
  <2>3. reports[m] = 0
    BY <2>2, Handles DEF Claims, Lives, Life, Fresh
  <2>4. M \in [Mapper -> MapperRecord] /\ \A k \in Mapper : Hit(mapper[k], M[k])
    BY Handles, KilledHits DEF MapperTypes
  <2>5. q \in MapperRecord
    BY Handles, SpawnedHas, TakenForHas
  <2> HIDE DEF M, q
  <2>6. mapper' \in [Mapper -> MapperRecord] /\ mapper'[m] = q
        /\ \A k \in Mapper : k # m => Hit(mapper[k], mapper'[k])
    BY <2>1, <2>2, <2>4, <2>5
  <2>7. Spawned \in MapperRecord /\ Fresh(Spawned) /\ Life(Spawned) /\ Spawned.proc # "none"
    BY SpawnedHas
  <2> QED  BY <1>1, <1>4, <2>1, <2>2, <2>3, <2>6, <2>7, AdoptedStructure DEF q
<1> QED  BY <1>2, <1>3, <1>4 DEF Ensure, TakenFor

(* Another one is started for the epoch to come.                           *)
LEMMA SpareStructure ==
  ASSUME Structure, StartSpare
  PROVE  Structure'
<1>1. UNCHANGED <<pipeVars, current, passed, reports>> /\ current # 0 /\ decode.at = "spare"
      /\ decode.item.kind \in {"video", "aux"} /\ DecodeGoes("use")
  BY Handles DEF StartSpare, DecodeAt, Places
<1>2. decode' \in DecodeType /\ decode'.at = "use" /\ decode'.item = decode.item
  BY <1>1, Handles, Going DEF DecodePlace
<1>3. current \in Mapper /\ mapper[current].proc # "none"
  BY <1>1, Handles DEF Owners
<1>4. CASE UNCHANGED <<spare, mapper>>
  <2>1. Places' /\ Finishing' => Structure'
    BY <1>1, <1>4, Handles, Kills, DecodeHits DEF DecodePlace
  <2>2. Places' /\ Finishing'
    BY <1>1, <1>2, <1>4, Handles DEF Places, Finishing
  <2> QED  BY <2>1, <2>2
<1>5. CASE \E m \in Unused : spare' = m /\ mapper' = [mapper EXCEPT ![m] = Spawned]
  <2>1. PICK m \in Unused : spare' = m /\ mapper' = [mapper EXCEPT ![m] = Spawned]
    BY <1>5
  <2>2. m \in Mapper /\ mapper[m].proc = "none" /\ m # current
    BY <1>3 DEF Unused
  <2>3. reports[m] = 0
    BY <2>2, Handles DEF Claims, Lives, Life, Fresh
  <2>4. /\ MapperTypes' /\ Lives' /\ mapper'[m] = Spawned
        /\ \A k \in Mapper : k # m => mapper'[k] = mapper[k]
    <3>1. Set(m, Spawned)
      BY <2>1 DEF Set
    <3> QED  BY <2>2, <3>1, Handles, SpawnedHas, Replaced, MappingAssumption DEF Roomy
  <2>5. Owners'
    BY <1>1, <1>3, <2>1, <2>2, <2>4, SpawnedHas DEF Owners
  <2>6. Readers' /\ Claims'
    BY <1>1, <2>2, <2>3, <2>4, Handles, SpawnedHas DEF Readers, Claims, Fresh
  <2>7. PipeTypes' /\ OtherTypes' /\ Feeding'
    BY <1>1, <1>2, <2>1, <2>2, Handles, MappingAssumption
       DEF PipeTypes, OtherTypes, Feeding, pipeVars, Mapper
  <2>8. Places' /\ Finishing'
    BY <1>1, <1>2, <1>3, <2>2, <2>4, Handles DEF Places, Finishing
  <2> QED  BY <2>4, <2>5, <2>6, <2>7, <2>8, TypesSplit DEF Structure
<1> QED  BY <1>4, <1>5 DEF StartSpare

-----------------------------------------------------------------------------
(* A reader at work is the current mapper's                                *)

(* A reader at work is that of the current mapper.                         *)
LEMMA ReaderIsCurrent ==
  ASSUME Structure, NEW m \in Mapper,
         mapper[m].reader \notin {"none", "ended"} \/ mapper[m].hand # <<>>
  PROVE  /\ m = current /\ m # 0 /\ current # 0
         /\ mapper[m].reader \notin {"none", "ended"} /\ mapper[m].proc # "none"
         /\ mapper[m] \in MapperRecord /\ Life(mapper[m])
         /\ Roomy(mapper[m]) /\ Len(mapper[m].hand) <= 1
<1>1. mapper[m] \in MapperRecord /\ Life(mapper[m])
      /\ Roomy(mapper[m]) /\ Len(mapper[m].hand) <= 1
  BY Handles DEF MapperTypes, Lives
<1>2. mapper[m].reader \notin {"none", "ended"}
  BY <1>1 DEF Life
<1>3. m = current /\ m # 0
  BY <1>2, Handles, MappingAssumption DEF Readers, Mapper
<1>4. mapper[m].proc # "none"
  BY <1>3, Handles DEF Owners
<1> QED  BY <1>1, <1>2, <1>3, <1>4

(* A step of the reader changes its mapper and nothing of the pipeline.    *)
LEMMA ReaderTouches ==
  ASSUME Structure, NEW m \in Mapper, NEW q \in MapperRecord, Set(m, q), ByReader,
         mapper[m].reader \notin {"none", "ended"} \/ mapper[m].hand # <<>>,
         Life(q), Roomy(q), Len(q.hand) <= 1, q.reader # "none",
         q.proc = mapper[m].proc, q.finishing = mapper[m].finishing,
         mapper[m].claimed => q.claimed,
         passed' \in Seq(Items), reports' \in [Mapper -> 0..1],
         \A k \in Mapper : reports'[k] # 0 => reports[k] # 0 \/ (k = m /\ q.claimed)
  PROVE  Structure'
<1>1. /\ m = current /\ current # 0 /\ mapper[m].reader \notin {"none", "ended"}
      /\ mapper[m].proc # "none"
  BY ReaderIsCurrent
<1>2. /\ m # spare
      /\ UNCHANGED <<inq, fed, epoch, pending, closed, flush, closing, decode, current, spare>>
  BY <1>1, Handles DEF Owners, ByReader, pipeVars
<1>3. MapperTypes' /\ Lives' /\ Owners' /\ Readers'
      /\ mapper'[m] = q /\ \A k \in Mapper : k # m => mapper'[k] = mapper[k]
  BY <1>1, <1>2, Touched
<1>4. Claims'
  BY <1>3, Handles DEF Claims
<1>5. PipeTypes' /\ OtherTypes' /\ Feeding'
  BY <1>2, Handles DEF PipeTypes, OtherTypes, Feeding
<1>6. Places' /\ Finishing'
  BY <1>1, <1>2, <1>3, Handles DEF Places, Finishing
<1> QED  BY <1>3, <1>4, <1>5, <1>6, TypesSplit DEF Structure

(* The steps of a reader.                                                  *)
LEMMA ReaderStructure ==
  ASSUME Structure, NEW m \in Mapper, Reader(m)
  PROVE  Structure'
<1> DEFINE r == mapper[m]
<1>1. /\ m = current /\ r.reader \notin {"none", "ended"} /\ r \in MapperRecord /\ Life(r)
      /\ Roomy(r) /\ Len(r.hand) <= 1 /\ ByReader
      /\ r.reader \notin {"none", "ended"} \/ r.hand # <<>>
  <2>1. ByReader /\ (r.reader \notin {"none", "ended"} \/ r.hand # <<>>)
    BY DEF Reader, MapFrame, ReaderIdle, HandOn, ReleaseHeld, StreamEnds, ReadKilled, ReadFails, Reads
  <2> QED  BY <2>1, ReaderIsCurrent
<1>2. passed \in Seq(Items) /\ reports \in [Mapper -> 0..1]
  BY Handles DEF OtherTypes
<1>3. CASE Set(m, FrameOut(r)) /\ r.packets # <<>> /\ UNCHANGED <<passed, reports>>
           /\ r.reader = "reading"
  <2> DEFINE q == FrameOut(r)
  <2>1. Item("video", r.epoch, Head(r.packets)) \in Items
    <3>1. Head(r.packets) \in 0..Len(Script) + 1 /\ r.epoch \in Epoch
      BY <1>1, <1>3 DEF MapperRecord
    <3> QED  BY <3>1 DEF Item, Items
  <2>2. /\ q \in MapperRecord /\ q.reader = "releasing" /\ q.held = r.held /\ SameFlags(r, q)
        /\ q.hand = <<Item("video", r.epoch, Head(r.packets))>>
    BY <1>1, <1>3, <2>1, FrameOutHas
  <2>3. Set(m, q)
    BY <1>3
  <2> HIDE DEF q
  <2>4. Life(q) /\ Roomy(q) /\ Len(q.hand) <= 1
    BY <1>1, <1>3, <2>2, Handles, ReaderIsCurrent DEF Life, SameFlags, Roomy
  <2> QED  BY <1>1, <1>2, <1>3, <2>2, <2>3, <2>4, ReaderTouches DEF SameFlags
<1>4. CASE Set(m, AllDue(r)) /\ UNCHANGED <<passed, reports>>
  <2> DEFINE q == AllDue(r)
  <2>1. q \in MapperRecord /\ q.reader = "releasing" /\ SameCargo(r, q) /\ SameFlags(r, q)
    BY <1>1, AllDueHas
  <2>2. Set(m, q)
    BY <1>4
  <2> HIDE DEF q
  <2>3. Life(q) /\ Roomy(q) /\ Len(q.hand) <= 1
    BY <1>1, <2>1, ReaderIsCurrent DEF Life, SameFlags, SameCargo, Roomy
  <2> QED  BY <1>1, <1>2, <1>4, <2>1, <2>2, <2>3, ReaderTouches DEF SameFlags
<1>5. CASE Set(m, HandEmptied(r)) /\ HandOn(m)
  <2> DEFINE q == HandEmptied(r)
  <2>1. passed' \in Seq(Items) /\ UNCHANGED reports
    <3>1. Head(r.hand) \in Items
      BY <1>1, <1>5 DEF HandOn, MapperRecord
    <3> QED  BY <1>2, <1>5, <3>1 DEF HandOn
  <2>2. /\ q \in MapperRecord /\ q.hand = <<>> /\ q.packets = r.packets /\ q.held = r.held
        /\ SameFlags(r, q) /\ q.all = r.all /\ q.reader = r.reader
    BY <1>1, HandEmptiedHas
  <2>3. Set(m, q)
    BY <1>5
  <2> HIDE DEF q
  <2>4. Life(q) /\ Roomy(q) /\ Len(q.hand) <= 1
    BY <1>1, <2>2, ReaderIsCurrent DEF Life, SameFlags, Roomy
  <2> QED  BY <1>1, <1>2, <2>1, <2>2, <2>3, <2>4, ReaderTouches DEF SameFlags
<1>6. CASE Set(m, HeldOut(r)) /\ r.held # <<>> /\ r.reader \in {"releasing", "last"}
           /\ UNCHANGED <<passed, reports>>
  <2> DEFINE q == HeldOut(r)
  <2>1. /\ q \in MapperRecord /\ q.held = Tail(r.held) /\ q.hand = <<Head(r.held).item>>
        /\ q.packets = r.packets /\ SameFlags(r, q) /\ q.all = r.all /\ q.reader = r.reader
    BY <1>1, <1>6, HeldOutHas
  <2>2. Set(m, q)
    BY <1>6
  <2> HIDE DEF q
  <2>3. Roomy(q)
    <3>1. r.held \in Seq([after : Nat, item : Items])
      BY <1>1 DEF MapperRecord
    <3>2. Len(q.held) = Len(r.held) - 1 /\ Len(r.held) \in Nat
      BY <1>6, <2>1, <3>1, HeadTailProperties
    <3>3. Len(r.held) <= HoldMax => Len(q.held) <= HoldMax
      BY <3>2, MappingAssumption
    <3>4. q.killed = r.killed
      BY <2>1 DEF SameFlags
    <3> QED  BY <1>1, <3>3, <3>4 DEF Roomy
  <2>4. Life(q) /\ Len(q.hand) <= 1
    BY <1>1, <1>6, <2>1, ReaderIsCurrent DEF Life, SameFlags
  <2> QED  BY <1>1, <1>2, <1>6, <2>1, <2>2, <2>3, <2>4, ReaderTouches DEF SameFlags
<1>7. ASSUME NEW w \in {"reading", "ended"}, Set(m, WithReader(r, w)),
             UNCHANGED <<passed, reports>>, r.hand = <<>>,
             w = "ended" => r.killed \/ (r.finishing /\ r.held = <<>> /\ (r.crashed \/ r.packets = <<>>))
      PROVE  Structure'
  <2> DEFINE q == WithReader(r, w)
  <2>1. q \in MapperRecord /\ q.reader = w /\ SameCargo(r, q) /\ SameFlags(r, q) /\ q.all = r.all
    BY <1>1, WithReaderHas
  <2>2. Set(m, q)
    BY <1>7
  <2> HIDE DEF q
  <2>3. Life(q) /\ Roomy(q) /\ Len(q.hand) <= 1
    BY <1>1, <1>7, <2>1, ReaderIsCurrent DEF Life, SameFlags, SameCargo, Roomy
  <2> QED  BY <1>1, <1>2, <1>7, <2>1, <2>2, <2>3, ReaderTouches DEF SameFlags
<1>8. CASE Set(m, LastOnes(r)) /\ UNCHANGED <<passed, reports>>
           /\ (r.killed \/ (r.finishing /\ (r.packets = <<>> \/ r.crashed)))
  <2> DEFINE q == LastOnes(r)
  <2>1. /\ q \in MapperRecord /\ q.reader = "last" /\ q.all = TRUE
        /\ SameCargo(r, q) /\ SameFlags(r, q)
    BY <1>1, LastOnesHas
  <2>2. Set(m, q)
    BY <1>8
  <2> HIDE DEF q
  <2>3. Life(q) /\ Roomy(q) /\ Len(q.hand) <= 1
    BY <1>1, <1>8, <2>1, ReaderIsCurrent DEF Life, SameFlags, SameCargo, Roomy
  <2> QED  BY <1>1, <1>2, <1>8, <2>1, <2>2, <2>3, ReaderTouches DEF SameFlags
<1>9. CASE Set(m, ReaderFailed(r)) /\ ReadFails(m)
  <2> DEFINE q == ReaderFailed(r)
  <2>1. UNCHANGED passed /\ r.crashed /\ r.reader = "reading"
        /\ reports' = IF ~r.claimed /\ ~closed THEN [reports EXCEPT ![m] = @ + 1] ELSE reports
    BY <1>9 DEF ReadFails, Reads
  <2>2. /\ q \in MapperRecord /\ q.reader = "ended" /\ q.claimed = TRUE /\ q.killed = TRUE
        /\ SameCargo(r, q) /\ q.proc = r.proc /\ q.crashed = r.crashed
        /\ q.finishing = r.finishing /\ q.all = r.all
    BY <1>1, ReaderFailedHas
  <2>3. Set(m, q)
    BY <1>9
  <2> HIDE DEF q
  <2>4. Life(q) /\ Roomy(q) /\ Len(q.hand) <= 1
    BY <1>1, <2>1, <2>2, ReaderIsCurrent DEF Life, SameCargo, Roomy
  <2>5. ~r.claimed => reports[m] = 0
    BY Handles DEF Claims
  <2>6. /\ reports' \in [Mapper -> 0..1]
        /\ \A k \in Mapper : k # m => reports'[k] = reports[k]
    BY <1>2, <2>1, <2>5
  <2> QED  BY <1>1, <1>2, <2>1, <2>2, <2>3, <2>4, <2>6, ReaderTouches
<1> QED
  <2>1. CASE MapFrame(m)
    BY <1>3, <2>1 DEF MapFrame, Reads, FrameOut
  <2>2. CASE ReaderIdle(m)
    BY <1>4, <2>2 DEF ReaderIdle, AllDue
  <2>3. CASE HandOn(m)
    BY <1>5, <2>3 DEF HandOn, HandEmptied
  <2>4. CASE ReleaseHeld(m) /\ Due(m)
    BY <1>6, <2>4 DEF ReleaseHeld, Due, HeldOut
  <2>5. CASE ReleaseHeld(m) /\ ~Due(m)
    <3> DEFINE w == IF r.reader = "last" THEN "ended" ELSE "reading"
    <3>1. Set(m, WithReader(r, w)) /\ UNCHANGED <<passed, reports>> /\ r.hand = <<>>
      BY <2>5 DEF ReleaseHeld, WithReader
    <3>2. r.reader = "last" => r.held = <<>>
      BY <1>1, <2>5 DEF Due, Life
    <3> QED  BY <1>1, <1>7, <3>1, <3>2 DEF Life
  <2>6. CASE StreamEnds(m)
    BY <1>8, <2>6 DEF StreamEnds, LastOnes
  <2>7. CASE ReadKilled(m)
    <3>1. /\ Set(m, WithReader(r, "ended")) \/ Set(m, LastOnes(r))
          /\ UNCHANGED <<passed, reports>> /\ r.killed /\ r.reader = "reading"
      BY <2>7 DEF ReadKilled, WithReader, LastOnes, Reads
    <3>2. r.hand = <<>>
      BY <1>1, <3>1 DEF Life
    <3> QED  BY <1>7, <1>8, <3>1, <3>2
  <2>8. CASE ReadFails(m)
    BY <1>9, <2>8 DEF ReadFails, ReaderFailed
  <2> QED  BY <2>1, <2>2, <2>3, <2>4, <2>5, <2>6, <2>7, <2>8 DEF Reader

(* A mapper may crash whoever owns it.                                     *)
LEMMA CrashStructure ==
  ASSUME Structure, NEW m \in Mapper, MapperCrash(m)
  PROVE  Structure'
<1> DEFINE r == mapper[m]
           q == ProcessCrashed(r)
<1>1. /\ r.proc = "alive" /\ Set(m, q) /\ UNCHANGED <<passed, reports>>
      /\ UNCHANGED <<inq, fed, epoch, pending, closed, flush, closing, decode, current, spare>>
  BY DEF MapperCrash, ProcessCrashed, ByReader, pipeVars
<1>2. r \in MapperRecord /\ Life(r) /\ Roomy(r) /\ Len(r.hand) <= 1
  BY Handles DEF MapperTypes, Lives
<1>3. /\ q \in MapperRecord /\ q.proc = "dead" /\ q.crashed = TRUE /\ SameCargo(r, q)
      /\ q.killed = r.killed /\ q.finishing = r.finishing /\ q.claimed = r.claimed
      /\ q.all = r.all /\ q.reader = r.reader
  BY <1>2, ProcessCrashedHas
<1> HIDE DEF q
<1>4. Life(q) /\ q.proc # "none" /\ Roomy(q) /\ Len(q.hand) <= 1
  BY <1>1, <1>2, <1>3 DEF Life, SameCargo, Roomy
<1>5. m = spare => Fresh(q)
  BY <1>3, Handles, MappingAssumption DEF Owners, Fresh, SameCargo, Mapper
<1>6. m # current => q.reader \in {"none", "ended"}
  BY <1>3, Handles DEF Readers
<1>7. /\ MapperTypes' /\ Lives' /\ Owners' /\ Readers' /\ Claims'
      /\ mapper'[m] = q /\ \A k \in Mapper : k # m => mapper'[k] = mapper[k]
  BY <1>1, <1>3, <1>4, <1>5, <1>6, Touched
<1>8. PipeTypes' /\ OtherTypes' /\ Feeding'
  BY <1>1, Handles DEF PipeTypes, OtherTypes, Feeding
<1>9. Places' /\ Finishing'
  BY <1>1, <1>3, <1>7, Handles DEF Places, Finishing
<1> QED  BY <1>7, <1>8, <1>9, TypesSplit DEF Structure

(* The structure of an idle pipeline.                                      *)
LEMMA StructureStarts ==
  ASSUME MappingInit
  PROVE  Structure
<1>1. NoMapper \in MapperRecord /\ Fresh(NoMapper) /\ Life(NoMapper)
      /\ Len(NoMapper.held) = 0 /\ Len(NoMapper.hand) = 0 /\ NoMapper.reader = "none"
  <2>1. 0 \in Epoch /\ <<>> \in Seq(0..Len(Script) + 1)
        /\ <<>> \in Seq([after : Nat, item : Items]) /\ <<>> \in Seq(Items)
    BY MappingAssumption DEF Epoch
  <2> QED  BY <2>1 DEF NoMapper, MapperRecord, Fresh, Life
<1>2. MapperTypes /\ Lives /\ Readers
  BY <1>1, MappingAssumption DEF MappingInit, MapperTypes, Lives, Readers, Roomy
<1>3. StopItem \in Items
  BY MappingAssumption DEF StopItem, Item, Items, Epoch
<1>4. PipeTypes /\ OtherTypes
  <2>1. 0 \in Epoch /\ 0 \in 0..Len(Script) + 1 /\ 0 \in 0..MaxMappers
    BY MappingAssumption DEF Epoch
  <2>2. inq \in Seq(Items) /\ fed \in [epoch : Epoch, n : 0..Len(Script) + 1]
    <3>1. inq = <<>> /\ fed = [epoch |-> 0, n |-> 0]
      BY DEF MappingInit
    <3> QED  BY <2>1, <3>1
  <2>3. PipeTypes
    BY <2>1, <2>2 DEF MappingInit, PipeTypes
  <2>4. decode \in DecodeType
    BY <1>3 DEF MappingInit, DecodeType, DecodePlace
  <2>5. reports \in [Mapper -> 0..1] /\ passed \in Seq(Items)
    BY DEF MappingInit
  <2>6. OtherTypes
    BY <2>1, <2>4, <2>5 DEF MappingInit, OtherTypes
  <2> QED  BY <2>3, <2>6
<1>5. Places /\ Owners /\ Finishing /\ Claims
  BY DEF MappingInit, Places, Owners, Finishing, Claims
<1>6. Feeding
  BY ElemsOf DEF MappingInit, Feeding, Elems
<1> QED  BY <1>2, <1>4, <1>5, <1>6, TypesSplit DEF Structure

(* Every step keeps the structure.                                         *)
LEMMA StructureStep ==
  ASSUME Structure, [MappingNext]_mappingVars
  PROVE  Structure'
<1>1. CASE UNCHANGED mappingVars
  <2>1. AllHit /\ UNCHANGED <<decode, current, spare, passed, reports>> /\ PipeTypes' /\ Feeding'
        /\ closed' = closed
    BY <1>1, Handles, Kills DEF mappingVars, pipeVars, PipeTypes, Feeding
  <2> QED  BY <2>1, OutsideKeeps
<1>2. CASE Outside
  BY <1>2, OutsideStructure
<1>3. CASE Decode
  BY <1>3, GetStructure, EnsureStructure, StartStructure, SpareStructure, SendStructure, HoldStructure,
     FinishStructure, DrainStructure, FailedStructure, ReleaseStructure, LeaveStructure, PassStructure
     DEF Decode
<1>4. CASE \E m \in Mapper : Reader(m) \/ MapperCrash(m)
  BY <1>4, ReaderStructure, CrashStructure
<1> QED  BY <1>1, <1>2, <1>3, <1>4 DEF MappingNext, Outside

(* Who owns a mapper and who reads from it stays well defined, with every  *)
(* interleaving of the source, seeks, the close, the decode thread and the *)
(* readers.                                                                *)
THEOREM StructureInvariant == MappingSpec => []Structure
<1>1. MappingInit => Structure
  BY StructureStarts
<1>2. Structure /\ [MappingNext]_mappingVars => Structure'
  BY StructureStep
<1> QED  BY <1>1, <1>2, PTL DEF MappingSpec

-----------------------------------------------------------------------------
(* The flow of an epoch's items: queued or handled, inside of the mapper,  *)
(* or past it                                                              *)

(* The order in which items are fed, and what a fed item looks like.       *)
Before(a, b) == a.epoch < b.epoch \/ (a.epoch = b.epoch /\ a.n < b.n)
Formed(x) ==
  /\ x \in Items /\ x.kind # "stop"
  /\ x.kind = "flush" => x.n = 0
  /\ x.kind = "eos" => x.n = Len(Script) + 1
  /\ x.kind \in {"video", "aux"} => x.n # 0

(* Where an item is: past the mapper, queued, or in the hand of the decode *)
(* thread; ...                                                             *)
Past == Elems(passed)
Queued == Elems(inq)
InHand == IF decode.at \in Handled THEN {decode.item} ELSE {}
Coming == Queued \cup InHand
(* ... or inside of the mapper: held back, written to it, or with its      *)
(* reader.                                                                 *)
HeldItems(r) == {h.item : h \in Elems(r.held)}
FrameItems(r) == {Item("video", r.epoch, n) : n \in Elems(r.packets)}
Carried(r) == Elems(r.hand) \cup HeldItems(r) \cup FrameItems(r)
Inside == IF current = 0 THEN {} ELSE Carried(mapper[current])

(* What a mapper carries, in order.                                        *)
SortedCargo(r) ==
  /\ \A i, j \in DOMAIN r.packets : i < j => r.packets[i] < r.packets[j]
  /\ \A i, j \in DOMAIN r.held : i < j => r.held[i].item.n < r.held[j].item.n
  /\ \A x \in HeldItems(r) : x.kind = "aux"
  /\ \A x \in Carried(r) : x.epoch = r.epoch
  /\ \A x \in Elems(r.hand) :
       /\ x.kind \in {"video", "aux"}
       /\ x.kind = "video" => \A n \in Elems(r.packets) : x.n < n
       /\ x.kind = "aux" => \A y \in HeldItems(r) : x.n < y.n

(* What the source has fed; and a flush for the epoch that is on its way.  *)
IsFed(x) == x.epoch < fed.epoch \/ (x.epoch = fed.epoch /\ x.n <= fed.n)
Cut == Item("flush", epoch, 0) \in Coming

(* What is coming is in order, ...                                         *)
QueueOrder ==
  /\ \A i, j \in DOMAIN inq : i < j => Before(inq[i], inq[j])
  /\ \A x \in InHand : \A y \in Queued : Before(x, y)
(* ... behind what is past and inside, and inside is behind past; ...      *)
FlowOrder ==
  /\ \A x \in Past \cup Inside : \A y \in Coming : Before(x, y)
  /\ \A x \in Past \cup Inside \cup Coming : Formed(x) /\ IsFed(x)
  /\ \A p \in Past : \A x \in Inside : Follows(p, x)
(* ... the mapper carries one epoch, that of the item in hand, and one of  *)
(* an old epoch has a flush before it; ...                                 *)
OwnEpoch ==
  current # 0 =>
    /\ SortedCargo(mapper[current])
    /\ \A x \in InHand : x.kind \in {"video", "aux", "eos"} => x.epoch = mapper[current].epoch
    /\ \A y \in Coming : y.kind = "flush" => mapper[current].epoch < y.epoch
    /\ mapper[current].epoch <= fed.epoch
    /\ fed.epoch = epoch => mapper[current].epoch = epoch \/ Cut
(* ... and so has the item that the next mapper is for.                    *)
EnsureEpoch ==
  decode.at = "ensure" /\ fed.epoch = epoch => decode.item.epoch = epoch \/ Cut
Flow == QueueOrder /\ FlowOrder /\ OwnEpoch /\ EnsureEpoch

(* The pairs of a sequence with one more element.                          *)
LEMMA PairsOfAppend ==
  ASSUME NEW S, NEW s \in Seq(S), NEW x \in S
  PROVE  \A i, j \in DOMAIN Append(s, x) : i < j =>
           /\ i \in DOMAIN s /\ Append(s, x)[i] = s[i] /\ s[i] \in Elems(s)
           /\ \/ j \in DOMAIN s /\ Append(s, x)[j] = s[j]
              \/ Append(s, x)[j] = x
<1> DEFINE t == Append(s, x)
<1>1. /\ DOMAIN t = 1..Len(s) + 1 /\ t[Len(s) + 1] = x /\ \A i \in 1..Len(s) : t[i] = s[i]
      /\ DOMAIN s = 1..Len(s) /\ Len(s) \in Nat
  BY AppendProperties
<1> HIDE DEF t
<1>2. \A i, j \in 1..Len(s) + 1 : i < j => i \in 1..Len(s) /\ (j \in 1..Len(s) \/ j = Len(s) + 1)
  BY <1>1
<1>3. \A i \in 1..Len(s) : s[i] \in Elems(s)
  BY ElemsOf
<1> QED  BY <1>1, <1>2, <1>3 DEF t

(* ... and with one less.                                                  *)
LEMMA PairsOfTail ==
  ASSUME NEW S, NEW s \in Seq(S), s # <<>>
  PROVE  /\ \A i, j \in DOMAIN Tail(s) : i < j =>
              /\ i + 1 \in DOMAIN s /\ j + 1 \in DOMAIN s /\ i + 1 < j + 1
              /\ Tail(s)[i] = s[i + 1] /\ Tail(s)[j] = s[j + 1]
         /\ \A y \in Elems(Tail(s)) : \E j \in DOMAIN s : 1 < j /\ y = s[j]
         /\ 1 \in DOMAIN s /\ Head(s) = s[1] /\ Head(s) \in S /\ Tail(s) \in Seq(S)
<1> DEFINE t == Tail(s)
<1>1. /\ DOMAIN t = 1..Len(s) - 1 /\ \A i \in 1..Len(s) - 1 : t[i] = s[i + 1]
      /\ DOMAIN s = 1..Len(s) /\ Len(s) \in Nat \ {0} /\ t \in Seq(S) /\ Head(s) = s[1]
      /\ Head(s) \in S
  BY HeadTailProperties, EmptySeq
<1> HIDE DEF t
<1>2. \A i, j \in 1..Len(s) - 1 : i < j =>
        i + 1 \in 1..Len(s) /\ j + 1 \in 1..Len(s) /\ i + 1 < j + 1
  BY <1>1
<1>3. 1 \in 1..Len(s) /\ \A i \in 1..Len(s) - 1 : i + 1 \in 1..Len(s) /\ 1 < i + 1
  BY <1>1
<1>4. ASSUME NEW y \in Elems(t) PROVE \E j \in DOMAIN s : 1 < j /\ y = s[j]
  <2>1. PICK i \in 1..Len(s) - 1 : y = t[i]
    BY <1>1, <1>4 DEF Elems
  <2> QED  BY <1>1, <1>3, <2>1
<1> QED  BY <1>1, <1>2, <1>3, <1>4 DEF t

(* The numbers of an item.                                                 *)
LEMMA ItemTypes ==
  /\ Len(Script) \in Nat /\ Epoch \subseteq Nat
  /\ \A x \in Items : x.epoch \in Epoch /\ x.epoch \in Nat /\ x.n \in 0..Len(Script) + 1 /\ x.n \in Nat
  /\ \A k, e, n : /\ Item(k, e, n).kind = k /\ Item(k, e, n).epoch = e /\ Item(k, e, n).n = n
  /\ \A x \in Items : x = Item(x.kind, x.epoch, x.n)
BY MappingAssumption DEF Items, Epoch, Item

(* What is queued behind an item may go downstream behind it.              *)
LEMMA BeforeFollows ==
  ASSUME NEW a, NEW b, Formed(a), Formed(b), Before(a, b)
  PROVE  Follows(a, b)
<1>1. CASE a.epoch < b.epoch
  BY <1>1 DEF Follows
<1>2. CASE a.epoch = b.epoch /\ a.n < b.n
  <2>1. a.n \in Nat /\ b.n \in 0..Len(Script) + 1 /\ Len(Script) \in Nat
    BY ItemTypes DEF Formed
  <2>2. a.kind # "eos" /\ b.kind # "flush"
    BY <1>2, <2>1 DEF Formed
  <2> QED  BY <1>2, <2>2 DEF Follows
<1> QED  BY <1>1, <1>2 DEF Before

-----------------------------------------------------------------------------
(* What a change of a mapper does to what it carries                       *)

(* The numbers of the packets, and what is held back.                      *)
Count == 0..Len(Script) + 1
Holding == [after : Nat, item : Items]
(* Its types.                                                              *)
LEMMA CargoTypes ==
  ASSUME NEW r \in MapperRecord
  PROVE  /\ r.hand \in Seq(Items) /\ r.packets \in Seq(Count)
         /\ r.held \in Seq(Holding) /\ r.epoch \in Epoch
         /\ Elems(r.hand) \subseteq Items /\ Elems(r.packets) \subseteq Count
         /\ HeldItems(r) \subseteq Items
<1>1. /\ r.hand \in Seq(Items) /\ r.packets \in Seq(Count)
      /\ r.held \in Seq(Holding) /\ r.epoch \in Epoch
  BY DEF MapperRecord, Count, Holding
<1>2. Elems(r.hand) \subseteq Items
  BY <1>1, ElemsOf
<1>3. Elems(r.packets) \subseteq Count
  BY <1>1, ElemsOf
<1>4. Elems(r.held) \subseteq Holding
  BY <1>1, ElemsOf
<1>5. HeldItems(r) \subseteq Items
  BY <1>4 DEF HeldItems, Holding
<1> QED  BY <1>1, <1>2, <1>3, <1>5

(* Only the contents count.                                                *)
LEMMA CargoSame ==
  ASSUME NEW r, NEW q, q.epoch = r.epoch, q.packets = r.packets, q.held = r.held, q.hand = r.hand
  PROVE  Carried(q) = Carried(r) /\ (SortedCargo(r) => SortedCargo(q))
BY DEF Carried, HeldItems, FrameItems, SortedCargo

(* A packet goes in behind all frames, ...                                 *)
LEMMA PacketCargo ==
  ASSUME NEW r \in MapperRecord, NEW n \in Count, SortedCargo(r),
         \A x \in Carried(r) : x.kind = "video" => x.n < n
  PROVE  /\ Carried(WithPacket(r, n)) = Carried(r) \cup {Item("video", r.epoch, n)}
         /\ SortedCargo(WithPacket(r, n))
<1> DEFINE q == WithPacket(r, n)
<1>1. /\ q.packets = Append(r.packets, n) /\ q.epoch = r.epoch /\ q.held = r.held /\ q.hand = r.hand
  BY WithPacketHas, MappingAssumption DEF Count
<1> HIDE DEF q
<1>2. Elems(q.packets) = Elems(r.packets) \cup {n}
  BY <1>1, CargoTypes, ElemsOf
<1>3. HeldItems(q) = HeldItems(r) /\ FrameItems(q) = FrameItems(r) \cup {Item("video", r.epoch, n)}
  BY <1>1, <1>2 DEF HeldItems, FrameItems
<1>4. Carried(q) = Carried(r) \cup {Item("video", r.epoch, n)}
  BY <1>1, <1>3 DEF Carried
<1>5. \A k \in Elems(r.packets) : k < n
  <2>1. \A k \in Elems(r.packets) : Item("video", r.epoch, k) \in Carried(r)
    BY DEF Carried, FrameItems
  <2> QED  BY <2>1, ItemTypes
<1>6. \A i, j \in DOMAIN q.packets : i < j => q.packets[i] < q.packets[j]
  <2>1. r.packets \in Seq(Count)
    BY CargoTypes
  <2>2. \A i, j \in DOMAIN Append(r.packets, n) : i < j =>
           /\ i \in DOMAIN r.packets /\ Append(r.packets, n)[i] = r.packets[i]
           /\ r.packets[i] \in Elems(r.packets)
           /\ \/ j \in DOMAIN r.packets /\ Append(r.packets, n)[j] = r.packets[j]
              \/ Append(r.packets, n)[j] = n
    BY <2>1, PairsOfAppend
  <2> QED  BY <1>1, <1>5, <2>2 DEF SortedCargo
<1>7. \A x \in Carried(q) : x.epoch = q.epoch
  BY <1>1, <1>4, ItemTypes DEF SortedCargo
<1>8. \A x \in Elems(q.hand) :
       /\ x.kind \in {"video", "aux"}
       /\ x.kind = "video" => \A k \in Elems(q.packets) : x.n < k
       /\ x.kind = "aux" => \A y \in HeldItems(q) : x.n < y.n
  <2>1. Elems(r.hand) \subseteq Carried(r)
    BY DEF Carried
  <2> QED  BY <1>1, <1>2, <1>3, <2>1 DEF SortedCargo
<1> QED  BY <1>1, <1>3, <1>4, <1>6, <1>7, <1>8 DEF SortedCargo, q

(* ... and an item behind all items.                                       *)
LEMMA ItemCargo ==
  ASSUME NEW r \in MapperRecord, NEW i \in Items, SortedCargo(r), i.kind = "aux", i.epoch = r.epoch,
         \A x \in Carried(r) : x.kind = "aux" => x.n < i.n
  PROVE  /\ Carried(WithItem(r, i)) = Carried(r) \cup {i}
         /\ SortedCargo(WithItem(r, i))
<1> DEFINE q == WithItem(r, i)
           h == [after |-> r.sent, item |-> i]
<1>1. /\ q.held = Append(r.held, h) /\ q.epoch = r.epoch /\ q.packets = r.packets /\ q.hand = r.hand
      /\ h \in Holding /\ h.item = i
  BY WithItemHas DEF MapperRecord, Holding
<1> HIDE DEF q, h
<1>2. Elems(q.held) = Elems(r.held) \cup {h}
  <2>1. r.held \in Seq(Holding)
    BY CargoTypes
  <2> QED  BY <1>1, <2>1, ElemsOf
<1>3. HeldItems(q) = HeldItems(r) \cup {i} /\ FrameItems(q) = FrameItems(r)
  BY <1>1, <1>2 DEF HeldItems, FrameItems
<1>4. Carried(q) = Carried(r) \cup {i}
  BY <1>1, <1>3 DEF Carried
<1>5. \A y \in HeldItems(r) : y \in Carried(r) /\ y.n < i.n
  BY DEF Carried, SortedCargo
<1>6. \A a, b \in DOMAIN q.held : a < b => q.held[a].item.n < q.held[b].item.n
  <2>1. \A a, b \in DOMAIN Append(r.held, h) : a < b =>
           /\ a \in DOMAIN r.held /\ Append(r.held, h)[a] = r.held[a] /\ r.held[a] \in Elems(r.held)
           /\ \/ b \in DOMAIN r.held /\ Append(r.held, h)[b] = r.held[b]
              \/ Append(r.held, h)[b] = h
    BY <1>1, CargoTypes, PairsOfAppend
  <2>2. \A y \in Elems(r.held) : y.item \in HeldItems(r)
    BY DEF HeldItems
  <2> QED  BY <1>1, <1>5, <2>1, <2>2 DEF SortedCargo
<1>7. \A x \in Carried(q) : x.epoch = q.epoch
  BY <1>1, <1>4 DEF SortedCargo
<1>8. \A x \in Elems(q.hand) :
       /\ x.kind \in {"video", "aux"}
       /\ x.kind = "video" => \A k \in Elems(q.packets) : x.n < k
       /\ x.kind = "aux" => \A y \in HeldItems(q) : x.n < y.n
  <2>1. Elems(r.hand) \subseteq Carried(r)
    BY DEF Carried
  <2> QED  BY <1>1, <1>3, <2>1 DEF SortedCargo
<1> QED  BY <1>1, <1>3, <1>4, <1>6, <1>7, <1>8 DEF SortedCargo, q

(* A frame on its way out is still carried, ...                            *)
LEMMA FrameCargo ==
  ASSUME NEW r \in MapperRecord, SortedCargo(r), r.packets # <<>>, r.hand = <<>>
  PROVE  /\ Carried(FrameOut(r)) = Carried(r)
         /\ SortedCargo(FrameOut(r))
<1> DEFINE q == FrameOut(r)
           n == Head(r.packets)
           i == Item("video", r.epoch, n)
<1>1. n \in Count /\ i \in Items
  <2>1. n \in Count /\ r.epoch \in Epoch
    BY CargoTypes, PairsOfTail
  <2> QED  BY <2>1 DEF Item, Items, Count
<1>2. /\ q.packets = Tail(r.packets) /\ q.hand = <<i>> /\ q.epoch = r.epoch /\ q.held = r.held
  BY <1>1, FrameOutHas
<1> HIDE DEF q
<1>3. Elems(r.packets) = Elems(q.packets) \cup {n}
  BY <1>2, CargoTypes, ElemsOf
<1>4. Elems(q.hand) = {i} /\ Elems(r.hand) = {}
  <2>1. DOMAIN <<i>> = {1} /\ <<i>>[1] = i
    OBVIOUS
  <2>2. Elems(<<i>>) = {i}
    BY <2>1 DEF Elems
  <2> QED  BY <1>2, <2>2, ElemsOf, CargoTypes
<1>5. HeldItems(q) = HeldItems(r) /\ FrameItems(r) = FrameItems(q) \cup {i}
  BY <1>2, <1>3 DEF HeldItems, FrameItems
<1>6. Carried(q) = Carried(r)
  BY <1>4, <1>5 DEF Carried
<1>7. /\ \A a, b \in DOMAIN q.packets : a < b => q.packets[a] < q.packets[b]
      /\ \A k \in Elems(q.packets) : n < k
  <2>1. /\ \A a, b \in DOMAIN q.packets : a < b =>
              /\ a + 1 \in DOMAIN r.packets /\ b + 1 \in DOMAIN r.packets /\ a + 1 < b + 1
              /\ q.packets[a] = r.packets[a + 1] /\ q.packets[b] = r.packets[b + 1]
        /\ \A y \in Elems(q.packets) : \E j \in DOMAIN r.packets : 1 < j /\ y = r.packets[j]
        /\ 1 \in DOMAIN r.packets /\ n = r.packets[1]
    BY <1>2, CargoTypes, PairsOfTail
  <2> HIDE DEF n
  <2> QED  BY <2>1 DEF SortedCargo
<1>8. i.kind = "video" /\ i.n = n
  BY ItemTypes
<1> QED  BY <1>2, <1>4, <1>5, <1>6, <1>7, <1>8 DEF SortedCargo, q

(* ... and so is an item that is due.                                      *)
LEMMA HeldCargo ==
  ASSUME NEW r \in MapperRecord, SortedCargo(r), r.held # <<>>, r.hand = <<>>
  PROVE  /\ Carried(HeldOut(r)) = Carried(r)
         /\ SortedCargo(HeldOut(r))
<1> DEFINE q == HeldOut(r)
           h == Head(r.held)
           i == h.item
<1>1. h \in Holding /\ i \in Items
  <2>1. h \in Holding
    BY CargoTypes, PairsOfTail
  <2> QED  BY <2>1 DEF Holding
<1>2. /\ q.held = Tail(r.held) /\ q.hand = <<i>> /\ q.epoch = r.epoch /\ q.packets = r.packets
  BY <1>1, HeldOutHas
<1> HIDE DEF q
<1>3. Elems(r.held) = Elems(q.held) \cup {h}
  BY <1>2, CargoTypes, ElemsOf
<1>4. Elems(q.hand) = {i} /\ Elems(r.hand) = {}
  <2>1. DOMAIN <<i>> = {1} /\ <<i>>[1] = i
    OBVIOUS
  <2>2. Elems(<<i>>) = {i}
    BY <2>1 DEF Elems
  <2> QED  BY <1>2, <2>2, ElemsOf, CargoTypes
<1>5. HeldItems(r) = HeldItems(q) \cup {i} /\ FrameItems(r) = FrameItems(q)
  BY <1>2, <1>3 DEF HeldItems, FrameItems
<1>6. Carried(q) = Carried(r)
  BY <1>4, <1>5 DEF Carried
<1>7. /\ \A a, b \in DOMAIN q.held : a < b => q.held[a].item.n < q.held[b].item.n
      /\ \A y \in HeldItems(q) : i.n < y.n
  <2>1. /\ \A a, b \in DOMAIN q.held : a < b =>
              /\ a + 1 \in DOMAIN r.held /\ b + 1 \in DOMAIN r.held /\ a + 1 < b + 1
              /\ q.held[a] = r.held[a + 1] /\ q.held[b] = r.held[b + 1]
        /\ \A y \in Elems(q.held) : \E j \in DOMAIN r.held : 1 < j /\ y = r.held[j]
        /\ 1 \in DOMAIN r.held /\ h = r.held[1]
    BY <1>2, CargoTypes, PairsOfTail
  <2> HIDE DEF h
  <2> QED  BY <2>1 DEF SortedCargo, HeldItems
<1>8. i.kind = "aux"
  BY <1>5 DEF SortedCargo
<1> QED  BY <1>2, <1>4, <1>5, <1>6, <1>7, <1>8 DEF SortedCargo, q

(* What is handed on goes ahead of all that is left.                       *)
LEMMA HandCargo ==
  ASSUME NEW r \in MapperRecord, SortedCargo(r), r.hand # <<>>, Len(r.hand) <= 1,
         \A x \in Carried(r) : Formed(x)
  PROVE  /\ Head(r.hand) \in Items
         /\ Carried(r) = Carried(HandEmptied(r)) \cup {Head(r.hand)}
         /\ SortedCargo(HandEmptied(r))
         /\ \A y \in Carried(HandEmptied(r)) : Follows(Head(r.hand), y)
<1> DEFINE q == HandEmptied(r)
           i == Head(r.hand)
<1>1. /\ q.hand = <<>> /\ q.epoch = r.epoch /\ q.packets = r.packets /\ q.held = r.held
  BY HandEmptiedHas
<1> HIDE DEF q
<1>2. i \in Items /\ Elems(r.hand) = {i} /\ Elems(q.hand) = {}
  <2>1. i \in Items /\ Elems(r.hand) = Elems(Tail(r.hand)) \cup {i} /\ Tail(r.hand) = <<>>
    <3>1. /\ Tail(r.hand) \in Seq(Items) /\ Len(Tail(r.hand)) = Len(r.hand) - 1
          /\ Len(r.hand) \in Nat \ {0}
      BY CargoTypes, HeadTailProperties, EmptySeq
    <3>2. Tail(r.hand) = <<>>
      BY <3>1, EmptySeq
    <3> QED  BY <3>2, CargoTypes, ElemsOf, PairsOfTail
  <2> QED  BY <1>1, <2>1, ElemsOf, CargoTypes
<1> HIDE DEF i
<1>3. HeldItems(q) = HeldItems(r) /\ FrameItems(q) = FrameItems(r)
  BY <1>1 DEF HeldItems, FrameItems
<1>4. Carried(r) = Carried(q) \cup {i} /\ Carried(q) = HeldItems(r) \cup FrameItems(r)
  BY <1>2, <1>3 DEF Carried
<1>5. SortedCargo(q)
  BY <1>1, <1>2, <1>3, <1>4 DEF SortedCargo
<1>6. i.epoch = r.epoch /\ i.kind \in {"video", "aux"}
  BY <1>2, <1>4 DEF SortedCargo
<1>7. ASSUME NEW y \in HeldItems(r) PROVE Follows(i, y)
  BY <1>2, <1>4, <1>6, <1>7 DEF SortedCargo, Follows
<1>8. ASSUME NEW y \in FrameItems(r) PROVE Follows(i, y)
  <2>1. PICK n \in Elems(r.packets) : y = Item("video", r.epoch, n)
    BY <1>8 DEF FrameItems
  <2>2. y.kind = "video" /\ y.epoch = r.epoch /\ y.n = n
    BY <2>1, ItemTypes
  <2> QED  BY <1>2, <1>6, <2>2 DEF SortedCargo, Follows
<1> QED  BY <1>2, <1>4, <1>5, <1>7, <1>8 DEF q, i

-----------------------------------------------------------------------------
(* Steps that leave what flows alone                                       *)

(* The decode thread keeps its item, or drops one that is no flush.        *)
HandKept ==
  /\ decode'.at \in Handled =>
       /\ decode.at \in Handled /\ decode'.item = decode.item
       /\ decode'.at = "ensure" => decode.at = "ensure"
  /\ decode.at \in Handled /\ decode.item.kind = "flush" => decode'.at \in Handled
(* The mapper carries what it carried, or there is none any more.          *)
CargoKept ==
  current' # 0 =>
    /\ current' = current /\ mapper'[current].epoch = mapper[current].epoch
    /\ Carried(mapper'[current]) = Carried(mapper[current])
    /\ SortedCargo(mapper'[current])
Quiet == UNCHANGED <<inq, fed, epoch, passed>> /\ HandKept /\ CargoKept

(* Nothing comes to where items are, and no flush goes.                    *)
LEMMA QuietSets ==
  ASSUME Quiet
  PROVE  /\ Past' = Past /\ Queued' = Queued /\ InHand' \subseteq InHand /\ Coming' \subseteq Coming
         /\ Inside' \subseteq Inside /\ \A x \in Coming : x.kind = "flush" => x \in Coming'
         /\ \A x \in InHand : x.kind = "flush" => x \in InHand'
<1>1. Past' = Past /\ Queued' = Queued
  BY DEF Quiet, Past, Queued, Elems
<1>2. InHand' \subseteq InHand /\ \A x \in InHand : x.kind = "flush" => x \in InHand'
  BY DEF Quiet, HandKept, InHand
<1>3. Inside' \subseteq Inside
  BY DEF Quiet, CargoKept, Inside
<1> QED  BY <1>1, <1>2, <1>3 DEF Coming

(* So the order stays.                                                     *)
LEMMA QuietFlow ==
  ASSUME Quiet, Flow
  PROVE  Flow'
<1>1. QueueOrder'
  BY QuietSets DEF Flow, QueueOrder, Quiet
<1>2. FlowOrder'
  <2>1. \A x : IsFed(x)' <=> IsFed(x)
    BY DEF Quiet, IsFed
  <2> QED  BY <2>1, QuietSets DEF Flow, FlowOrder
<1>3. Cut' <=> Cut
  <2>1. Item("flush", epoch, 0).kind = "flush" /\ epoch' = epoch
    BY ItemTypes DEF Quiet
  <2> QED  BY <2>1, QuietSets DEF Cut
<1>4. OwnEpoch'
  <2>1. fed' = fed /\ epoch' = epoch
    BY DEF Quiet
  <2> QED  BY <1>3, <2>1, QuietSets DEF Flow, OwnEpoch, Quiet, CargoKept
<1>5. EnsureEpoch'
  <2>1. fed' = fed /\ epoch' = epoch
    BY DEF Quiet
  <2>2. "ensure" \in Handled
    BY DEF Handled
  <2> QED  BY <1>3, <2>1, <2>2 DEF Flow, EnsureEpoch, Quiet, HandKept
<1> QED  BY <1>1, <1>2, <1>4, <1>5 DEF Flow

(* What keeps the cargo.                                                   *)
LEMMA CargoKeeps ==
  ASSUME Structure, Flow
  PROVE  /\ AllHit /\ current' \in {current, 0} => CargoKept
         /\ \A m \in Mapper : \A q \in MapperRecord :
              Set(m, q) /\ current' \in {current, 0}
                /\ (m = current => q.epoch = mapper[m].epoch /\ Carried(q) = Carried(mapper[m])
                                    /\ SortedCargo(q))
              => CargoKept
<1>1. current # 0 => current \in Mapper /\ SortedCargo(mapper[current])
  BY Handles DEF Flow, OwnEpoch
<1>2. ASSUME AllHit, current' \in {current, 0} PROVE CargoKept
  <2>1. current # 0 => Same(mapper[current], mapper'[current])
    BY <1>1, <1>2 DEF AllHit, Hit
  <2> QED  BY <1>1, <1>2, <2>1, CargoSame DEF CargoKept, Same
<1>3. ASSUME NEW m \in Mapper, NEW q \in MapperRecord, Set(m, q), current' \in {current, 0},
             m = current => q.epoch = mapper[m].epoch /\ Carried(q) = Carried(mapper[m]) /\ SortedCargo(q)
      PROVE  CargoKept
  <2>1. mapper'[m] = q /\ \A k \in Mapper : k # m => mapper'[k] = mapper[k]
    BY <1>3, Handles, Replaced
  <2> QED  BY <1>1, <1>3, <2>1 DEF CargoKept
<1> QED  BY <1>2, <1>3

(* A seek or a close that only marks or kills.                             *)
LEMMA OutsideQuiet ==
  ASSUME Structure, Flow, FlushBegin \/ FlushKill
  PROVE  Quiet
<1>1. UNCHANGED <<inq, fed, epoch, passed, decode, current>>
  BY DEF FlushBegin, FlushKill
<1>2. AllHit
  BY Handles, Kills DEF FlushBegin, FlushKill
<1> QED  BY <1>1, <1>2, CargoKeeps DEF Quiet, HandKept

(* The decode thread between two places, with what it handles.             *)
LEMMA DecodeQuiet ==
  ASSUME Structure, Flow
  PROVE  /\ Ensure /\ UNCHANGED <<current, mapper>> => Quiet
         /\ StartMapper => Quiet
         /\ StartSpare => Quiet
         /\ Send /\ UNCHANGED mapper => Quiet
         /\ Hold /\ UNCHANGED mapper => Quiet
         /\ Finish => Quiet
         /\ Drained \/ DrainTimesOut => Quiet
         /\ Failed => Quiet
         /\ ReleaseKills => Quiet
         /\ ReleaseMapper \/ End => Quiet
<1>1. ASSUME UNCHANGED <<inq, fed, epoch, passed>>, current' \in {current, 0}, CargoKept,
             NEW p \in DecodePlace, DecodeGoes(p), p \in Handled => decode.at \in Handled,
             p # "ensure", decode.at \in Handled /\ decode.item.kind = "flush" => p \in Handled
      PROVE  Quiet
  <2>1. decode'.at = p /\ decode'.item = decode.item
    BY <1>1, Handles, Going
  <2> QED  BY <1>1, <2>1 DEF Quiet, HandKept
<1>2. ASSUME Ensure, UNCHANGED <<current, mapper>> PROVE Quiet
  <2>1. UNCHANGED <<inq, fed, epoch, passed>> /\ decode.at = "ensure"
        /\ decode.item.kind \in {"video", "aux"}
    BY <1>2, Handles DEF Ensure, DecodeAt, pipeVars, Places
  <2>2. PICK p \in {"use", "ending", "start"} : DecodeGoes(p)
    BY <1>2 DEF Ensure
  <2>3. CargoKept
    BY <1>2, Handles, Kills, CargoKeeps
  <2> QED  BY <1>1, <1>2, <2>1, <2>2, <2>3 DEF DecodePlace, Handled
<1>3. ASSUME StartMapper PROVE Quiet
  <2>1. UNCHANGED <<inq, fed, epoch, passed, current>> /\ decode.at = "start"
        /\ decode.item.kind \in {"video", "aux"} /\ current # 0
    BY <1>3, Handles DEF StartMapper, DecodeAt, pipeVars, Places
  <2>2. PICK p \in {"spare", "failed"} : DecodeGoes(p)
    BY <1>3 DEF StartMapper
  <2>3. CASE Set(current, WithReader(mapper[current], "reading"))
    <3> DEFINE q == WithReader(mapper[current], "reading")
    <3>1. q \in MapperRecord /\ SameCargo(mapper[current], q)
      BY <2>1, Handles, WithReaderHas
    <3>2. Set(current, q)
      BY <2>3
    <3> HIDE DEF q
    <3>3. Carried(q) = Carried(mapper[current]) /\ SortedCargo(q) /\ q.epoch = mapper[current].epoch
      BY <2>1, <3>1, CargoSame DEF SameCargo, Flow, OwnEpoch
    <3>4. CargoKept
      BY <2>1, <3>1, <3>2, <3>3, Handles, CargoKeeps
    <3> QED  BY <1>1, <2>1, <2>2, <3>4 DEF DecodePlace, Handled
  <2>4. CASE UNCHANGED mapper
    <3>1. CargoKept
      BY <2>1, <2>4, Handles, Kills, CargoKeeps
    <3> QED  BY <1>1, <2>1, <2>2, <3>1 DEF DecodePlace, Handled
  <2> QED  BY <1>3, <2>3, <2>4 DEF StartMapper, WithReader
<1>4. ASSUME StartSpare PROVE Quiet
  <2>1. UNCHANGED <<inq, fed, epoch, passed, current>> /\ decode.at = "spare"
        /\ decode.item.kind \in {"video", "aux"} /\ current # 0 /\ DecodeGoes("use")
    BY <1>4, Handles DEF StartSpare, DecodeAt, pipeVars, Places
  <2>2. CargoKept
    <3>1. CASE UNCHANGED mapper
      BY <2>1, <3>1, Handles, Kills, CargoKeeps
    <3>2. CASE \E m \in Unused : mapper' = [mapper EXCEPT ![m] = Spawned]
      <4>1. PICK m \in Unused : mapper' = [mapper EXCEPT ![m] = Spawned]
        BY <3>2
      <4>2. m \in Mapper /\ m # current /\ Set(m, Spawned)
        BY <2>1, <4>1, Handles DEF Unused, Owners, Set
      <4> QED  BY <2>1, <4>2, SpawnedHas, CargoKeeps
    <3> QED  BY <1>4, <3>1, <3>2 DEF StartSpare
  <2> QED  BY <1>1, <2>1, <2>2 DEF DecodePlace, Handled
<1>5. ASSUME Send, UNCHANGED mapper PROVE Quiet
  <2>1. UNCHANGED <<inq, fed, epoch, passed, current>> /\ decode.at = "use"
        /\ decode.item.kind = "video"
    BY <1>5, Handles DEF Send, DecodeAt, pipeVars, Places
  <2>2. PICK p \in {"get", "failed"} : DecodeGoes(p)
    BY <1>5 DEF Send
  <2>3. CargoKept
    BY <1>5, <2>1, Handles, Kills, CargoKeeps
  <2> QED  BY <1>1, <2>1, <2>2, <2>3 DEF DecodePlace, Handled
<1>6. ASSUME Hold, UNCHANGED mapper PROVE Quiet
  <2>1. UNCHANGED <<inq, fed, epoch, passed, current>> /\ decode.at = "use"
        /\ decode.item.kind = "aux" /\ DecodeGoes("get")
    BY <1>6, Handles DEF Hold, DecodeAt, pipeVars, Places
  <2>2. CargoKept
    BY <1>6, <2>1, Handles, Kills, CargoKeeps
  <2> QED  BY <1>1, <2>1, <2>2 DEF DecodePlace, Handled
<1>7. ASSUME Finish PROVE Quiet
  <2> DEFINE r == mapper[current]
             q == InputEnded(mapper[current])
             ended == [mapper EXCEPT ![current] = q]
  <2>1. UNCHANGED <<inq, fed, epoch, passed, current>> /\ decode.at = "use"
        /\ decode.item.kind = "eos" /\ current # 0
    BY <1>7, Handles DEF Finish, DecodeAt, pipeVars, Places
  <2>2. PICK p \in {"failed", "drain"} : DecodeGoes(p)
    BY <1>7 DEF Finish
  <2>3. q \in MapperRecord /\ SameCargo(r, q)
    BY <2>1, Handles, InputEndedHas
  <2>4. mapper' = ended \/ mapper' = Killed(ended, current)
    BY <1>7 DEF Finish, InputEnded
  <2> HIDE DEF q
  <2>5. /\ ended \in [Mapper -> MapperRecord] /\ ended[current] = q
    BY <2>1, <2>3, Handles DEF MapperTypes
  <2> HIDE DEF ended
  <2>6. SameCargo(q, mapper'[current])
    <3>1. CASE mapper' = ended
      BY <2>5, <3>1 DEF SameCargo
    <3>2. CASE mapper' = Killed(ended, current)
      <4>1. Hit(ended[current], mapper'[current])
        BY <2>1, <2>5, <3>2, Handles, KilledHits
      <4> QED  BY <2>5, <4>1 DEF Hit, Same, SameCargo
    <3> QED  BY <2>4, <3>1, <3>2
  <2>7. SameCargo(r, mapper'[current])
    BY <2>3, <2>6 DEF SameCargo
  <2>8. CargoKept
    BY <2>1, <2>7, CargoSame DEF CargoKept, SameCargo, Flow, OwnEpoch
  <2> QED  BY <1>1, <2>1, <2>2, <2>8 DEF DecodePlace, Handled
<1>8. ASSUME Drained \/ DrainTimesOut PROVE Quiet
  <2>1. UNCHANGED <<inq, fed, epoch, passed, current>> /\ decode.at = "drain"
        /\ decode.item.kind = "eos" /\ mapper' = Killed(mapper, current)
    BY <1>8, Handles DEF Drained, DrainTimesOut, DecodeAt, pipeVars, Places
  <2>2. PICK p \in {"release", "failed"} : DecodeGoes(p)
    BY <1>8 DEF Drained, DrainTimesOut
  <2>3. CargoKept
    BY <2>1, Handles, Kills, CargoKeeps
  <2> QED  BY <1>1, <2>1, <2>2, <2>3 DEF DecodePlace, Handled
<1>9. ASSUME Failed PROVE Quiet
  <2>1. UNCHANGED <<inq, fed, epoch, passed, current>> /\ decode.at = "failed"
        /\ decode.item.kind \in {"video", "aux", "eos"} /\ current # 0
    BY <1>9, Handles DEF Failed, DecodeAt, pipeVars, Places
  <2>2. PICK p \in {"release", "get", "ending"} : DecodeGoes(p)
    BY <1>9 DEF Failed
  <2>3. CASE Set(current, Claimed(mapper[current]))
    <3> DEFINE q == Claimed(mapper[current])
    <3>1. q \in MapperRecord /\ SameCargo(mapper[current], q)
      BY <2>1, Handles, ClaimedHas
    <3>2. Set(current, q)
      BY <2>3
    <3> HIDE DEF q
    <3>3. Carried(q) = Carried(mapper[current]) /\ SortedCargo(q) /\ q.epoch = mapper[current].epoch
      BY <2>1, <3>1, CargoSame DEF SameCargo, Flow, OwnEpoch
    <3>4. CargoKept
      BY <2>1, <3>1, <3>2, <3>3, Handles, CargoKeeps
    <3> QED  BY <1>1, <2>1, <2>2, <3>4 DEF DecodePlace, Handled
  <2>4. CASE UNCHANGED mapper
    <3>1. CargoKept
      BY <2>1, <2>4, Handles, Kills, CargoKeeps
    <3> QED  BY <1>1, <2>1, <2>2, <3>1 DEF DecodePlace, Handled
  <2> QED  BY <1>9, <2>3, <2>4 DEF Failed, Claimed
<1>10. ASSUME ReleaseKills PROVE Quiet
  <2>1. UNCHANGED <<inq, fed, epoch, passed, current, decode>>
    BY <1>10 DEF ReleaseKills, pipeVars
  <2>2. \/ mapper' = Killed(Killed(mapper, current), spare)
        \/ mapper' = Killed(mapper, current)
    BY <1>10 DEF ReleaseKills
  <2>3. CargoKept
    BY <2>1, <2>2, Handles, Kills, CargoKeeps
  <2> QED  BY <2>1, <2>3 DEF Quiet, HandKept
<1>11. ASSUME ReleaseMapper \/ End PROVE Quiet
  <2>1. UNCHANGED <<inq, fed, epoch, passed, mapper>> /\ current' = 0
    BY <1>11 DEF ReleaseMapper, End, pipeVars
  <2>2. PICK p \in {"pass", "ended"} : DecodeGoes(p) /\ (p = "pass" => decode.at = "release")
                                       /\ (p = "ended" => decode.at = "ending")
    BY <1>11 DEF ReleaseMapper, End, DecodeAt
  <2>3. CargoKept
    BY <2>1 DEF CargoKept
  <2> QED  BY <1>1, <2>1, <2>2, <2>3 DEF DecodePlace, Handled
<1> QED  BY <1>2, <1>3, <1>4, <1>5, <1>6, <1>7, <1>8, <1>9, <1>10, <1>11

(* A reader at work in its mapper.                                         *)
LEMMA ReaderQuiet ==
  ASSUME Structure, Flow, NEW m \in Mapper,
         MapFrame(m) \/ ReaderIdle(m) \/ ReleaseHeld(m) \/ StreamEnds(m) \/ ReadKilled(m)
           \/ ReadFails(m)
  PROVE  Quiet
<1> DEFINE r == mapper[m]
<1>1. /\ m = current /\ current # 0 /\ r.reader \notin {"none", "ended"} /\ r \in MapperRecord
      /\ UNCHANGED <<inq, fed, epoch, decode, current, passed>> /\ Life(r)
  <2>1. ByReader /\ r.reader \notin {"none", "ended"} /\ UNCHANGED passed
    BY DEF MapFrame, ReaderIdle, ReleaseHeld, StreamEnds, ReadKilled, ReadFails, Reads
  <2> QED  BY <2>1, ReaderIsCurrent DEF ByReader, pipeVars
<1>2. SortedCargo(r)
  BY <1>1 DEF Flow, OwnEpoch
<1>3. ASSUME NEW q \in MapperRecord, Set(m, q), q.epoch = r.epoch, Carried(q) = Carried(r), SortedCargo(q)
      PROVE  Quiet
  <2>1. CargoKept
    BY <1>1, <1>3, CargoKeeps
  <2> QED  BY <1>1, <2>1 DEF Quiet, HandKept
<1>4. ASSUME NEW q \in MapperRecord, Set(m, q), SameCargo(r, q) PROVE Quiet
  BY <1>2, <1>3, <1>4, CargoSame DEF SameCargo
<1>5. CASE MapFrame(m)
  <2>1. Set(m, FrameOut(r)) /\ r.packets # <<>> /\ r.hand = <<>>
    BY <1>1, <1>5 DEF MapFrame, FrameOut, Reads, Life
  <2>2. Item("video", r.epoch, Head(r.packets)) \in Items
    <3>1. Head(r.packets) \in Count /\ r.epoch \in Epoch
      BY <1>1, <2>1, CargoTypes, PairsOfTail
    <3> QED  BY <3>1 DEF Item, Items, Count
  <2>3. FrameOut(r) \in MapperRecord /\ FrameOut(r).epoch = r.epoch
    BY <1>1, <2>1, <2>2, FrameOutHas
  <2>4. Carried(FrameOut(r)) = Carried(r) /\ SortedCargo(FrameOut(r))
    BY <1>1, <1>2, <2>1, FrameCargo
  <2> QED  BY <1>3, <2>1, <2>3, <2>4
<1>6. CASE ReaderIdle(m)
  <2>1. Set(m, AllDue(r))
    BY <1>6 DEF ReaderIdle, AllDue
  <2> QED  BY <1>1, <1>4, <2>1, AllDueHas
<1>7. CASE ReleaseHeld(m)
  <2>1. CASE Due(m)
    <3>1. Set(m, HeldOut(r)) /\ r.held # <<>> /\ r.hand = <<>>
      BY <1>7, <2>1 DEF ReleaseHeld, HeldOut, Due
    <3>2. HeldOut(r) \in MapperRecord /\ HeldOut(r).epoch = r.epoch
      BY <1>1, <3>1, HeldOutHas
    <3>3. Carried(HeldOut(r)) = Carried(r) /\ SortedCargo(HeldOut(r))
      BY <1>1, <1>2, <3>1, HeldCargo
    <3> QED  BY <1>3, <3>1, <3>2, <3>3
  <2>2. CASE ~Due(m)
    <3> DEFINE w == IF r.reader = "last" THEN "ended" ELSE "reading"
    <3>1. Set(m, WithReader(r, w))
      BY <1>7, <2>2 DEF ReleaseHeld, WithReader
    <3>2. WithReader(r, w) \in MapperRecord /\ SameCargo(r, WithReader(r, w))
      BY <1>1, WithReaderHas
    <3> QED  BY <1>4, <3>1, <3>2
  <2> QED  BY <2>1, <2>2
<1>8. CASE StreamEnds(m)
  <2>1. Set(m, LastOnes(r))
    BY <1>8 DEF StreamEnds, LastOnes
  <2> QED  BY <1>1, <1>4, <2>1, LastOnesHas
<1>9. CASE ReadKilled(m)
  <2>1. Set(m, WithReader(r, "ended")) \/ Set(m, LastOnes(r))
    BY <1>9 DEF ReadKilled, WithReader, LastOnes
  <2>2. WithReader(r, "ended") \in MapperRecord /\ SameCargo(r, WithReader(r, "ended"))
    BY <1>1, WithReaderHas
  <2>3. LastOnes(r) \in MapperRecord /\ SameCargo(r, LastOnes(r))
    BY <1>1, LastOnesHas
  <2> QED  BY <1>4, <2>1, <2>2, <2>3
<1>10. CASE ReadFails(m)
  <2>1. Set(m, ReaderFailed(r))
    BY <1>10 DEF ReadFails, ReaderFailed
  <2> QED  BY <1>1, <1>4, <2>1, ReaderFailedHas
<1> QED  BY <1>5, <1>6, <1>7, <1>8, <1>9, <1>10

(* A crash moves nothing.                                                  *)
LEMMA CrashQuiet ==
  ASSUME Structure, Flow, NEW m \in Mapper, MapperCrash(m)
  PROVE  Quiet
<1>1. UNCHANGED <<inq, fed, epoch, decode, current, passed>> /\ Set(m, ProcessCrashed(mapper[m]))
  BY DEF MapperCrash, ProcessCrashed, ByReader, pipeVars
<1>2. ProcessCrashed(mapper[m]) \in MapperRecord /\ SameCargo(mapper[m], ProcessCrashed(mapper[m]))
  BY Handles, ProcessCrashedHas DEF MapperTypes
<1>3. m = current => SortedCargo(mapper[m])
  BY MappingAssumption DEF Flow, OwnEpoch, Mapper
<1>4. CargoKept
  BY <1>1, <1>2, <1>3, CargoKeeps, CargoSame DEF SameCargo
<1> QED  BY <1>1, <1>4 DEF Quiet, HandKept

-----------------------------------------------------------------------------
(* Steps that move an item                                                 *)

(* The source and a seek touch the queue only.                             *)
LEMMA Unmoved ==
  ASSUME UNCHANGED <<decode, current, mapper, passed>>
  PROVE  /\ Past' = Past /\ InHand' = InHand /\ Inside' = Inside /\ Coming' = Queued' \cup InHand
         /\ (SortedCargo(mapper[current]))' <=> SortedCargo(mapper[current])
BY DEF Past, InHand, Inside, Coming, Elems, Carried, HeldItems, FrameItems, SortedCargo

(* What an item is made of, wherever it is.                                *)
LEMMA FlowTypes ==
  ASSUME Structure, Flow
  PROVE  /\ Past \subseteq Items /\ Queued \subseteq Items /\ Coming \subseteq Items
         /\ Inside \subseteq Items
         /\ fed.epoch \in Nat /\ fed.n \in Nat /\ fed.n <= Len(Script) + 1 /\ epoch \in Nat
         /\ fed.epoch <= epoch
         /\ \A x \in Past \cup Inside \cup Coming : x.epoch <= fed.epoch
         /\ current # 0 => mapper[current] \in MapperRecord /\ mapper[current].epoch \in Nat
<1>1. fed \in [epoch : Epoch, n : 0..Len(Script) + 1] /\ epoch \in Epoch /\ fed.epoch <= epoch
  BY Handles DEF PipeTypes, Feeding
<1>2. fed.epoch \in Epoch /\ fed.n \in 0..Len(Script) + 1
  BY <1>1
<1>3. Past \subseteq Items /\ Coming \subseteq Items /\ Inside \subseteq Items
  BY DEF Flow, FlowOrder, Formed
<1>4. \A x \in Past \cup Inside \cup Coming : x.epoch <= fed.epoch
  <2>1. ASSUME NEW x \in Past \cup Inside \cup Coming PROVE x.epoch <= fed.epoch
    <3>1. IsFed(x) /\ x \in Items
      BY DEF Flow, FlowOrder, Formed
    <3>2. x.epoch \in Nat /\ fed.epoch \in Nat
      BY <1>2, <3>1, ItemTypes
    <3> QED  BY <3>1, <3>2 DEF IsFed
  <2> QED  BY <2>1
<1>5. current # 0 => mapper[current] \in MapperRecord /\ mapper[current].epoch \in Nat
  BY Handles, ItemTypes DEF MapperRecord
<1>6. fed.epoch \in Nat /\ fed.n \in Nat /\ fed.n <= Len(Script) + 1 /\ epoch \in Nat
  BY <1>1, <1>2, MappingAssumption DEF Epoch
<1>7. Queued \subseteq Items
  BY <1>3 DEF Coming
<1> QED  BY <1>1, <1>3, <1>4, <1>5, <1>6, <1>7

(* The source feeds the next item of its epoch: it is behind all others.   *)
LEMMA FeedFlow ==
  ASSUME Structure, Flow, Feed
  PROVE  Flow'
<1> DEFINE n == fed.n + 1
           i == Item(IF n > Len(Script) THEN "eos" ELSE Script[n], fed.epoch, n)
<1>1. /\ UNCHANGED <<decode, current, mapper, passed, epoch>> /\ inq' = Append(inq, i)
      /\ fed' = [fed EXCEPT !.n = n] /\ fed.n <= Len(Script)
  BY DEF Feed
<1>2. /\ fed'.epoch = fed.epoch /\ fed'.n = n /\ n \in Nat \ {0} /\ n > fed.n
      /\ n \in 0..Len(Script) + 1
  <2>1. fed \in [epoch : Epoch, n : 0..Len(Script) + 1]
    BY Handles DEF PipeTypes
  <2> QED  BY <1>1, <2>1, FlowTypes, ItemTypes
<1>3. i \in Items /\ i.epoch = fed.epoch /\ i.n = n /\ i.kind # "flush" /\ Formed(i)
  <2>1. IF n > Len(Script) THEN n = Len(Script) + 1 ELSE Script[n] \in {"video", "aux"}
    BY <1>1, <1>2, MappingAssumption
  <2>2. fed.epoch \in Epoch
    BY Handles DEF PipeTypes
  <2>3. i \in Items
    BY <1>2, <2>1, <2>2 DEF Item, Items
  <2>4. i.epoch = fed.epoch /\ i.n = n /\ i.kind = IF n > Len(Script) THEN "eos" ELSE Script[n]
    BY ItemTypes
  <2> HIDE DEF n, i
  <2> QED  BY <1>2, <2>1, <2>3, <2>4 DEF Formed
<1> HIDE DEF n, i
<1>4. /\ Past' = Past /\ InHand' = InHand /\ Inside' = Inside /\ Queued' = Queued \cup {i}
      /\ Coming' = Coming \cup {i} /\ inq \in Seq(Items)
      /\ (SortedCargo(mapper[current]))' <=> SortedCargo(mapper[current])
  <2>1. inq \in Seq(Items)
    BY Handles DEF PipeTypes
  <2>2. Queued' = Queued \cup {i}
    BY <1>1, <1>3, <2>1, ElemsOf DEF Queued
  <2> QED  BY <1>1, <2>1, <2>2, Unmoved DEF Coming
<1>5. /\ \A x \in Items : IsFed(x) => IsFed(x)' /\ Before(x, i)
      /\ \A y : y = i => IsFed(y)'
  <2>1. fed.epoch \in Nat /\ fed.n \in Nat
    BY FlowTypes
  <2>2. ASSUME NEW x \in Items, IsFed(x) PROVE IsFed(x)' /\ Before(x, i)
    <3>1. x.epoch \in Nat /\ x.n \in Nat
      BY ItemTypes
    <3> QED  BY <1>2, <1>3, <2>1, <2>2, <3>1 DEF IsFed, Before
  <2>3. \A y : y = i => IsFed(y)'
    BY <1>2, <1>3, <2>1 DEF IsFed
  <2> QED  BY <2>2, <2>3
<1>6. \A x \in Past \cup Inside \cup Coming : x \in Items /\ IsFed(x) /\ Formed(x)
  BY FlowTypes DEF Flow, FlowOrder
<1>7. QueueOrder'
  <2>1. \A a, b \in DOMAIN inq' : a < b =>
          /\ a \in DOMAIN inq /\ inq'[a] = inq[a] /\ inq[a] \in Queued
          /\ (b \in DOMAIN inq /\ inq'[b] = inq[b]) \/ inq'[b] = i
    BY <1>1, <1>3, <1>4, PairsOfAppend DEF Queued
  <2>2. \A a, b \in DOMAIN inq' : a < b => Before(inq'[a], inq'[b])
    BY <2>1, <1>5, <1>6 DEF Flow, QueueOrder, Coming
  <2>3. \A x \in InHand : \A y \in Queued' : Before(x, y)
    BY <1>4, <1>5, <1>6 DEF Flow, QueueOrder, Coming
  <2> QED  BY <1>4, <2>2, <2>3 DEF QueueOrder
<1>8. FlowOrder'
  <2>1. \A x \in Past \cup Inside : \A y \in Coming' : Before(x, y)
    BY <1>4, <1>5, <1>6 DEF Flow, FlowOrder
  <2>2. ASSUME NEW x \in Past \cup Inside \cup Coming' PROVE Formed(x) /\ IsFed(x)'
    <3>1. x \in Past \cup Inside \cup Coming \/ x = i
      BY <1>4
    <3>2. CASE x \in Past \cup Inside \cup Coming
      BY <1>5, <1>6, <3>2
    <3>3. CASE x = i
      BY <1>3, <1>5, <3>3
    <3> QED  BY <3>1, <3>2, <3>3
  <2> QED  BY <1>4, <2>1, <2>2 DEF Flow, FlowOrder
<1>9. Cut => Cut'
  BY <1>1, <1>4 DEF Cut
<1>10. OwnEpoch'
  BY <1>1, <1>2, <1>3, <1>4, <1>9 DEF Flow, OwnEpoch
<1>11. EnsureEpoch'
  BY <1>1, <1>2, <1>9 DEF Flow, EnsureEpoch
<1> QED  BY <1>7, <1>8, <1>10, <1>11 DEF Flow

(* A seek counts the epoch on, which nothing is fed of yet, ...            *)
LEMMA MarkFlow ==
  ASSUME Structure, Flow, FlushMark
  PROVE  Flow' /\ fed'.epoch < epoch'
<1>1. UNCHANGED <<decode, current, mapper, passed, fed, inq>> /\ epoch' = epoch + 1
      /\ fed.epoch = epoch
  BY Handles DEF FlushMark, Feeding
<1>2. fed'.epoch < epoch' /\ fed'.epoch # epoch'
  BY <1>1, FlowTypes
<1>3. /\ Past' = Past /\ InHand' = InHand /\ Inside' = Inside /\ Queued' = Queued
      /\ Coming' = Coming
      /\ (SortedCargo(mapper[current]))' <=> SortedCargo(mapper[current])
      /\ \A x : IsFed(x)' <=> IsFed(x)
  BY <1>1, Unmoved DEF Queued, Coming, Elems, IsFed
<1>4. QueueOrder' /\ FlowOrder'
  BY <1>1, <1>3 DEF Flow, QueueOrder, FlowOrder
<1>5. OwnEpoch' /\ EnsureEpoch'
  BY <1>1, <1>2, <1>3 DEF Flow, OwnEpoch, EnsureEpoch
<1> QED  BY <1>2, <1>4, <1>5 DEF Flow

(* ... drops what is queued, ...                                           *)
LEMMA DrainFlow ==
  ASSUME Structure, Flow, FlushDrain
  PROVE  Flow'
<1>1. UNCHANGED <<decode, current, mapper, passed, fed, epoch>> /\ inq' = <<>>
      /\ fed.epoch < epoch
  BY Handles DEF FlushDrain, Feeding
<1>2. fed'.epoch # epoch'
  BY <1>1, FlowTypes
<1>3. /\ Past' = Past /\ InHand' = InHand /\ Inside' = Inside /\ Queued' = {} /\ Coming' = InHand
      /\ (SortedCargo(mapper[current]))' <=> SortedCargo(mapper[current])
      /\ \A x : IsFed(x)' <=> IsFed(x)
  BY <1>1, Unmoved DEF Queued, Coming, Elems, IsFed
<1>4. QueueOrder'
  <2>1. DOMAIN inq' = {}
    BY <1>1
  <2> QED  BY <1>3, <2>1 DEF QueueOrder
<1>5. FlowOrder'
  BY <1>3 DEF Flow, FlowOrder, Coming
<1>6. OwnEpoch' /\ EnsureEpoch'
  BY <1>1, <1>2, <1>3 DEF Flow, OwnEpoch, EnsureEpoch, Coming
<1> QED  BY <1>4, <1>5, <1>6 DEF Flow

(* ... and puts its flush in front of the new epoch.                       *)
LEMMA PutFlow ==
  ASSUME Structure, Flow, FlushPut
  PROVE  Flow'
<1> DEFINE i == Item("flush", epoch, 0)
<1>1. /\ UNCHANGED <<decode, current, mapper, passed, epoch>> /\ inq' = Append(inq, i)
      /\ fed' = [epoch |-> epoch, n |-> 0] /\ fed.epoch < epoch
  BY Handles DEF FlushPut, Feeding
<1>2. fed'.epoch = epoch /\ fed'.n = 0
  BY <1>1
<1>3. i \in Items /\ i.epoch = epoch /\ i.n = 0 /\ i.kind = "flush" /\ Formed(i)
  <2>1. epoch \in Epoch /\ 0 \in 0..Len(Script) + 1
    BY Handles, MappingAssumption DEF PipeTypes
  <2>2. i \in Items
    BY <2>1 DEF Item, Items
  <2>3. i.epoch = epoch /\ i.n = 0 /\ i.kind = "flush"
    BY ItemTypes
  <2> QED  BY <2>2, <2>3 DEF Formed
<1> HIDE DEF i
<1>4. /\ Past' = Past /\ InHand' = InHand /\ Inside' = Inside /\ Queued' = Queued \cup {i}
      /\ Coming' = Coming \cup {i} /\ inq \in Seq(Items)
      /\ (SortedCargo(mapper[current]))' <=> SortedCargo(mapper[current])
  <2>1. inq \in Seq(Items)
    BY Handles DEF PipeTypes
  <2>2. Queued' = Queued \cup {i}
    BY <1>1, <1>3, <2>1, ElemsOf DEF Queued
  <2> QED  BY <1>1, <2>1, <2>2, Unmoved DEF Coming
<1>5. /\ \A x \in Items : x.epoch <= fed.epoch => IsFed(x)' /\ Before(x, i)
      /\ \A y : y = i => IsFed(y)'
  <2>1. fed.epoch \in Nat /\ epoch \in Nat
    BY FlowTypes
  <2>2. ASSUME NEW x \in Items, x.epoch <= fed.epoch PROVE IsFed(x)' /\ Before(x, i)
    <3>1. x.epoch \in Nat /\ x.n \in Nat
      BY ItemTypes
    <3> QED  BY <1>1, <1>2, <1>3, <2>1, <2>2, <3>1 DEF IsFed, Before
  <2>3. \A y : y = i => IsFed(y)'
    BY <1>2, <1>3, <2>1 DEF IsFed
  <2> QED  BY <2>2, <2>3
<1>6. \A x \in Past \cup Inside \cup Coming : x \in Items /\ x.epoch <= fed.epoch /\ Formed(x)
  BY FlowTypes DEF Flow, FlowOrder
<1>7. QueueOrder'
  <2>1. \A a, b \in DOMAIN inq' : a < b =>
          /\ a \in DOMAIN inq /\ inq'[a] = inq[a] /\ inq[a] \in Queued
          /\ (b \in DOMAIN inq /\ inq'[b] = inq[b]) \/ inq'[b] = i
    BY <1>1, <1>3, <1>4, PairsOfAppend DEF Queued
  <2>2. \A a, b \in DOMAIN inq' : a < b => Before(inq'[a], inq'[b])
    BY <2>1, <1>5, <1>6 DEF Flow, QueueOrder, Coming
  <2>3. \A x \in InHand : \A y \in Queued' : Before(x, y)
    BY <1>4, <1>5, <1>6 DEF Flow, QueueOrder, Coming
  <2> QED  BY <1>4, <2>2, <2>3 DEF QueueOrder
<1>8. FlowOrder'
  <2>1. \A x \in Past \cup Inside : \A y \in Coming' : Before(x, y)
    BY <1>4, <1>5, <1>6 DEF Flow, FlowOrder
  <2>2. ASSUME NEW x \in Past \cup Inside \cup Coming' PROVE Formed(x) /\ IsFed(x)'
    <3>1. x \in Past \cup Inside \cup Coming \/ x = i
      BY <1>4
    <3>2. CASE x \in Past \cup Inside \cup Coming
      BY <1>5, <1>6, <3>2
    <3>3. CASE x = i
      BY <1>3, <1>5, <3>3
    <3> QED  BY <3>1, <3>2, <3>3
  <2> QED  BY <1>4, <2>1, <2>2 DEF Flow, FlowOrder
<1>9. Cut'
  BY <1>1, <1>4 DEF Cut, i
<1>10. OwnEpoch'
  <2>1. current # 0 => mapper[current].epoch < epoch /\ mapper[current].epoch <= epoch
    BY <1>1, FlowTypes DEF Flow, OwnEpoch
  <2> QED  BY <1>1, <1>2, <1>3, <1>4, <1>9, <2>1 DEF Flow, OwnEpoch
<1>11. EnsureEpoch'
  BY <1>9 DEF EnsureEpoch
<1> QED  BY <1>7, <1>8, <1>10, <1>11 DEF Flow

(* The decode thread takes the first item, or drops one of an old epoch.   *)
LEMMA GetFlow ==
  ASSUME Structure, Flow, Get, ~closed
  PROVE  Flow'
<1> DEFINE i == Head(inq)
<1>1. /\ UNCHANGED <<current, mapper, passed, epoch, fed>> /\ inq' = Tail(inq) /\ inq # <<>>
      /\ decode.at = "get" /\ inq \in Seq(Items)
      /\ decode'.item = i
      /\ decode'.at = IF i.kind = "stop" THEN "ending"
                      ELSE IF i.kind = "flush" THEN "release"
                      ELSE IF i.epoch < epoch THEN "get"
                      ELSE IF i.kind \in {"video", "aux"} THEN "ensure"
                      ELSE IF current = 0 THEN "pass" ELSE "use"
  <2>1. inq \in Seq(Items)
    BY Handles DEF PipeTypes
  <2> QED  BY <2>1 DEF Get, DecodeAt
<1> HIDE DEF i
<1>2. /\ Queued = Queued' \cup {i} /\ InHand = {} /\ InHand' \subseteq {i} /\ Coming = Queued
      /\ Past' = Past /\ Inside' = Inside /\ Coming' \subseteq Coming
      /\ (SortedCargo(mapper[current]))' <=> SortedCargo(mapper[current])
      /\ i.kind = "flush" => Coming' = Coming
      /\ \A x : IsFed(x)' <=> IsFed(x)
  <2>1. Queued = Queued' \cup {i}
    BY <1>1, ElemsOf DEF Queued, i
  <2>2. InHand = {} /\ InHand' \subseteq {i} /\ (i.kind = "flush" => InHand' = {i})
    BY <1>1 DEF InHand, Handled
  <2>3. Past' = Past /\ Inside' = Inside
        /\ ((SortedCargo(mapper[current]))' <=> SortedCargo(mapper[current]))
        /\ \A x : IsFed(x)' <=> IsFed(x)
    BY <1>1 DEF Past, Inside, Elems, Carried, HeldItems, FrameItems, SortedCargo, IsFed
  <2> QED  BY <2>1, <2>2, <2>3 DEF Coming
<1>3. i \in Items /\ Formed(i) /\ i.epoch <= fed.epoch /\ i.epoch \in Nat
  BY <1>2, FlowTypes, ItemTypes DEF Flow, FlowOrder
<1>4. /\ \A a, b \in DOMAIN inq' : a < b => Before(inq'[a], inq'[b])
      /\ \A y \in Queued' : Before(i, y)
  <2>1. /\ \A a, b \in DOMAIN inq' : a < b =>
              /\ a + 1 \in DOMAIN inq /\ b + 1 \in DOMAIN inq /\ a + 1 < b + 1
              /\ inq'[a] = inq[a + 1] /\ inq'[b] = inq[b + 1]
        /\ \A y \in Queued' : \E j \in DOMAIN inq : 1 < j /\ y = inq[j]
        /\ 1 \in DOMAIN inq /\ i = inq[1]
    BY <1>1, PairsOfTail DEF Queued, i
  <2> QED  BY <2>1 DEF Flow, QueueOrder
<1>5. QueueOrder'
  BY <1>2, <1>4 DEF QueueOrder
<1>6. FlowOrder'
  BY <1>2 DEF Flow, FlowOrder
<1>7. Cut => Cut'
  <2>1. i.kind # "flush" => Item("flush", epoch, 0) # i
    BY ItemTypes
  <2> QED  BY <1>1, <1>2, <2>1 DEF Cut, Coming
<1>8. i.kind \in {"video", "aux", "eos"} /\ ~(i.epoch < epoch) =>
        i.epoch = epoch /\ fed.epoch = epoch /\ ~Cut
  <2>1. i.kind \in {"video", "aux", "eos"} => ~Before(i, Item("flush", i.epoch, 0))
    BY <1>3, ItemTypes DEF Before
  <2>2. i.kind \in {"video", "aux", "eos"} => i # Item("flush", epoch, 0)
    BY ItemTypes
  <2>3. ~(i.epoch < epoch) => i.epoch = epoch /\ fed.epoch = epoch
    BY <1>3, FlowTypes
  <2> QED  BY <1>2, <1>4, <2>1, <2>2, <2>3 DEF Cut
<1>9. OwnEpoch'
  <2>1. ASSUME current # 0
        PROVE  \A x \in InHand' : x.kind \in {"video", "aux", "eos"} => x.epoch = mapper[current].epoch
    <3>1. InHand' # {} /\ i.kind \in {"video", "aux", "eos"} => ~(i.epoch < epoch)
      BY <1>1 DEF InHand, Handled
    <3> QED  BY <1>2, <1>8, <2>1, <3>1 DEF Flow, OwnEpoch
  <2> QED  BY <1>1, <1>2, <1>7, <2>1 DEF Flow, OwnEpoch
<1>10. EnsureEpoch'
  BY <1>1, <1>8 DEF EnsureEpoch
<1> QED  BY <1>5, <1>6, <1>9, <1>10 DEF Flow

(* A new mapper carries nothing yet, and its epoch is the item's.          *)
LEMMA AdoptFlow ==
  ASSUME Structure, Structure', Flow, Ensure, ~closed, ~UNCHANGED <<current, mapper>>
  PROVE  /\ Flow'
         /\ Past' = Past /\ Queued' = Queued /\ InHand' = InHand /\ Coming' = Coming
         /\ Inside = {} /\ Inside' = {} /\ UNCHANGED <<fed, epoch>>
         /\ current = 0 /\ current' # 0 /\ mapper'[current'].epoch = decode.item.epoch
<1>1. /\ UNCHANGED <<inq, fed, epoch, passed>> /\ decode.at = "ensure" /\ DecodeGoes("start")
      /\ current = 0 /\ current' # 0 /\ decode.item.kind \in {"video", "aux"}
      /\ mapper'[current'].epoch = decode.item.epoch
      /\ mapper'[current'].packets = <<>> /\ mapper'[current'].held = <<>>
      /\ mapper'[current'].hand = <<>>
  <2>1. UNCHANGED <<inq, fed, epoch, passed>> /\ decode.at = "ensure"
        /\ decode.item.kind \in {"video", "aux"} /\ DecodeGoes("start") /\ current = 0
    BY Handles DEF Ensure, DecodeAt, pipeVars, Places
  <2>2. CASE current' = spare /\ spare # 0 /\ Set(spare, TakenFor(mapper[spare], decode.item.epoch))
    <3> DEFINE q == TakenFor(mapper[spare], decode.item.epoch)
    <3>1. spare \in Mapper /\ mapper[spare] \in MapperRecord /\ Fresh(mapper[spare])
      BY <2>2, Handles DEF Owners
    <3>2. q \in MapperRecord /\ q.epoch = decode.item.epoch /\ q.packets = <<>> /\ q.held = <<>>
          /\ q.hand = <<>>
      BY <3>1, Handles, TakenForHas DEF Fresh
    <3>3. Set(spare, q)
      BY <2>2
    <3> HIDE DEF q
    <3>4. mapper'[spare] = q
      BY <3>1, <3>2, <3>3, Handles, Replaced
    <3> QED  BY <2>1, <2>2, <3>2, <3>4
  <2>3. CASE \E m \in Unused : /\ current' = m
               /\ mapper' = [Killed(mapper, spare) EXCEPT ![m] = TakenFor(Spawned, decode.item.epoch)]
    <3> DEFINE q == TakenFor(Spawned, decode.item.epoch)
               M == Killed(mapper, spare)
    <3>1. PICK m \in Unused : current' = m /\ mapper' = [M EXCEPT ![m] = q]
      BY <2>3
    <3>2. m \in Mapper /\ m # 0
      BY MappingAssumption DEF Unused, Mapper
    <3>3. M \in [Mapper -> MapperRecord]
      BY Handles, KilledHits DEF MapperTypes
    <3>4. q \in MapperRecord /\ q.epoch = decode.item.epoch /\ q.packets = <<>> /\ q.held = <<>>
          /\ q.hand = <<>>
      BY Handles, SpawnedHas, TakenForHas DEF Fresh
    <3> HIDE DEF q, M
    <3>5. mapper'[m] = q
      BY <3>1, <3>2, <3>3
    <3> QED  BY <2>1, <3>1, <3>2, <3>4, <3>5
  <2> QED  BY <2>1, <2>2, <2>3 DEF Ensure, TakenFor
<1>2. decode'.at = "start" /\ decode'.item = decode.item
  BY <1>1, Handles, Going DEF DecodePlace
<1>3. Carried(mapper'[current']) = {} /\ SortedCargo(mapper'[current'])
  <2>1. Elems(<<>>) = {}
    BY DEF Elems
  <2>2. /\ HeldItems(mapper'[current']) = {} /\ FrameItems(mapper'[current']) = {}
        /\ Elems(mapper'[current'].hand) = {}
    BY <1>1, <2>1 DEF HeldItems, FrameItems
  <2>3. Carried(mapper'[current']) = {}
    BY <2>2 DEF Carried
  <2>4. DOMAIN mapper'[current'].packets = {} /\ DOMAIN mapper'[current'].held = {}
    BY <1>1
  <2> QED  BY <2>2, <2>3, <2>4 DEF SortedCargo
<1>4. /\ Past' = Past /\ Queued' = Queued /\ InHand' = InHand /\ Coming' = Coming
      /\ Inside = {} /\ Inside' = {} /\ InHand = {decode.item}
      /\ \A x : IsFed(x)' <=> IsFed(x)
  <2>1. Past' = Past /\ Queued' = Queued /\ \A x : IsFed(x)' <=> IsFed(x)
    BY <1>1 DEF Past, Queued, Elems, IsFed
  <2>2. InHand' = InHand /\ InHand = {decode.item}
    BY <1>1, <1>2 DEF InHand, Handled
  <2> QED  BY <1>1, <1>3, <2>1, <2>2 DEF Coming, Inside
<1>5. QueueOrder' /\ FlowOrder'
  BY <1>1, <1>4 DEF Flow, QueueOrder, FlowOrder
<1>6. OwnEpoch'
  <2>1. Formed(decode.item) /\ decode.item.epoch <= fed.epoch /\ decode.item.epoch \in Nat
    BY <1>4, FlowTypes, Handles, ItemTypes DEF Flow, FlowOrder, Coming
  <2>2. ASSUME NEW y \in Coming, y.kind = "flush" PROVE decode.item.epoch < y.epoch
    <3>1. y # decode.item
      BY <1>1, <2>2
    <3>2. Before(decode.item, y) /\ Formed(y)
      BY <1>4, <3>1 DEF Coming, Flow, QueueOrder, FlowOrder
    <3> QED  BY <2>1, <2>2, <3>2, ItemTypes, Handles DEF Before, Formed
  <2>3. fed.epoch = epoch => decode.item.epoch = epoch \/ Cut
    BY <1>1 DEF Flow, EnsureEpoch
  <2>4. Cut' <=> Cut
    BY <1>1, <1>4 DEF Cut
  <2> QED  BY <1>1, <1>3, <1>4, <2>1, <2>2, <2>3, <2>4 DEF OwnEpoch
<1>7. EnsureEpoch'
  BY <1>2 DEF EnsureEpoch
<1> QED  BY <1>1, <1>4, <1>5, <1>6, <1>7 DEF Flow

(* Everywhere an item may be.                                              *)
Everywhere == Past \cup Coming \cup Inside

(* What the decode thread writes to its mapper is behind all that is in    *)
(* it: a packet, or an item held for a later frame.                        *)
LEMMA WriteFlow ==
  ASSUME Structure, Structure', Flow, (Send \/ Hold) /\ ~UNCHANGED mapper
  PROVE  Flow' /\ Everywhere' = Everywhere
<1> DEFINE r == mapper[current]
           q == mapper'[current]
           i == decode.item
<1>1. /\ UNCHANGED <<inq, fed, epoch, passed, current>> /\ decode.at = "use" /\ current # 0
      /\ i.kind \in {"video", "aux"} /\ DecodeGoes("get") /\ i \in Items
      /\ r \in MapperRecord /\ SortedCargo(r) /\ InHand = {i}
  <2>1. /\ UNCHANGED <<inq, fed, epoch, passed, current>> /\ decode.at = "use"
        /\ i.kind \in {"video", "aux"} /\ DecodeGoes("get")
    BY DEF Send, Hold, DecodeAt, pipeVars
  <2>2. current # 0
    BY <2>1, Handles DEF Places
  <2> QED  BY <2>1, <2>2, Handles DEF Flow, OwnEpoch, InHand, Handled
<1>2. decode'.at = "get" /\ decode'.item = i
  BY <1>1, Handles, Going DEF DecodePlace
<1>3. i.epoch = r.epoch /\ Formed(i) /\ IsFed(i)
  BY <1>1 DEF Flow, OwnEpoch, FlowOrder, Coming
<1>4. /\ \A x \in Past \cup Inside : Before(x, i) /\ Formed(x)
      /\ \A y \in Queued : Before(i, y)
  BY <1>1 DEF Flow, QueueOrder, FlowOrder, Coming
<1>5. \A x \in Carried(r) : x.n < i.n /\ x \in Inside
  <2>1. ASSUME NEW x \in Carried(r) PROVE x.n < i.n /\ x \in Inside
    <3>1. x \in Inside
      BY <1>1, <2>1 DEF Inside
    <3>2. x.epoch = r.epoch /\ r.epoch \in Nat /\ Before(x, i)
      BY <1>1, <1>4, <2>1, <3>1, FlowTypes DEF SortedCargo
    <3> QED  BY <1>3, <3>1, <3>2 DEF Before
  <2> QED  BY <2>1
<1>6. q.epoch = r.epoch /\ Carried(q) = Carried(r) \cup {i} /\ SortedCargo(q)
  <2>1. CASE Send
    <3> DEFINE w == WithPacket(r, i.n)
    <3>1. Set(current, w) /\ i.kind = "video"
      BY <2>1 DEF Send, WithPacket
    <3>2. i.n \in Count /\ i = Item("video", r.epoch, i.n)
      BY <1>1, <1>3, <3>1, ItemTypes DEF Count
    <3>3. w \in MapperRecord /\ w.epoch = r.epoch
      BY <1>1, <3>2, WithPacketHas DEF Count
    <3>4. Carried(w) = Carried(r) \cup {i} /\ SortedCargo(w)
      BY <1>1, <1>5, <3>2, PacketCargo
    <3> HIDE DEF w
    <3>5. mapper'[current] = w
      BY <1>1, <3>1, <3>3, Handles, Replaced
    <3> QED  BY <3>3, <3>4, <3>5
  <2>2. CASE Hold
    <3> DEFINE w == WithItem(r, i)
    <3>1. Set(current, w) /\ i.kind = "aux"
      BY <2>2 DEF Hold, WithItem
    <3>2. w \in MapperRecord /\ w.epoch = r.epoch
      BY <1>1, WithItemHas
    <3>3. Carried(w) = Carried(r) \cup {i} /\ SortedCargo(w)
      BY <1>1, <1>3, <1>5, <3>1, ItemCargo
    <3> HIDE DEF w
    <3>4. mapper'[current] = w
      BY <1>1, <3>1, <3>2, Handles, Replaced
    <3> QED  BY <3>2, <3>3, <3>4
  <2> QED  BY <2>1, <2>2
<1>7. /\ Past' = Past /\ Queued' = Queued /\ InHand' = {} /\ Coming' = Queued
      /\ Inside' = Inside \cup {i} /\ \A x : IsFed(x)' <=> IsFed(x)
  <2>1. Past' = Past /\ Queued' = Queued /\ InHand' = {} /\ \A x : IsFed(x)' <=> IsFed(x)
    BY <1>1, <1>2 DEF Past, Queued, Elems, InHand, Handled, IsFed
  <2>2. Inside' = Inside \cup {i}
    BY <1>1, <1>6 DEF Inside
  <2> QED  BY <2>1, <2>2 DEF Coming
<1>8. QueueOrder'
  BY <1>1, <1>7 DEF Flow, QueueOrder
<1>9. FlowOrder'
  <2>1. \A x \in Past \cup Inside' : \A y \in Queued : Before(x, y)
    BY <1>4, <1>7 DEF Flow, FlowOrder, Coming
  <2>2. \A x \in Past \cup Inside' \cup Queued : Formed(x) /\ IsFed(x)
    BY <1>3, <1>7 DEF Flow, FlowOrder, Coming
  <2>3. \A p \in Past : \A x \in Inside' : Follows(p, x)
    BY <1>3, <1>4, <1>7, BeforeFollows DEF Flow, FlowOrder
  <2> QED  BY <1>7, <2>1, <2>2, <2>3 DEF FlowOrder
<1>10. Cut => Cut'
  <2>1. Item("flush", epoch, 0) # i
    BY <1>1, ItemTypes
  <2> QED  BY <1>1, <1>7, <2>1 DEF Cut, Coming
<1>11. OwnEpoch'
  BY <1>1, <1>6, <1>7, <1>10 DEF Flow, OwnEpoch, Coming
<1>12. EnsureEpoch'
  BY <1>2 DEF EnsureEpoch
<1>13. Everywhere' = Everywhere
  BY <1>1, <1>7 DEF Everywhere, Coming
<1> QED  BY <1>8, <1>9, <1>11, <1>12, <1>13 DEF Flow

(* One more goes downstream, behind what did.                              *)
LEMMA PassedOrder ==
  ASSUME EpochOrdered, passed \in Seq(Items), NEW x \in Items, passed' = Append(passed, x),
         \A p \in Past : Follows(p, x)
  PROVE  EpochOrdered' /\ Past' = Past \cup {x}
<1>1. Past' = Past \cup {x}
  BY ElemsOf DEF Past
<1>2. \A a, b \in DOMAIN passed' : a < b =>
        /\ a \in DOMAIN passed /\ passed'[a] = passed[a] /\ passed[a] \in Past
        /\ (b \in DOMAIN passed /\ passed'[b] = passed[b]) \/ passed'[b] = x
  BY PairsOfAppend DEF Past
<1>3. EpochOrdered'
  BY <1>2 DEF EpochOrdered
<1> QED  BY <1>1, <1>3

(* The flush and the end of the stream go behind all there was.            *)
LEMMA PassFlow ==
  ASSUME Structure, Flow, EpochOrdered, Pass, ~closed
  PROVE  Flow' /\ EpochOrdered' /\ Everywhere' = Everywhere
<1> DEFINE i == decode.item
<1>1. /\ UNCHANGED <<inq, fed, epoch, current, mapper>> /\ decode.at = "pass" /\ current = 0
      /\ DecodeGoes("get") /\ passed' = Append(passed, i) /\ InHand = {i} /\ i \in Items
      /\ passed \in Seq(Items)
  <2>1. /\ UNCHANGED <<inq, fed, epoch, current, mapper>> /\ decode.at = "pass"
        /\ DecodeGoes("get") /\ passed' = Append(passed, i)
    BY DEF Pass, DecodeAt, pipeVars
  <2> QED  BY <2>1, Handles DEF Places, InHand, Handled, OtherTypes
<1>2. decode'.at = "get" /\ decode'.item = i
  BY <1>1, Handles, Going DEF DecodePlace
<1>3. Formed(i) /\ IsFed(i)
  BY <1>1 DEF Flow, FlowOrder, Coming
<1>4. \A p \in Past : Follows(p, i)
  BY <1>1, <1>3, BeforeFollows DEF Flow, FlowOrder, Coming
<1>5. EpochOrdered' /\ Past' = Past \cup {i}
  BY <1>1, <1>4, PassedOrder
<1>6. /\ Queued' = Queued /\ InHand' = {} /\ Coming' = Queued /\ Inside' = {} /\ Inside = {}
      /\ \A x : IsFed(x)' <=> IsFed(x)
  BY <1>1, <1>2 DEF Queued, Elems, InHand, Handled, Coming, Inside, IsFed
<1>7. QueueOrder'
  BY <1>1, <1>6 DEF Flow, QueueOrder
<1>8. FlowOrder'
  <2>1. \A x \in Past' : \A y \in Queued : Before(x, y)
    BY <1>1, <1>5 DEF Flow, QueueOrder, FlowOrder, Coming
  <2>2. \A x \in Past' \cup Queued : Formed(x) /\ IsFed(x)
    BY <1>3, <1>5 DEF Flow, FlowOrder, Coming
  <2> QED  BY <1>6, <2>1, <2>2 DEF FlowOrder
<1>9. OwnEpoch' /\ EnsureEpoch'
  BY <1>1, <1>2 DEF OwnEpoch, EnsureEpoch
<1>10. Everywhere' = Everywhere
  BY <1>1, <1>5, <1>6 DEF Everywhere, Coming
<1> QED  BY <1>5, <1>7, <1>8, <1>9, <1>10 DEF Flow

(* What the reader has in its hand goes ahead of the rest of its mapper.   *)
LEMMA HandFlow ==
  ASSUME Structure, Flow, EpochOrdered, NEW m \in Mapper, HandOn(m), ~closed
  PROVE  Flow' /\ EpochOrdered' /\ Everywhere' = Everywhere
<1> DEFINE r == mapper[m]
           q == HandEmptied(mapper[m])
           i == Head(mapper[m].hand)
<1>1. /\ UNCHANGED <<inq, fed, epoch, current, decode>> /\ Set(m, q) /\ passed' = Append(passed, i)
      /\ r.hand # <<>> /\ passed \in Seq(Items)
  BY Handles DEF HandOn, HandEmptied, ByReader, pipeVars, OtherTypes
<1>2. m = current /\ m # 0 /\ r \in MapperRecord /\ Len(r.hand) <= 1
  BY <1>1, ReaderIsCurrent
<1>3. SortedCargo(r) /\ Inside = Carried(r) /\ \A x \in Carried(r) : Formed(x)
  BY <1>2 DEF Flow, FlowOrder, OwnEpoch, Inside
<1>4. /\ i \in Items /\ Carried(r) = Carried(q) \cup {i} /\ SortedCargo(q)
      /\ \A y \in Carried(q) : Follows(i, y)
  BY <1>1, <1>2, <1>3, HandCargo
<1>5. q \in MapperRecord /\ q.epoch = r.epoch
  BY <1>2, HandEmptiedHas
<1> HIDE DEF q, i
<1>6. mapper'[m] = q
  BY <1>1, <1>5, Handles, Replaced
<1>7. /\ Queued' = Queued /\ InHand' = InHand /\ Coming' = Coming /\ Inside' = Carried(q)
      /\ \A x : IsFed(x)' <=> IsFed(x)
  BY <1>1, <1>2, <1>6 DEF Queued, Elems, InHand, Coming, Inside, IsFed
<1>8. \A p \in Past : Follows(p, i)
  BY <1>3, <1>4 DEF Flow, FlowOrder
<1>9. EpochOrdered' /\ Past' = Past \cup {i}
  BY <1>1, <1>4, <1>8, PassedOrder
<1>10. QueueOrder'
  BY <1>1, <1>7 DEF Flow, QueueOrder
<1>11. FlowOrder'
  <2>1. \A x \in Past' \cup Inside' : x \in Past \cup Inside
    BY <1>3, <1>4, <1>7, <1>9
  <2>2. \A p \in Past' : \A x \in Inside' : Follows(p, x)
    BY <1>3, <1>4, <1>7, <1>9 DEF Flow, FlowOrder
  <2> QED  BY <1>7, <2>1, <2>2 DEF Flow, FlowOrder
<1>12. Cut' <=> Cut
  BY <1>1, <1>7 DEF Cut
<1>13. OwnEpoch'
  BY <1>1, <1>2, <1>4, <1>5, <1>6, <1>7, <1>12 DEF Flow, OwnEpoch
<1>14. EnsureEpoch'
  BY <1>1, <1>12 DEF Flow, EnsureEpoch
<1>15. Everywhere' = Everywhere
  BY <1>3, <1>4, <1>7, <1>9 DEF Everywhere
<1> QED  BY <1>9, <1>10, <1>11, <1>13, <1>14, <1>15 DEF Flow

(* A pipeline that is closed passes nothing on; till then, an order kept.  *)
FlowInvariant == (~closed => Flow) /\ EpochOrdered

(* Nothing flows in an idle pipeline.                                      *)
LEMMA FlowStarts ==
  ASSUME MappingInit
  PROVE  FlowInvariant
<1>1. inq = <<>> /\ passed = <<>> /\ current = 0 /\ decode.at = "get"
  BY DEF MappingInit
<1>2. Past = {} /\ Queued = {} /\ InHand = {} /\ Inside = {} /\ Coming = {}
  <2>1. Elems(<<>>) = {}
    BY DEF Elems
  <2> QED  BY <1>1, <2>1 DEF Past, Queued, InHand, Inside, Coming, Handled
<1>3. DOMAIN inq = {} /\ DOMAIN passed = {}
  BY <1>1
<1> QED
  BY <1>1, <1>2, <1>3 DEF FlowInvariant, Flow, QueueOrder, FlowOrder, OwnEpoch, EnsureEpoch, EpochOrdered

(* Nothing but a close closes the pipeline, and it stays closed.           *)
LEMMA ClosedStays ==
  ASSUME [MappingNext]_mappingVars
  PROVE  (closed' = closed \/ CloseBegin) /\ (closed => closed')
<1>1. closed' = closed \/ CloseBegin
  BY DEF MappingNext, Flushing, Closing, Decode, Reader, mappingVars, pipeVars, Feed, FlushBegin, FlushMark,
         FlushKill, FlushDrain, FlushPut, CloseBegin, CloseStop, CloseKill, CloseJoin, Get, Ensure,
         StartMapper, StartSpare, Send, Hold, Finish, Drained, DrainTimesOut, Failed, ReleaseKills,
         ReleaseMapper, Pass, End, MapFrame, ReaderIdle, HandOn, ReleaseHeld, StreamEnds, ReadKilled,
         ReadFails, MapperCrash, ByReader
<1> QED  BY <1>1 DEF CloseBegin

(* Every step keeps the order of the flow.                                 *)
LEMMA FlowStep ==
  ASSUME Structure, Structure', FlowInvariant, [MappingNext]_mappingVars
  PROVE  FlowInvariant'
<1>1. closed => closed'
  BY ClosedStays
<1>2. CASE closed
  <2>1. UNCHANGED passed
    BY <1>2
       DEF MappingNext, Flushing, Closing, Decode, Reader, mappingVars, pipeVars, Feed, FlushBegin, FlushMark,
         FlushKill, FlushDrain, FlushPut, CloseBegin, CloseStop, CloseKill, CloseJoin, Get, Ensure,
         StartMapper, StartSpare, Send, Hold, Finish, Drained, DrainTimesOut, Failed, ReleaseKills,
         ReleaseMapper, Pass, End, MapFrame, ReaderIdle, HandOn, ReleaseHeld, StreamEnds, ReadKilled,
         ReadFails, MapperCrash, ByReader
  <2> QED  BY <1>1, <1>2, <2>1 DEF FlowInvariant, EpochOrdered
<1>3. CASE ~closed
  <2>1. Flow /\ EpochOrdered
    BY <1>3 DEF FlowInvariant
  <2>2. ASSUME Quiet PROVE FlowInvariant'
    BY <2>1, <2>2, QuietFlow DEF FlowInvariant, Quiet, EpochOrdered
  <2>3. ASSUME Flow', UNCHANGED passed PROVE FlowInvariant'
    BY <2>1, <2>3 DEF FlowInvariant, EpochOrdered
  <2>4. CASE Outside
    <3>1. CASE Feed
      BY <2>1, <2>3, <3>1, FeedFlow DEF Feed
    <3>2. CASE FlushMark
      BY <2>1, <2>3, <3>2, MarkFlow DEF FlushMark
    <3>3. CASE FlushDrain
      BY <2>1, <2>3, <3>3, DrainFlow DEF FlushDrain
    <3>4. CASE FlushPut
      BY <2>1, <2>3, <3>4, PutFlow DEF FlushPut
    <3>5. CASE FlushBegin \/ FlushKill
      BY <2>1, <2>2, <3>5, OutsideQuiet
    <3>6. CASE CloseBegin
      BY <2>1, <3>6 DEF CloseBegin, FlowInvariant, EpochOrdered
    <3>7. CASE Closing
      BY <1>3, <3>7, Handles DEF Closing, CloseStop, CloseKill, CloseJoin, Feeding
    <3> QED  BY <2>4, <3>1, <3>2, <3>3, <3>4, <3>5, <3>6, <3>7 DEF Outside, Flushing
  <2>5. CASE Decode
    <3>1. CASE Get
      BY <1>3, <2>1, <2>3, <3>1, GetFlow DEF Get
    <3>2. CASE Ensure
      <4>1. CASE UNCHANGED <<current, mapper>>
        BY <2>1, <2>2, <3>2, <4>1, DecodeQuiet
      <4>2. CASE ~UNCHANGED <<current, mapper>>
        BY <1>3, <2>1, <2>3, <3>2, <4>2, AdoptFlow DEF Ensure
      <4> QED  BY <4>1, <4>2
    <3>3. CASE (Send \/ Hold) /\ ~UNCHANGED mapper
      BY <2>1, <2>3, <3>3, WriteFlow DEF Send, Hold
    <3>4. CASE (Send \/ Hold) /\ UNCHANGED mapper
      BY <2>1, <2>2, <3>4, DecodeQuiet
    <3>5. CASE Pass
      BY <1>3, <2>1, <3>5, PassFlow DEF FlowInvariant
    <3>6. CASE StartMapper \/ StartSpare \/ Finish \/ Drained \/ DrainTimesOut \/ Failed
               \/ ReleaseKills \/ ReleaseMapper \/ End
      BY <2>1, <2>2, <3>6, DecodeQuiet
    <3> QED  BY <2>5, <3>1, <3>2, <3>3, <3>4, <3>5, <3>6 DEF Decode
  <2>6. ASSUME NEW m \in Mapper, Reader(m) \/ MapperCrash(m) PROVE FlowInvariant'
    <3>1. CASE HandOn(m)
      BY <1>3, <2>1, <3>1, HandFlow DEF FlowInvariant
    <3>2. CASE Reader(m) /\ ~HandOn(m)
      BY <2>1, <2>2, <3>2, ReaderQuiet DEF Reader
    <3>3. CASE MapperCrash(m)
      BY <2>1, <2>2, <3>3, CrashQuiet
    <3> QED  BY <2>6, <3>1, <3>2, <3>3
  <2>7. CASE UNCHANGED mappingVars
    <3>1. UNCHANGED <<inq, fed, epoch, passed, decode, current, mapper>>
      BY <2>7 DEF mappingVars, pipeVars
    <3>2. CargoKept
      BY <2>1, <3>1, Handles, Kills, CargoKeeps
    <3> QED  BY <2>2, <3>1, <3>2 DEF Quiet, HandKept
  <2> QED  BY <2>4, <2>5, <2>6, <2>7 DEF MappingNext, Outside
<1> QED  BY <1>2, <1>3

(* What goes downstream is in order: an epoch behind its flush and behind  *)
(* all of the epoch before it, its frames and its auxiliary packets as     *)
(* they were fed, its end last.                                            *)
THEOREM EpochsStayOrdered == MappingSpec => []EpochOrdered
<1>1. MappingInit => Structure /\ FlowInvariant
  BY StructureStarts, FlowStarts
<1>2. Structure /\ FlowInvariant /\ [MappingNext]_mappingVars => (Structure /\ FlowInvariant)'
  BY StructureStep, FlowStep
<1>3. Structure /\ FlowInvariant => EpochOrdered
  BY DEF FlowInvariant
<1> QED  BY <1>1, <1>2, <1>3, PTL DEF MappingSpec

-----------------------------------------------------------------------------
(* Nothing of the epoch is lost while its mapper lives                     *)

(* None of the mappers of the epoch crashed.                               *)
NoCrash == \A m \in Mapper : mapper[m].epoch = epoch => ~mapper[m].crashed

(* All that was fed of the epoch is somewhere, ...                         *)
AllThere ==
  fed.epoch = epoch =>
    \A n \in DOMAIN Script : n <= fed.n => Item(Script[n], epoch, n) \in Everywhere
(* ... and only a mapper that is drained was killed.                       *)
KilledEmpty ==
  current # 0 /\ mapper[current].epoch = epoch /\ mapper[current].killed =>
    /\ decode.at = "release" /\ decode.item.kind = "eos" /\ mapper[current].reader = "ended"
    /\ mapper[current].packets = <<>> /\ mapper[current].held = <<>>
Kept == ~closed /\ NoCrash => AllThere /\ KilledEmpty

(* Neither a crash nor a kill is forgotten.                                *)
FatesStay ==
  \A m \in Mapper : /\ mapper[m].crashed => mapper'[m].crashed
                    /\ mapper[m].killed => mapper'[m].killed
                    /\ mapper[m].crashed \/ mapper[m].killed => mapper'[m].epoch = mapper[m].epoch

(* Kills keep both, and so do other changes of one mapper.                 *)
LEMMA StayFates ==
  ASSUME Structure
  PROVE  /\ AllHit => FatesStay
         /\ \A m \in Mapper : \A q \in MapperRecord :
              /\ Set(m, q) /\ (mapper[m].crashed => q.crashed) /\ (mapper[m].killed => q.killed)
              /\ mapper[m].crashed \/ mapper[m].killed => q.epoch = mapper[m].epoch
              => FatesStay
<1>1. AllHit => FatesStay
  BY DEF AllHit, Hit, Same, FatesStay
<1>2. ASSUME NEW m \in Mapper, NEW q \in MapperRecord, Set(m, q),
             mapper[m].crashed => q.crashed, mapper[m].killed => q.killed,
             mapper[m].crashed \/ mapper[m].killed => q.epoch = mapper[m].epoch
      PROVE  FatesStay
  <2>1. mapper'[m] = q /\ \A k \in Mapper : k # m => mapper'[k] = mapper[k]
    BY <1>2, Handles, Replaced
  <2> QED  BY <1>2, <2>1 DEF FatesStay
<1> QED  BY <1>1, <1>2

(* A mapper that is taken into use lives.                                  *)
LEMMA AdoptLives ==
  ASSUME Structure, Ensure, ~UNCHANGED <<current, mapper>>
  PROVE  ~mapper'[current'].killed /\ FatesStay
<1>1. CASE current' = spare /\ spare # 0 /\ Set(spare, TakenFor(mapper[spare], decode.item.epoch))
           /\ mapper[spare].proc = "alive"
  <2> DEFINE q == TakenFor(mapper[spare], decode.item.epoch)
  <2>1. /\ spare \in Mapper /\ mapper[spare] \in MapperRecord /\ ~mapper[spare].killed
        /\ ~mapper[spare].crashed
    BY <1>1, Handles DEF Life
  <2>2. q \in MapperRecord /\ ~q.killed
    BY <2>1, Handles, TakenForHas DEF SameFlags
  <2>3. Set(spare, q)
    BY <1>1
  <2> HIDE DEF q
  <2>4. mapper'[spare] = q
    BY <2>1, <2>2, <2>3, Handles, Replaced
  <2>5. FatesStay
    BY <2>1, <2>2, <2>3, StayFates
  <2> QED  BY <1>1, <2>2, <2>4, <2>5
<1>2. CASE \E m \in Unused : /\ current' = m
             /\ mapper' = [Killed(mapper, spare) EXCEPT ![m] = TakenFor(Spawned, decode.item.epoch)]
  <2> DEFINE q == TakenFor(Spawned, decode.item.epoch)
             M == Killed(mapper, spare)
  <2>1. PICK m \in Unused : current' = m /\ mapper' = [M EXCEPT ![m] = q]
    BY <1>2
  <2>2. m \in Mapper /\ ~mapper[m].crashed /\ ~mapper[m].killed
    BY Handles DEF Unused, Lives, Life
  <2>3. M \in [Mapper -> MapperRecord] /\ \A k \in Mapper : Hit(mapper[k], M[k])
    BY Handles, KilledHits DEF MapperTypes
  <2>4. q \in MapperRecord /\ ~q.killed
    BY Handles, SpawnedHas, TakenForHas DEF SameFlags
  <2> HIDE DEF q, M
  <2>5. mapper'[m] = q /\ \A k \in Mapper : k # m => mapper'[k] = M[k]
    BY <2>1, <2>2, <2>3
  <2>6. FatesStay
    BY <2>2, <2>3, <2>5 DEF FatesStay, Hit, Same
  <2> QED  BY <2>1, <2>4, <2>5, <2>6
<1> QED  BY <1>1, <1>2 DEF Ensure, TakenFor

(* A spare one is started next to it.                                      *)
LEMMA SpareLeaves ==
  ASSUME Structure, StartSpare
  PROVE  FatesStay /\ mapper'[current] = mapper[current]
<1>1. current # 0
  BY Handles DEF StartSpare, DecodeAt, Places
<1>2. CASE UNCHANGED mapper
  BY <1>2, Handles, Kills, StayFates
<1>3. CASE \E m \in Unused : mapper' = [mapper EXCEPT ![m] = Spawned]
  <2>1. PICK m \in Unused : mapper' = [mapper EXCEPT ![m] = Spawned]
    BY <1>3
  <2>2. /\ m \in Mapper /\ m # current /\ Set(m, Spawned)
        /\ ~mapper[m].crashed /\ ~mapper[m].killed
    BY <1>1, <2>1, Handles DEF Unused, Owners, Set, Lives, Life
  <2>3. FatesStay
    BY <2>2, SpawnedHas, StayFates
  <2> QED  BY <1>1, <2>2, <2>3, Handles, SpawnedHas, Replaced
<1> QED  BY <1>2, <1>3 DEF StartSpare

(* The input of a mapper ends, and it is killed if its process is dead.    *)
LEMMA FinishLeaves ==
  ASSUME Structure, Finish
  PROVE  /\ FatesStay
         /\ mapper'[current].killed => mapper[current].killed \/ mapper[current].proc = "dead"
<1> DEFINE r == mapper[current]
           q == InputEnded(mapper[current])
           ended == [mapper EXCEPT ![current] = q]
<1>1. current # 0
  BY Handles DEF Finish, DecodeAt, Places
<1>2. q \in MapperRecord /\ q.epoch = r.epoch /\ q.crashed = r.crashed /\ q.killed = r.killed
  BY <1>1, Handles, InputEndedHas DEF SameCargo
<1>3. mapper' = ended \/ (mapper' = Killed(ended, current) /\ r.proc = "dead")
  BY DEF Finish, InputEnded
<1> HIDE DEF q
<1>4. /\ ended \in [Mapper -> MapperRecord] /\ ended[current] = q
      /\ \A k \in Mapper : k # current => ended[k] = mapper[k]
  BY <1>1, <1>2, Handles DEF MapperTypes
<1> HIDE DEF ended
<1>5. \A k \in Mapper : /\ mapper'[k].crashed = ended[k].crashed /\ mapper'[k].epoch = ended[k].epoch
                        /\ ended[k].killed => mapper'[k].killed
  <2>1. CASE mapper' = ended
    BY <2>1
  <2>2. CASE mapper' = Killed(ended, current)
    BY <1>4, <2>2, Handles, KilledHits DEF Hit, Same
  <2> QED  BY <1>3, <2>1, <2>2
<1>6. FatesStay
  BY <1>1, <1>2, <1>4, <1>5, Handles DEF FatesStay
<1>7. mapper'[current].killed => r.killed \/ r.proc = "dead"
  BY <1>2, <1>3, <1>4
<1> QED  BY <1>6, <1>7

(* What a reader does to its mapper.                                       *)
LEMMA ReaderLeaves ==
  ASSUME Structure, NEW m \in Mapper, Reader(m)
  PROVE  /\ m = current /\ current # 0 /\ UNCHANGED <<pipeVars, decode, current>>
         /\ mapper[m].reader \notin {"none", "ended"}
         /\ \E q \in MapperRecord :
              /\ Set(m, q) /\ q.epoch = mapper[m].epoch /\ q.crashed = mapper[m].crashed
              /\ q.killed => mapper[m].killed \/ mapper[m].crashed
              /\ mapper[m].killed => q.killed
         /\ \A k \in Mapper : reports'[k] # 0 => reports[k] # 0 \/ mapper[k].crashed
<1> DEFINE r == mapper[m]
<1>1. /\ m = current /\ current # 0 /\ r.reader \notin {"none", "ended"} /\ r \in MapperRecord
      /\ UNCHANGED <<pipeVars, decode, current>>
  <2>1. ByReader /\ (r.reader \notin {"none", "ended"} \/ r.hand # <<>>)
    BY DEF Reader, MapFrame, ReaderIdle, HandOn, ReleaseHeld, StreamEnds, ReadKilled, ReadFails, Reads
  <2> QED  BY <2>1, ReaderIsCurrent DEF ByReader
<1>2. \E q \in MapperRecord :
        /\ Set(m, q) /\ q.epoch = r.epoch /\ q.crashed = r.crashed
        /\ q.killed => r.killed \/ r.crashed
        /\ r.killed => q.killed
  <2>1. CASE MapFrame(m)
    <3>1. Set(m, FrameOut(r)) /\ r.packets # <<>>
      BY <2>1 DEF MapFrame, FrameOut
    <3>2. Item("video", r.epoch, Head(r.packets)) \in Items
      <4>1. Head(r.packets) \in Count /\ r.epoch \in Epoch
        BY <1>1, <3>1, CargoTypes, PairsOfTail
      <4> QED  BY <4>1 DEF Item, Items, Count
    <3> QED  BY <1>1, <3>1, <3>2, FrameOutHas DEF SameFlags
  <2>2. CASE ReaderIdle(m)
    <3>1. Set(m, AllDue(r))
      BY <2>2 DEF ReaderIdle, AllDue
    <3>2. /\ AllDue(r) \in MapperRecord
          /\ SameCargo(r, AllDue(r)) /\ SameFlags(r, AllDue(r))
      BY <1>1, AllDueHas
    <3> QED  BY <1>1, <3>1, <3>2 DEF SameFlags, SameCargo
  <2>3. CASE HandOn(m)
    <3>1. Set(m, HandEmptied(r))
      BY <2>3 DEF HandOn, HandEmptied
    <3> QED  BY <1>1, <3>1, HandEmptiedHas DEF SameFlags
  <2>4. CASE ReleaseHeld(m)
    <3>1. CASE Due(m)
      <4>1. Set(m, HeldOut(r)) /\ r.held # <<>>
        BY <2>4, <3>1 DEF ReleaseHeld, HeldOut, Due
      <4> QED  BY <1>1, <4>1, HeldOutHas DEF SameFlags
    <3>2. CASE ~Due(m)
      <4> DEFINE w == IF r.reader = "last" THEN "ended" ELSE "reading"
      <4>1. Set(m, WithReader(r, w))
        BY <2>4, <3>2 DEF ReleaseHeld, WithReader
      <4>2. /\ WithReader(r, w) \in MapperRecord /\ SameCargo(r, WithReader(r, w))
            /\ SameFlags(r, WithReader(r, w))
        BY <1>1, WithReaderHas
      <4> QED  BY <4>1, <4>2 DEF SameFlags, SameCargo
    <3> QED  BY <3>1, <3>2
  <2>5. CASE StreamEnds(m)
    <3>1. Set(m, LastOnes(r))
      BY <2>5 DEF StreamEnds, LastOnes
    <3>2. /\ LastOnes(r) \in MapperRecord
          /\ SameCargo(r, LastOnes(r)) /\ SameFlags(r, LastOnes(r))
      BY <1>1, LastOnesHas
    <3> QED  BY <3>1, <3>2 DEF SameFlags, SameCargo
  <2>6. CASE ReadKilled(m)
    <3>1. Set(m, WithReader(r, "ended")) \/ Set(m, LastOnes(r))
      BY <2>6 DEF ReadKilled, WithReader, LastOnes
    <3>2. WithReader(r, "ended") \in MapperRecord /\ SameCargo(r, WithReader(r, "ended"))
          /\ SameFlags(r, WithReader(r, "ended"))
      BY <1>1, WithReaderHas
    <3>3. LastOnes(r) \in MapperRecord /\ SameCargo(r, LastOnes(r)) /\ SameFlags(r, LastOnes(r))
      BY <1>1, LastOnesHas
    <3> QED  BY <3>1, <3>2, <3>3 DEF SameFlags, SameCargo
  <2>7. CASE ReadFails(m)
    <3>1. Set(m, ReaderFailed(r)) /\ r.crashed
      BY <2>7 DEF ReadFails, ReaderFailed
    <3> QED  BY <1>1, <3>1, ReaderFailedHas DEF SameCargo
  <2> QED  BY <2>1, <2>2, <2>3, <2>4, <2>5, <2>6, <2>7 DEF Reader
<1>3. \A k \in Mapper : reports'[k] # 0 => reports[k] # 0 \/ mapper[k].crashed
  <2>1. reports' = reports \/ (ReadFails(m) /\ reports' = [reports EXCEPT ![m] = @ + 1])
    BY DEF Reader, MapFrame, ReaderIdle, HandOn, ReleaseHeld, StreamEnds, ReadKilled, ReadFails
  <2>2. CASE reports' = reports
    BY <2>2
  <2>3. CASE ReadFails(m) /\ reports' = [reports EXCEPT ![m] = @ + 1]
    <3>1. mapper[m].crashed /\ \A k \in Mapper : k # m => reports'[k] = reports[k]
      BY <2>3, Handles DEF ReadFails, OtherTypes
    <3> QED  BY <3>1
  <2> QED  BY <2>1, <2>2, <2>3
<1> QED  BY <1>1, <1>2, <1>3

(* What a mapper of the epoch is like when none of it crashed.             *)
LEMMA Unhurt ==
  ASSUME Structure, Flow, NoCrash, KilledEmpty, ~closed, current # 0, mapper[current].epoch = epoch
  PROVE  /\ ~mapper[current].crashed
         /\ decode.at # "release" => ~mapper[current].killed /\ mapper[current].proc # "dead"
         /\ decode.at \notin {"failed", "ending"}
         /\ decode.at = "release" => mapper[current].killed /\ Inside = {}
         /\ mapper[current].killed => mapper[current].reader = "ended"
<1>1. current \in Mapper /\ Life(mapper[current]) /\ ~mapper[current].crashed
  BY Handles DEF NoCrash
<1>2. decode.at # "release" => ~mapper[current].killed /\ mapper[current].proc # "dead"
  BY <1>1 DEF KilledEmpty, Life
<1>3. decode.at \notin {"failed", "ending"}
  BY <1>2, Handles DEF Places
<1>4. ASSUME decode.at = "release" PROVE mapper[current].killed /\ Inside = {}
  <2>1. decode.item.kind = "eos"
    <3>1. SUFFICES ASSUME decode.item.kind = "flush" PROVE FALSE
      BY <1>4, Handles DEF Places
    <3>2. decode.item \in Coming
      BY <1>4 DEF Coming, InHand, Handled
    <3>3. mapper[current].epoch < decode.item.epoch /\ decode.item.epoch <= fed.epoch
      BY <3>1, <3>2, FlowTypes DEF Flow, OwnEpoch
    <3>4. decode.item.epoch \in Nat /\ fed.epoch \in Nat /\ epoch \in Nat /\ fed.epoch <= epoch
      BY Handles, FlowTypes, ItemTypes
    <3> QED  BY <3>3, <3>4
  <2>2. mapper[current].proc = "dead"
    BY <1>4, <2>1, Handles DEF Places
  <2>3. mapper[current].killed
    BY <1>1, <2>2 DEF Life
  <2>4. mapper[current].packets = <<>> /\ mapper[current].held = <<>> /\ mapper[current].hand = <<>>
    BY <1>1, <2>3 DEF KilledEmpty, Life
  <2>5. Elems(<<>>) = {}
    BY DEF Elems
  <2>6. Carried(mapper[current]) = {}
    BY <2>4, <2>5 DEF Carried, HeldItems, FrameItems
  <2> QED  BY <2>3, <2>6 DEF Inside
<1>5. mapper[current].killed => mapper[current].reader = "ended"
  BY DEF KilledEmpty
<1> QED  BY <1>1, <1>2, <1>3, <1>4, <1>5

(* A step that moves items, none of the epoch out of sight.                *)
LEMMA KeptMoves ==
  ASSUME Structure, Kept, ~closed, UNCHANGED <<fed, epoch>>, FatesStay,
         NoCrash /\ NoCrash' /\ KilledEmpty =>
           KilledEmpty' /\ \A x \in Everywhere : x.epoch = epoch => x \in Everywhere'
  PROVE  Kept'
<1>1. NoCrash' => NoCrash
  BY DEF NoCrash, FatesStay
<1>2. ASSUME NoCrash' PROVE AllThere' /\ KilledEmpty'
  <2>1. AllThere /\ KilledEmpty
    BY <1>1, <1>2 DEF Kept
  <2>2. KilledEmpty' /\ \A x \in Everywhere : x.epoch = epoch => x \in Everywhere'
    BY <1>1, <1>2, <2>1
  <2>3. \A n \in DOMAIN Script : Item(Script[n], epoch, n).epoch = epoch
    BY ItemTypes
  <2> QED  BY <2>1, <2>2, <2>3 DEF AllThere
<1> QED  BY <1>2 DEF Kept

(* While the source is still to be started on the epoch.                   *)
LEMMA KeptBehind ==
  ASSUME Structure, Structure', Flow, Flow', fed'.epoch # epoch'
  PROVE  Kept'
<1>1. /\ fed'.epoch \in Nat /\ epoch' \in Nat /\ fed'.epoch <= epoch'
      /\ current' # 0 => mapper'[current'].epoch \in Nat
  <2>1. /\ fed' \in [epoch : Epoch, n : 0..Len(Script) + 1] /\ epoch' \in Epoch /\ fed'.epoch <= epoch'
        /\ mapper' \in [Mapper -> MapperRecord] /\ current' \in 0..MaxMappers
    BY TypesSplit DEF Structure, PipeTypes, Feeding, MapperTypes, OtherTypes
  <2>2. fed'.epoch \in Epoch
    BY <2>1
  <2>3. current' # 0 => mapper'[current'].epoch \in Epoch
    BY <2>1, MappingAssumption DEF MapperRecord, Mapper
  <2> QED  BY <2>1, <2>2, <2>3, ItemTypes
<1>2. current' # 0 => mapper'[current'].epoch # epoch'
  BY <1>1 DEF Flow, OwnEpoch
<1> QED  BY <1>2 DEF Kept, AllThere, KilledEmpty

(* What is fed is queued; a seek leaves the epoch behind.                  *)
LEMMA OutsideKept ==
  ASSUME Structure, Structure', Flow, Flow', Kept, ~closed, Outside
  PROVE  Kept'
<1>1. CASE Feed
  <2> DEFINE n == fed.n + 1
             i == Item(IF n > Len(Script) THEN "eos" ELSE Script[n], fed.epoch, n)
  <2>1. /\ UNCHANGED <<decode, current, mapper, passed, epoch, closed>> /\ inq' = Append(inq, i)
        /\ fed'.epoch = fed.epoch /\ fed'.n = n /\ fed.n \in Nat /\ fed.n <= Len(Script)
    <3>1. fed \in [epoch : Epoch, n : 0..Len(Script) + 1]
      BY Handles DEF PipeTypes
    <3> QED  BY <1>1, <3>1, FlowTypes DEF Feed
  <2>2. Past' = Past /\ Inside' = Inside /\ Coming' = Coming \cup {i}
    <3>1. /\ inq \in Seq(Items) /\ inq' \in Seq(Items) /\ Len(inq') = Len(inq) + 1
          /\ i = inq'[Len(inq) + 1]
      BY <2>1, TypesSplit, AppendProperties, ElemsOf DEF Structure, PipeTypes
    <3>2. i \in Items
      BY <3>1
    <3>3. Queued' = Queued \cup {i}
      BY <2>1, <3>1, <3>2, ElemsOf DEF Queued
    <3> QED  BY <2>1, <3>3, Unmoved DEF Coming
  <2>3. Everywhere' = Everywhere \cup {i}
    BY <2>2 DEF Everywhere
  <2>4. NoCrash' <=> NoCrash
    BY <2>1 DEF NoCrash
  <2>5. KilledEmpty' <=> KilledEmpty
    BY <2>1 DEF KilledEmpty
  <2>6. ASSUME AllThere, fed'.epoch = epoch', NEW k \in DOMAIN Script, k <= fed'.n
        PROVE  Item(Script[k], epoch', k) \in Everywhere'
    <3>1. k \in Nat /\ k <= Len(Script)
      BY MappingAssumption
    <3>2. CASE k <= fed.n
      BY <2>1, <2>3, <2>6, <3>2 DEF AllThere
    <3>3. CASE k = n
      BY <2>1, <2>3, <2>6, <3>1, <3>3, MappingAssumption
    <3> QED  BY <2>1, <2>6, <3>1, <3>2, <3>3
  <2> QED  BY <2>1, <2>4, <2>5, <2>6 DEF Kept, AllThere
<1>2. CASE FlushMark
  BY <1>2, MarkFlow, FlowTypes, KeptBehind DEF FlushMark
<1>3. CASE FlushKill \/ FlushDrain
  <2>1. UNCHANGED <<fed, epoch>> /\ fed.epoch < epoch
    BY <1>3, Handles DEF FlushKill, FlushDrain, Feeding
  <2> QED  BY <2>1, FlowTypes, KeptBehind
<1>4. CASE FlushPut
  <2>1. /\ fed' = [epoch |-> epoch, n |-> 0] /\ UNCHANGED <<epoch, current, mapper, closed>>
        /\ fed.epoch < epoch
    BY <1>4, Handles DEF FlushPut, Feeding
  <2>2. current # 0 => mapper[current].epoch # epoch
    BY <2>1, FlowTypes DEF Flow, OwnEpoch
  <2>3. \A n \in DOMAIN Script : ~(n <= fed'.n)
    BY <2>1, MappingAssumption
  <2> QED  BY <2>1, <2>2, <2>3 DEF Kept, AllThere, KilledEmpty
<1>5. CASE FlushBegin
  <2>1. UNCHANGED <<inq, fed, epoch, closed, decode, current, mapper, passed>>
    BY <1>5 DEF FlushBegin
  <2>2. Everywhere' = Everywhere
    BY <2>1 DEF Everywhere, Past, Coming, Queued, InHand, Inside, Elems, Carried, HeldItems, FrameItems
  <2> QED  BY <2>1, <2>2 DEF Kept, NoCrash, AllThere, KilledEmpty
<1>6. CASE CloseBegin
  BY <1>6 DEF CloseBegin, Kept
<1>7. CASE Closing
  BY <1>7, Handles DEF Closing, CloseStop, CloseKill, CloseJoin, Feeding
<1> QED  BY <1>1, <1>2, <1>3, <1>4, <1>5, <1>6, <1>7 DEF Outside, Flushing

(* An item that is not of the epoch may be dropped.                        *)
LEMMA GetKept ==
  ASSUME Structure, Flow, Kept, ~closed, Get
  PROVE  Kept'
<1> DEFINE i == Head(inq)
<1>1. /\ UNCHANGED <<current, mapper, passed, epoch, fed, closed>> /\ inq' = Tail(inq) /\ inq # <<>>
      /\ decode.at = "get" /\ inq \in Seq(Items)
      /\ decode'.item = i
      /\ decode'.at = IF i.kind = "stop" THEN "ending"
                      ELSE IF i.kind = "flush" THEN "release"
                      ELSE IF i.epoch < epoch THEN "get"
                      ELSE IF i.kind \in {"video", "aux"} THEN "ensure"
                      ELSE IF current = 0 THEN "pass" ELSE "use"
  BY Handles DEF Get, DecodeAt, PipeTypes
<1>2. Queued = Queued' \cup {i} /\ InHand = {} /\ Past' = Past /\ Inside' = Inside
  <2>1. Queued = Queued' \cup {i}
    BY <1>1, ElemsOf DEF Queued
  <2> QED  BY <1>1, <2>1 DEF InHand, Handled, Past, Inside, Elems, Carried, HeldItems, FrameItems
<1>3. i.kind # "stop" /\ i.epoch \in Nat
  BY <1>2, FlowTypes, ItemTypes DEF Flow, FlowOrder, Formed, Coming
<1>4. i.epoch = epoch => InHand' = {i}
  <2>1. i.epoch = epoch => ~(i.epoch < epoch)
    BY <1>3
  <2> QED  BY <1>1, <1>3, <2>1 DEF InHand, Handled
<1>5. \A x \in Everywhere : x.epoch = epoch => x \in Everywhere'
  BY <1>2, <1>4 DEF Everywhere, Coming
<1>6. FatesStay
  BY <1>1, Handles, Kills, StayFates
<1>7. NoCrash /\ KilledEmpty => KilledEmpty'
  BY <1>1, Unhurt DEF KilledEmpty
<1> QED  BY <1>1, <1>5, <1>6, <1>7, KeptMoves

(* The mapper that takes the item of the epoch carries nothing yet.        *)
LEMMA EnsureKept ==
  ASSUME Structure, Structure', Flow, Kept, ~closed, Ensure
  PROVE  Kept'
<1>1. UNCHANGED <<fed, epoch, closed>> /\ decode.at = "ensure"
  BY DEF Ensure, pipeVars, DecodeAt
<1>2. CASE UNCHANGED <<current, mapper>>
  <2>1. DecodeGoes("use") \/ DecodeGoes("start")
    BY <1>2 DEF Ensure
  <2>2. Quiet
    BY <1>2, DecodeQuiet
  <2>3. InHand' = InHand
    BY <1>1, <2>1, Handles, Going DEF InHand, Handled, DecodePlace
  <2>4. Inside' = Inside
    BY <1>2, <2>2 DEF Quiet, CargoKept, Inside
  <2>5. Everywhere' = Everywhere
    BY <2>2, <2>3, <2>4, QuietSets DEF Everywhere, Coming
  <2>6. FatesStay
    BY <1>2, Handles, Kills, StayFates
  <2>7. NoCrash /\ KilledEmpty => KilledEmpty'
    BY <1>1, <1>2, Unhurt DEF KilledEmpty
  <2> QED  BY <1>1, <2>5, <2>6, <2>7, KeptMoves
<1>3. CASE ~UNCHANGED <<current, mapper>>
  <2>1. Everywhere' = Everywhere
    BY <1>3, AdoptFlow DEF Everywhere
  <2>2. ~mapper'[current'].killed /\ FatesStay
    BY <1>3, AdoptLives
  <2>3. KilledEmpty'
    BY <2>2 DEF KilledEmpty
  <2> QED  BY <1>1, <2>1, <2>2, <2>3, KeptMoves
<1> QED  BY <1>2, <1>3

(* A quiet step of the decode thread or of a reader.                       *)
LEMMA QuietKept ==
  ASSUME Structure, Flow, Kept, ~closed, Quiet, FatesStay,
         NoCrash /\ NoCrash' /\ KilledEmpty =>
           /\ KilledEmpty'
           /\ decode'.at \in Handled \/ decode.at \notin Handled \/ decode.item.epoch # epoch
           /\ current' = current \/ Inside = {} \/ mapper[current].epoch # epoch
  PROVE  Kept'
<1>1. UNCHANGED <<fed, epoch>>
  BY DEF Quiet
<1>2. ASSUME NoCrash, NoCrash', KilledEmpty
      PROVE  \A x \in Everywhere : x.epoch = epoch => x \in Everywhere'
  <2>1. Past' = Past /\ Queued' = Queued
    BY QuietSets
  <2>2. \A x \in InHand : x.epoch = epoch => x \in InHand'
    BY <1>2 DEF Quiet, HandKept, InHand
  <2>3. \A x \in Inside : x.epoch = epoch => x \in Inside'
    <3>1. CASE current' = current
      BY <3>1 DEF Quiet, CargoKept, Inside
    <3>2. CASE Inside = {}
      BY <3>2
    <3>3. CASE mapper[current].epoch # epoch
      BY <3>3 DEF Flow, OwnEpoch, SortedCargo, Inside
    <3> QED  BY <1>2, <3>1, <3>2, <3>3
  <2> QED  BY <2>1, <2>2, <2>3 DEF Everywhere, Coming
<1> QED  BY <1>1, <1>2, KeptMoves

(* The decode thread loses nothing of the epoch while its mapper lives.    *)
LEMMA DecodeKept ==
  ASSUME Structure, Structure', Flow, Kept, ~closed,
         StartMapper \/ StartSpare \/ Send \/ Hold \/ Finish \/ Drained \/ DrainTimesOut \/ Failed
           \/ ReleaseKills \/ ReleaseMapper \/ Pass \/ End, EpochOrdered
  PROVE  Kept'
<1>1. ASSUME current # 0, mapper[current].epoch = epoch, NoCrash, KilledEmpty
      PROVE  /\ ~mapper[current].crashed
             /\ decode.at # "release" => ~mapper[current].killed /\ mapper[current].proc # "dead"
             /\ decode.at \notin {"failed", "ending"}
             /\ decode.at = "release" => mapper[current].killed /\ Inside = {}
             /\ mapper[current].killed => mapper[current].reader = "ended"
  BY <1>1, Unhurt
<1>2. CASE StartMapper
  <2>1. /\ decode.at = "start" /\ current # 0 /\ current' = current
        /\ (DecodeGoes("spare") \/ DecodeGoes("failed")) /\ Quiet
    BY <1>2, Handles, DecodeQuiet DEF StartMapper, DecodeAt, Places
  <2>2. decode'.at \in Handled
    BY <2>1, Handles, Going DEF DecodePlace, Handled
  <2>3. CASE Set(current, WithReader(mapper[current], "reading"))
    <3> DEFINE q == WithReader(mapper[current], "reading")
    <3>1. q \in MapperRecord /\ SameCargo(mapper[current], q) /\ SameFlags(mapper[current], q)
      BY <2>1, Handles, WithReaderHas
    <3>2. Set(current, q)
      BY <2>3
    <3> HIDE DEF q
    <3>3. mapper'[current] = q
      BY <2>1, <3>1, <3>2, Handles, Replaced
    <3>4. FatesStay
      BY <2>1, <3>1, <3>2, Handles, StayFates DEF SameFlags, SameCargo
    <3>5. NoCrash /\ KilledEmpty => KilledEmpty'
      BY <1>1, <2>1, <3>1, <3>3 DEF KilledEmpty, SameFlags, SameCargo, Quiet
    <3> QED  BY <2>1, <2>2, <3>4, <3>5, QuietKept
  <2>4. CASE UNCHANGED mapper
    <3>1. FatesStay
      BY <2>4, Handles, Kills, StayFates
    <3>2. NoCrash /\ KilledEmpty => KilledEmpty'
      BY <1>1, <2>1, <2>4 DEF KilledEmpty, Quiet
    <3> QED  BY <2>1, <2>2, <3>1, <3>2, QuietKept
  <2> QED  BY <1>2, <2>3, <2>4 DEF StartMapper, WithReader
<1>3. CASE StartSpare
  <2>1. /\ decode.at = "spare" /\ current # 0 /\ current' = current /\ DecodeGoes("use") /\ Quiet
    BY <1>3, Handles, DecodeQuiet DEF StartSpare, DecodeAt, Places
  <2>2. decode'.at \in Handled
    BY <2>1, Handles, Going DEF DecodePlace, Handled
  <2>3. FatesStay /\ mapper'[current] = mapper[current]
    BY <1>3, SpareLeaves
  <2>4. NoCrash /\ KilledEmpty => KilledEmpty'
    BY <1>1, <2>1, <2>3 DEF KilledEmpty, Quiet
  <2> QED  BY <2>1, <2>2, <2>3, <2>4, QuietKept
<1>4. CASE (Send \/ Hold) /\ ~UNCHANGED mapper
  <2>1. /\ UNCHANGED <<fed, epoch, current>> /\ decode.at = "use" /\ current # 0
    BY <1>4, Handles DEF Send, Hold, DecodeAt, pipeVars, Places
  <2>2. Everywhere' = Everywhere
    BY <1>4, WriteFlow
  <2>3. PICK q \in MapperRecord : /\ Set(current, q) /\ SameFlags(mapper[current], q)
                                  /\ q.epoch = mapper[current].epoch
    <3>1. CASE Send
      <4>1. Set(current, WithPacket(mapper[current], decode.item.n))
        BY <1>4, <3>1 DEF Send, WithPacket
      <4>2. /\ WithPacket(mapper[current], decode.item.n) \in MapperRecord
            /\ WithPacket(mapper[current], decode.item.n).epoch = mapper[current].epoch
            /\ SameFlags(mapper[current], WithPacket(mapper[current], decode.item.n))
        BY <2>1, Handles, WithPacketHas
      <4> QED  BY <4>1, <4>2
    <3>2. CASE Hold
      <4>1. Set(current, WithItem(mapper[current], decode.item))
        BY <1>4, <3>2 DEF Hold, WithItem
      <4>2. /\ WithItem(mapper[current], decode.item) \in MapperRecord
            /\ WithItem(mapper[current], decode.item).epoch = mapper[current].epoch
            /\ SameFlags(mapper[current], WithItem(mapper[current], decode.item))
        BY <2>1, Handles, WithItemHas
      <4> QED  BY <4>1, <4>2
    <3> QED  BY <1>4, <3>1, <3>2
  <2>4. mapper'[current] = q /\ FatesStay
    BY <2>1, <2>3, Handles, Replaced, StayFates DEF SameFlags
  <2>5. NoCrash /\ KilledEmpty => KilledEmpty'
    BY <1>1, <2>1, <2>3, <2>4 DEF KilledEmpty, SameFlags
  <2> QED  BY <2>1, <2>2, <2>4, <2>5, KeptMoves
<1>5. CASE (Send \/ Hold) /\ UNCHANGED mapper
  <2>1. /\ Quiet /\ current' = current /\ decode.at = "use" /\ current # 0
        /\ decode.item.kind \in {"video", "aux"}
    BY <1>5, Handles, DecodeQuiet DEF Send, Hold, DecodeAt, Places, pipeVars
  <2>2. mapper[current].killed \/ mapper[current].proc = "dead"
    <3>1. CASE Hold
      <4>1. mapper[current].killed \/ Set(current, WithItem(mapper[current], decode.item))
        BY <3>1 DEF Hold, WithItem
      <4>2. WithItem(mapper[current], decode.item) # mapper[current]
        <5>1. WithItem(mapper[current], decode.item).held
                = Append(mapper[current].held, [after |-> mapper[current].sent, item |-> decode.item])
          BY <2>1, Handles, WithItemHas
        <5>2. mapper[current].held \in Seq(Holding)
              /\ [after |-> mapper[current].sent, item |-> decode.item] \in Holding
          BY <2>1, Handles DEF MapperRecord, Holding
        <5>3. Len(WithItem(mapper[current], decode.item).held) = Len(mapper[current].held) + 1
              /\ Len(mapper[current].held) \in Nat
          BY <5>1, <5>2, AppendProperties
        <5> QED  BY <5>3
      <4>3. Set(current, WithItem(mapper[current], decode.item)) =>
              mapper'[current] = WithItem(mapper[current], decode.item)
        BY <2>1, Handles, WithItemHas, Replaced
      <4> QED  BY <1>5, <4>1, <4>2, <4>3
    <3>2. CASE Send
      <4>1. mapper[current].proc = "dead" \/ Set(current, WithPacket(mapper[current], decode.item.n))
        BY <3>2 DEF Send, WithPacket
      <4>2. WithPacket(mapper[current], decode.item.n) # mapper[current]
        <5>1. WithPacket(mapper[current], decode.item.n).packets = Append(mapper[current].packets, decode.item.n)
          BY <2>1, Handles, WithPacketHas
        <5>2. mapper[current].packets \in Seq(Count) /\ decode.item.n \in Count
          BY <2>1, Handles DEF MapperRecord, Count
        <5>3. Len(WithPacket(mapper[current], decode.item.n).packets) = Len(mapper[current].packets) + 1
              /\ Len(mapper[current].packets) \in Nat
          BY <5>1, <5>2, AppendProperties
        <5> QED  BY <5>3
      <4>3. Set(current, WithPacket(mapper[current], decode.item.n)) =>
              mapper'[current] = WithPacket(mapper[current], decode.item.n)
        BY <2>1, Handles, WithPacketHas, Replaced
      <4> QED  BY <1>5, <4>1, <4>2, <4>3
    <3> QED  BY <1>5, <3>1, <3>2
  <2>3. FatesStay
    BY <1>5, Handles, Kills, StayFates
  <2>4. NoCrash /\ KilledEmpty => mapper[current].epoch # epoch
    BY <1>1, <2>1, <2>2
  <2>5. decode.item.epoch = mapper[current].epoch
    BY <2>1 DEF Flow, OwnEpoch, InHand, Handled
  <2>6. NoCrash /\ KilledEmpty => KilledEmpty'
    BY <1>5, <2>1, <2>4 DEF KilledEmpty, Quiet
  <2> QED  BY <2>1, <2>3, <2>4, <2>5, <2>6, QuietKept
<1>6. ASSUME Quiet, AllHit, current' = current, current # 0,
             decode'.at \in Handled \/ mapper[current].epoch # epoch \/ ~NoCrash \/ ~KilledEmpty
               \/ decode.at \notin Handled,
             decode.at \in Handled => decode.item.epoch = mapper[current].epoch
                                      \/ decode'.at \in Handled,
             NoCrash /\ KilledEmpty /\ mapper[current].epoch = epoch /\ mapper'[current].killed =>
               /\ decode'.at = "release" /\ decode'.item.kind = "eos"
               /\ mapper'[current].reader = "ended"
               /\ mapper'[current].packets = <<>> /\ mapper'[current].held = <<>>
      PROVE  Kept'
  <2>1. FatesStay
    BY <1>6, StayFates
  <2>2. NoCrash /\ KilledEmpty => KilledEmpty'
    BY <1>6 DEF KilledEmpty, Quiet, CargoKept
  <2> QED  BY <1>6, <2>1, <2>2, QuietKept
<1>7. CASE Finish
  <2>1. /\ Quiet /\ current' = current /\ decode.at = "use" /\ current # 0
    BY <1>7, Handles, DecodeQuiet DEF Finish, DecodeAt, Places
  <2>2. decode'.at \in Handled
    <3>1. DecodeGoes("failed") \/ DecodeGoes("drain")
      BY <1>7 DEF Finish
    <3> QED  BY <3>1, Handles, Going DEF DecodePlace, Handled
  <2>3. /\ FatesStay
        /\ mapper'[current].killed => mapper[current].killed \/ mapper[current].proc = "dead"
    BY <1>7, FinishLeaves
  <2>4. NoCrash /\ KilledEmpty => KilledEmpty'
    BY <1>1, <2>1, <2>3 DEF KilledEmpty, Quiet, CargoKept
  <2> QED  BY <2>1, <2>2, <2>3, <2>4, QuietKept
<1>8. CASE Drained \/ DrainTimesOut
  <2>1. /\ Quiet /\ current' = current /\ decode.at = "drain" /\ current # 0
        /\ decode.item.kind = "eos"
        /\ AllHit
    BY <1>8, Handles, DecodeQuiet, Kills DEF Drained, DrainTimesOut, DecodeAt, Places
  <2>2. PICK p \in {"release", "failed"} : DecodeGoes(p) /\ (p = "failed" => mapper[current].crashed)
          /\ (p = "release" => mapper[current].reader = "ended" \/ mapper[current].killed)
    BY <1>8 DEF Drained, DrainTimesOut
  <2>3. decode'.at = p /\ decode'.item = decode.item
    BY <2>2, Handles, Going DEF DecodePlace
  <2>4. /\ Life(mapper[current]) /\ Hit(mapper[current], mapper'[current])
    BY <2>1, Handles DEF AllHit
  <2>5. ASSUME NoCrash, KilledEmpty, mapper[current].epoch = epoch, mapper'[current].killed
        PROVE  /\ decode'.at = "release" /\ decode'.item.kind = "eos"
               /\ mapper'[current].reader = "ended"
               /\ mapper'[current].packets = <<>> /\ mapper'[current].held = <<>>
    <3>1. ~mapper[current].crashed /\ ~mapper[current].killed
      BY <1>1, <2>1, <2>5
    <3>2. p = "release" /\ mapper[current].reader = "ended"
      BY <2>2, <3>1
    <3>3. mapper[current].packets = <<>> /\ mapper[current].held = <<>>
      BY <2>4, <3>1, <3>2 DEF Life
    <3> QED  BY <2>1, <2>3, <2>4, <3>2, <3>3 DEF Hit, Same
  <2>6. decode'.at \in Handled
    BY <2>3 DEF Handled
  <2> QED  BY <1>6, <2>1, <2>5, <2>6
<1>9. CASE Failed
  <2>1. /\ Quiet /\ current' = current /\ decode.at = "failed" /\ current # 0
        /\ decode.item.kind \in {"video", "aux", "eos"}
    BY <1>9, Handles, DecodeQuiet DEF Failed, DecodeAt, Places
  <2>2. NoCrash /\ KilledEmpty => mapper[current].epoch # epoch
    BY <1>1, <2>1
  <2>3. decode.item.epoch = mapper[current].epoch
    BY <2>1 DEF Flow, OwnEpoch, InHand, Handled
  <2>4. FatesStay
    <3>1. CASE UNCHANGED mapper
      BY <3>1, Handles, Kills, StayFates
    <3>2. CASE Set(current, Claimed(mapper[current]))
      <4>1. Claimed(mapper[current]) \in MapperRecord
            /\ Claimed(mapper[current]).crashed = mapper[current].crashed
            /\ Claimed(mapper[current]).epoch = mapper[current].epoch
            /\ Claimed(mapper[current]).killed = mapper[current].killed
        BY <2>1, Handles, ClaimedHas DEF SameCargo
      <4> QED  BY <2>1, <3>2, <4>1, Handles, StayFates
    <3> QED  BY <1>9, <3>1, <3>2 DEF Failed, Claimed
  <2>5. NoCrash /\ KilledEmpty => KilledEmpty'
    BY <2>1, <2>2 DEF KilledEmpty, Quiet, CargoKept
  <2> QED  BY <2>1, <2>2, <2>3, <2>4, <2>5, QuietKept
<1>10. CASE ReleaseKills
  <2>1. /\ Quiet /\ current' = current /\ decode' = decode /\ AllHit
    <3>1. \/ mapper' = Killed(Killed(mapper, current), spare)
          \/ mapper' = Killed(mapper, current)
      BY <1>10 DEF ReleaseKills
    <3>2. AllHit
      BY <3>1, Handles, Kills
    <3> QED  BY <1>10, <3>2, DecodeQuiet DEF ReleaseKills
  <2>2. FatesStay
    BY <2>1, StayFates
  <2>3. decode.at \in {"release", "ending"}
    BY <1>10 DEF ReleaseKills
  <2>4. ASSUME NoCrash, KilledEmpty PROVE KilledEmpty'
    <3>1. SUFFICES ASSUME current # 0, mapper'[current].epoch = epoch
                   PROVE  /\ decode'.at = "release" /\ decode'.item.kind = "eos"
                          /\ mapper'[current].reader = "ended"
                          /\ mapper'[current].packets = <<>> /\ mapper'[current].held = <<>>
      BY <2>1 DEF KilledEmpty, Quiet
    <3>2. Hit(mapper[current], mapper'[current]) /\ mapper[current].epoch = epoch
      BY <2>1, <3>1, Handles DEF AllHit, Hit, Same
    <3>3. decode.at = "release" /\ mapper[current].killed
      BY <1>1, <2>3, <2>4, <3>1, <3>2
    <3> QED  BY <2>1, <2>4, <3>1, <3>2, <3>3 DEF KilledEmpty, Hit, Same
  <2> QED  BY <2>1, <2>2, <2>4, QuietKept
<1>11. CASE ReleaseMapper \/ End
  <2>1. /\ Quiet /\ current' = 0 /\ UNCHANGED mapper /\ decode.at \in {"release", "ending"}
    BY <1>11, DecodeQuiet DEF ReleaseMapper, End, DecodeAt
  <2>2. decode.at \notin Handled \/ decode'.at \in Handled
    <3>1. decode.at = "ending" \/ DecodeGoes("pass")
      BY <1>11 DEF ReleaseMapper, End, DecodeAt
    <3> QED  BY <3>1, Handles, Going DEF DecodePlace, Handled
  <2>3. FatesStay
    BY <2>1, Handles, Kills, StayFates
  <2>4. KilledEmpty'
    BY <2>1 DEF KilledEmpty
  <2>5. NoCrash /\ KilledEmpty => Inside = {} \/ mapper[current].epoch # epoch
    BY <1>1, <2>1 DEF Inside
  <2> QED  BY <2>1, <2>2, <2>3, <2>4, <2>5, QuietKept
<1>12. CASE Pass
  <2>1. UNCHANGED <<fed, epoch, current, mapper>> /\ current = 0
    BY <1>12, Handles DEF Pass, DecodeAt, Places, pipeVars
  <2>2. Everywhere' = Everywhere
    BY <1>12, PassFlow
  <2>3. FatesStay /\ KilledEmpty'
    BY <2>1, Handles, Kills, StayFates DEF KilledEmpty
  <2> QED  BY <2>1, <2>2, <2>3, KeptMoves
<1> QED  BY <1>2, <1>3, <1>4, <1>5, <1>7, <1>8, <1>9, <1>10, <1>11, <1>12

(* A reader at work is no killed mapper's, as far as the epoch goes.       *)
LEMMA ReaderKept ==
  ASSUME Structure, Structure', Flow, Kept, EpochOrdered, ~closed, NEW m \in Mapper, Reader(m)
  PROVE  Kept'
<1> DEFINE r == mapper[m]
<1>1. /\ m = current /\ current # 0 /\ UNCHANGED <<fed, epoch, current, decode>>
      /\ r.reader \notin {"none", "ended"}
  BY ReaderLeaves DEF pipeVars
<1>2. PICK q \in MapperRecord : /\ Set(m, q) /\ q.epoch = r.epoch /\ q.crashed = r.crashed
                                /\ q.killed => r.killed \/ r.crashed
                                /\ r.killed => q.killed
  BY ReaderLeaves
<1>3. mapper'[m] = q /\ FatesStay
  BY <1>2, Handles, Replaced, StayFates
<1>4. NoCrash /\ KilledEmpty => KilledEmpty'
  <2>1. NoCrash /\ KilledEmpty /\ r.epoch = epoch => ~r.killed /\ ~r.crashed
    BY <1>1, Unhurt
  <2> QED  BY <1>1, <1>2, <1>3, <2>1 DEF KilledEmpty
<1>5. CASE HandOn(m)
  BY <1>1, <1>3, <1>4, <1>5, HandFlow, KeptMoves
<1>6. CASE ~HandOn(m)
  <2>1. Quiet
    BY <1>6, ReaderQuiet DEF Reader
  <2> QED  BY <1>1, <1>3, <1>4, <2>1, QuietKept
<1> QED  BY <1>5, <1>6

(* A crash of the epoch ends the promise, another one changes nothing of   *)
(* it.                                                                     *)
LEMMA CrashKept ==
  ASSUME Structure, Structure', Flow, Kept, ~closed, NEW m \in Mapper, MapperCrash(m)
  PROVE  Kept'
<1> DEFINE q == ProcessCrashed(mapper[m])
<1>1. UNCHANGED <<epoch, decode, current, fed>> /\ Set(m, q) /\ mapper[m] \in MapperRecord
  BY Handles DEF MapperCrash, ProcessCrashed, ByReader, pipeVars, MapperTypes
<1>2. q \in MapperRecord /\ SameCargo(mapper[m], q) /\ q.crashed = TRUE
      /\ q.killed = mapper[m].killed
  BY <1>1, ProcessCrashedHas
<1> HIDE DEF q
<1>3. /\ mapper'[m] = q /\ \A k \in Mapper : k # m => mapper'[k] = mapper[k]
      /\ FatesStay
  BY <1>1, <1>2, Handles, Replaced, StayFates DEF SameCargo
<1>4. NoCrash' => mapper[m].epoch # epoch
  BY <1>1, <1>2, <1>3 DEF NoCrash, SameCargo
<1>5. NoCrash' /\ KilledEmpty => KilledEmpty'
  BY <1>1, <1>2, <1>3, <1>4, Handles DEF KilledEmpty, SameCargo
<1> QED  BY <1>1, <1>3, <1>5, CrashQuiet, QuietKept

(* Every step keeps it.                                                   *)
LEMMA KeptStep ==
  ASSUME Structure, Structure', FlowInvariant, FlowInvariant', Kept, [MappingNext]_mappingVars
  PROVE  Kept'
<1>1. CASE closed'
  BY <1>1 DEF Kept
<1>2. CASE ~closed'
  <2>1. closed' = closed \/ CloseBegin
    BY ClosedStays
  <2>2. ~closed /\ Flow /\ Flow' /\ EpochOrdered
    BY <1>2, <2>1 DEF FlowInvariant, CloseBegin
  <2>3. CASE Outside
    BY <2>2, <2>3, OutsideKept
  <2>4. CASE Decode
    BY <2>2, <2>4, GetKept, EnsureKept, DecodeKept DEF Decode
  <2>5. CASE \E m \in Mapper : Reader(m) \/ MapperCrash(m)
    BY <2>2, <2>5, ReaderKept, CrashKept
  <2>6. CASE UNCHANGED mappingVars
    <3>1. UNCHANGED <<inq, fed, epoch, closed, decode, current, mapper, passed>>
      BY <2>6 DEF mappingVars, pipeVars
    <3>2. Everywhere' = Everywhere
      BY <3>1 DEF Everywhere, Past, Coming, Queued, InHand, Inside, Elems, Carried, HeldItems, FrameItems
    <3> QED  BY <3>1, <3>2 DEF Kept, NoCrash, AllThere, KilledEmpty
  <2> QED  BY <2>3, <2>4, <2>5, <2>6 DEF MappingNext, Outside
<1> QED  BY <1>1, <1>2

(* At the end of an epoch, all of it is past.                              *)
LEMMA KeptComplete ==
  ASSUME Structure, FlowInvariant, Kept
  PROVE  EpochComplete
<1>1. SUFFICES ASSUME EosPassed, ~closed, NoCrash, NEW n \in DOMAIN Script
               PROVE  Item(Script[n], epoch, n) \in Past
  BY DEF EpochComplete, NoCrash, Past, Elems
<1>2. Flow /\ AllThere
  BY <1>1 DEF FlowInvariant, Kept
<1>3. PICK e \in Past : e.kind = "eos" /\ e.epoch = epoch
  BY <1>1 DEF EosPassed, Past, Elems
<1>4. e.n = Len(Script) + 1 /\ IsFed(e) /\ Formed(e)
  BY <1>2, <1>3 DEF Flow, FlowOrder, Formed
<1>5. fed.epoch = epoch /\ n <= fed.n
  BY <1>2, <1>3, <1>4, FlowTypes, MappingAssumption DEF IsFed
<1> DEFINE x == Item(Script[n], epoch, n)
<1>6. x \in Everywhere /\ x.epoch = epoch /\ x.n = n /\ n \in Nat /\ n <= Len(Script)
  BY <1>2, <1>5, ItemTypes, MappingAssumption DEF AllThere
<1> HIDE DEF x
<1>7. epoch \in Nat /\ Len(Script) \in Nat
  BY <1>2, FlowTypes, MappingAssumption
<1>8. x \notin Coming
  <2>1. ASSUME x \in Coming PROVE FALSE
    <3>1. Before(e, x)
      BY <1>2, <2>1 DEF Flow, FlowOrder
    <3> QED  BY <1>3, <1>4, <1>6, <1>7, <3>1 DEF Before
  <2> QED  BY <2>1
<1>9. x \notin Inside
  <2>1. ASSUME x \in Inside PROVE FALSE
    <3>1. Follows(e, x)
      BY <1>2, <2>1 DEF Flow, FlowOrder
    <3> QED  BY <1>3, <1>6, <1>7, <3>1 DEF Follows
  <2> QED  BY <2>1
<1> QED  BY <1>6, <1>8, <1>9 DEF Everywhere, x

(* Nothing was fed yet.                                                    *)
LEMMA KeptStarts ==
  ASSUME MappingInit
  PROVE  Kept
<1>1. fed.n = 0 /\ current = 0
  BY DEF MappingInit
<1>2. \A n \in DOMAIN Script : ~(n <= 0)
  BY MappingAssumption
<1> QED  BY <1>1, <1>2 DEF Kept, AllThere, KilledEmpty

(* Behind the end of an epoch nothing of it is missing, unless one of its  *)
(* mappers crashed or the pipeline is closed.                              *)
THEOREM EpochsStayComplete == MappingSpec => [](MappingTypeOK /\ EpochOrdered /\ EpochComplete)
<1> DEFINE Inv == Structure /\ FlowInvariant /\ Kept
<1>1. MappingInit => Inv
  BY StructureStarts, FlowStarts, KeptStarts
<1>2. Inv /\ [MappingNext]_mappingVars => Inv'
  BY StructureStep, FlowStep, KeptStep
<1>3. Inv => MappingTypeOK /\ EpochOrdered /\ EpochComplete
  BY KeptComplete DEF FlowInvariant, Structure
<1> QED  BY <1>1, <1>2, <1>3, PTL DEF MappingSpec

-----------------------------------------------------------------------------
(* Failures: what is reported of a mapper that did not crash               *)

(* Something of the first epoch is still at work, ...                      *)
Early ==
  \/ fed.epoch = 0
  \/ current # 0 /\ mapper[current].epoch = 0
  \/ \E x \in Coming : x.epoch = 0
(* ... a stage still writes to a mapper that a seek killed, ...            *)
KilledInUse ==
  /\ current # 0 /\ mapper[current].killed /\ ~mapper[current].crashed
  /\ decode.at \notin {"release", "ending"}
(* ... and the mark that the first seek set: no flush took it away before  *)
(* all of the first epoch was gone. A later epoch may lose its mark to the *)
(* flush of the seek before, but its mapper was overtaken.                 *)
Marked ==
  /\ \A x \in Coming : x.kind = "flush" => 0 < x.epoch
  /\ Early /\ (0 < epoch \/ flush # "idle") => pending
  /\ KilledInUse => mapper[current].epoch < epoch
(* Only what crashed or was overtaken is reported.                         *)
Blamed == \A m \in Mapper : reports[m] # 0 => mapper[m].crashed \/ Overtaken(m)

(* Nothing new is coming, and a mapper that is taken was not killed.       *)
LEMMA StaysMarked ==
  ASSUME Marked, UNCHANGED <<pending, epoch, fed, flush>>, Coming' \subseteq Coming,
         current' # 0 =>
           \/ current' = current /\ mapper'[current].epoch = mapper[current].epoch
           \/ /\ \E x \in Coming : mapper'[current'].epoch = x.epoch
              /\ ~mapper'[current'].killed,
         KilledInUse' => current' # current \/ KilledInUse
  PROVE  Marked'
<1>1. \A x \in Coming' : x.kind = "flush" => 0 < x.epoch
  BY DEF Marked
<1>2. Early' => Early
  BY DEF Early
<1>3. Early' /\ (0 < epoch' \/ flush' # "idle") => pending'
  BY <1>2 DEF Marked
<1>4. KilledInUse' => mapper'[current'].epoch < epoch'
  BY DEF Marked, KilledInUse
<1> QED  BY <1>1, <1>3, <1>4 DEF Marked

(* The decode thread goes on with what it handles, or is done with it.     *)
LEMMA StaysComing ==
  ASSUME Structure, UNCHANGED inq, NEW p \in DecodePlace, DecodeGoes(p),
         p \in Handled => decode.at \in Handled
  PROVE  Coming' \subseteq Coming
<1>1. decode'.at = p /\ decode'.item = decode.item
  BY Handles, Going
<1> QED  BY <1>1 DEF Coming, Queued, InHand, Elems

(* What was reported stays so.                                             *)
LEMMA StaysBlamed ==
  ASSUME Structure, Blamed, FatesStay, epoch' = epoch \/ epoch' = epoch + 1,
         \A m \in Mapper : reports'[m] # 0 => reports[m] # 0 \/ mapper[m].crashed \/ Overtaken(m)
  PROVE  Blamed'
<1>1. epoch \in Nat
  BY Handles, MappingAssumption DEF PipeTypes, Epoch
<1>2. ASSUME NEW m \in Mapper, reports'[m] # 0 PROVE mapper'[m].crashed \/ Overtaken(m)'
  <2>1. mapper[m].crashed \/ Overtaken(m)
    BY <1>2 DEF Blamed
  <2>2. CASE mapper[m].crashed
    BY <2>2 DEF FatesStay
  <2>3. CASE Overtaken(m)
    <3>1. mapper[m].killed /\ 0 < mapper[m].epoch /\ mapper[m].epoch < epoch
      BY <2>3 DEF Overtaken
    <3>2. mapper'[m].killed /\ mapper'[m].epoch = mapper[m].epoch
      BY <3>1 DEF FatesStay
    <3>3. mapper[m].epoch \in Nat
      BY Handles, ItemTypes DEF MapperTypes, MapperRecord
    <3>4. mapper[m].epoch < epoch'
      BY <1>1, <3>1, <3>3
    <3> QED  BY <3>1, <3>2, <3>4 DEF Overtaken
  <2> QED  BY <2>1, <2>2, <2>3
<1> QED  BY <1>2 DEF Blamed

(* The source, and a seek.                                                 *)
LEMMA OutsideMarked ==
  ASSUME Structure, Flow, Marked, ~closed, Outside, ~closed'
  PROVE  Marked'
<1>0. /\ fed.epoch \in Nat /\ epoch \in Nat /\ fed.epoch <= epoch
      /\ current # 0 => mapper[current].epoch \in Nat /\ mapper[current].epoch <= fed.epoch
  BY FlowTypes DEF Flow, OwnEpoch
<1>1. CASE Feed
  <2> DEFINE n == fed.n + 1
             i == Item(IF n > Len(Script) THEN "eos" ELSE Script[n], fed.epoch, n)
  <2>1. /\ inq' = Append(inq, i) /\ fed'.epoch = fed.epoch
        /\ UNCHANGED <<pending, epoch, flush, decode, current, mapper>>
    <3>1. fed \in [epoch : Epoch, n : 0..Len(Script) + 1]
      BY Handles DEF PipeTypes
    <3> QED  BY <1>1, <3>1 DEF Feed
  <2>2. i \in Items /\ i.kind # "flush" /\ i.epoch = fed.epoch
    <3>1. n \in 0..Len(Script) + 1 /\ n # 0 /\ fed.epoch \in Epoch /\ Len(Script) \in Nat
      BY <1>1, Handles, MappingAssumption DEF Feed, PipeTypes
    <3>2. n <= Len(Script) => Script[n] \in {"video", "aux"}
      BY <3>1, MappingAssumption
    <3> QED  BY <3>1, <3>2 DEF Item, Items
  <2> HIDE DEF i
  <2>3. Coming' = Coming \cup {i}
    <3>1. Queued' = Queued \cup {i}
      BY <2>1, <2>2, Handles, ElemsOf DEF Queued, PipeTypes
    <3> QED  BY <2>1, <3>1 DEF Coming, InHand
  <2>4. Early' => Early
    BY <2>1, <2>2, <2>3 DEF Early
  <2>5. KilledInUse' => KilledInUse
    BY <2>1 DEF KilledInUse
  <2> QED  BY <2>1, <2>2, <2>3, <2>4, <2>5 DEF Marked
<1>2. CASE FlushBegin
  <2>1. pending' = TRUE /\ UNCHANGED <<inq, fed, epoch, decode, current, mapper>>
    BY <1>2 DEF FlushBegin
  <2>2. Coming' = Coming /\ (KilledInUse' => KilledInUse)
    BY <2>1 DEF Coming, Queued, InHand, Elems, KilledInUse
  <2> QED  BY <2>1, <2>2 DEF Marked
<1>3. CASE FlushMark
  <2>1. flush = "mark" /\ epoch' = epoch + 1 /\ UNCHANGED <<inq, fed, pending, decode, current, mapper>>
    BY <1>3 DEF FlushMark
  <2>2. Coming' = Coming /\ (KilledInUse' => KilledInUse)
    BY <2>1 DEF Coming, Queued, InHand, Elems, KilledInUse
  <2>3. Early' => Early
    BY <2>1, <2>2 DEF Early
  <2>4. KilledInUse' => mapper'[current'].epoch < epoch'
    <3>1. KilledInUse' => current # 0 /\ mapper[current].epoch < epoch
      BY <2>2 DEF Marked, KilledInUse
    <3> QED  BY <1>0, <2>1, <3>1
  <2> QED  BY <2>1, <2>2, <2>3, <2>4 DEF Marked
<1>4. CASE FlushKill
  <2>1. /\ flush = "kill" /\ fed.epoch < epoch /\ AllHit /\ current \in 0..MaxMappers
        /\ UNCHANGED <<inq, fed, epoch, pending, decode, current>>
    BY <1>4, Handles, Kills DEF FlushKill, Feeding
  <2>2. Coming' = Coming /\ (current # 0 => mapper'[current].epoch = mapper[current].epoch)
    BY <2>1, Handles DEF Coming, Queued, InHand, Elems, AllHit, Hit, Same
  <2>3. Early' => Early
    BY <2>1, <2>2 DEF Early
  <2>4. KilledInUse' => mapper'[current'].epoch < epoch'
    <3>1. current # 0 => mapper[current].epoch < epoch
      BY <1>0, <2>1
    <3> QED  BY <2>1, <2>2, <3>1 DEF KilledInUse
  <2> QED  BY <2>1, <2>2, <2>3, <2>4 DEF Marked
<1>5. CASE FlushDrain
  <2>1. flush = "drain" /\ inq' = <<>> /\ UNCHANGED <<fed, epoch, pending, decode, current, mapper>>
    BY <1>5 DEF FlushDrain
  <2>2. Coming' \subseteq Coming /\ (KilledInUse' => KilledInUse)
    BY <2>1 DEF Coming, Queued, InHand, Elems, KilledInUse
  <2>3. Early' => Early
    BY <2>1, <2>2 DEF Early
  <2> QED  BY <2>1, <2>2, <2>3 DEF Marked
<1>6. CASE FlushPut
  <2> DEFINE i == Item("flush", epoch, 0)
  <2>1. /\ inq' = Append(inq, i) /\ fed'.epoch = epoch /\ flush = "put" /\ fed.epoch < epoch
        /\ UNCHANGED <<epoch, pending, decode, current, mapper>>
    BY <1>6, Handles DEF FlushPut, Feeding
  <2>2. i \in Items /\ i.epoch = epoch
    BY Handles, MappingAssumption DEF Item, Items, PipeTypes
  <2> HIDE DEF i
  <2>3. Coming' = Coming \cup {i}
    <3>1. Queued' = Queued \cup {i}
      BY <2>1, <2>2, Handles, ElemsOf DEF Queued, PipeTypes
    <3> QED  BY <2>1, <3>1 DEF Coming, InHand
  <2>4. 0 < epoch
    BY <1>0, <2>1
  <2>5. (Early' => Early) /\ (KilledInUse' => KilledInUse)
    BY <1>0, <2>1, <2>2, <2>3, <2>4 DEF Early, KilledInUse
  <2> QED  BY <2>1, <2>2, <2>3, <2>4, <2>5 DEF Marked
<1>7. CASE CloseBegin
  BY <1>7 DEF CloseBegin
<1>8. CASE Closing
  BY <1>8, Handles DEF Closing, CloseStop, CloseKill, CloseJoin, Feeding
<1> QED  BY <1>1, <1>2, <1>3, <1>4, <1>5, <1>6, <1>7, <1>8 DEF Outside, Flushing

(* An item that is handled was queued.                                     *)
LEMMA GetMarked ==
  ASSUME Structure, Marked, Get
  PROVE  Marked'
<1> DEFINE i == Head(inq)
<1>1. /\ UNCHANGED <<current, mapper, pending, epoch, fed, flush>> /\ inq' = Tail(inq) /\ inq # <<>>
      /\ decode.at = "get" /\ inq \in Seq(Items) /\ decode'.item = i
  BY Handles DEF Get, DecodeAt, PipeTypes
<1>2. Queued = Queued' \cup {i}
  BY <1>1, ElemsOf DEF Queued
<1>3. Coming' \subseteq Coming
  BY <1>1, <1>2 DEF Coming, InHand
<1>4. KilledInUse' => KilledInUse
  BY <1>1 DEF KilledInUse
<1> QED  BY <1>1, <1>3, <1>4, StaysMarked

(* A mapper is taken into use for the item at hand.                        *)
LEMMA EnsureMarked ==
  ASSUME Structure, Structure', Flow, Marked, ~closed, Ensure
  PROVE  Marked'
<1>1. UNCHANGED <<inq, pending, epoch, fed, flush>> /\ decode.at = "ensure"
  BY DEF Ensure, pipeVars, DecodeAt
<1>2. PICK p \in {"use", "ending", "start"} : DecodeGoes(p)
  BY DEF Ensure
<1>3. Coming' \subseteq Coming
  BY <1>1, <1>2, StaysComing DEF DecodePlace, Handled
<1>4. CASE UNCHANGED <<current, mapper>>
  <2>1. KilledInUse' => KilledInUse
    BY <1>1, <1>4 DEF KilledInUse
  <2> QED  BY <1>1, <1>3, <1>4, <2>1, StaysMarked
<1>5. CASE ~UNCHANGED <<current, mapper>>
  <2>1. ~mapper'[current'].killed
    BY <1>5, AdoptLives
  <2>2. current = 0 /\ current' # 0 /\ mapper'[current'].epoch = decode.item.epoch
    BY <1>5, AdoptFlow
  <2>3. decode.item \in Coming
    BY <1>1 DEF Coming, InHand, Handled
  <2> QED  BY <1>1, <1>3, <2>1, <2>2, <2>3, StaysMarked
<1> QED  BY <1>4, <1>5

(* What the decode thread does to its mapper while it writes to it.        *)
LEMMA WritesOnly ==
  ASSUME Structure, StartMapper \/ Send \/ Hold \/ Failed
  PROVE  /\ FatesStay /\ UNCHANGED <<pipeVars, current>> /\ current # 0
         /\ mapper'[current].killed = mapper[current].killed
         /\ mapper'[current].crashed = mapper[current].crashed
         /\ mapper'[current].epoch = mapper[current].epoch
<1>1. UNCHANGED <<pipeVars, current>> /\ current # 0
  BY Handles DEF StartMapper, Send, Hold, Failed, DecodeAt, Places
<1>2. CASE UNCHANGED mapper
  BY <1>1, <1>2, Handles, Kills, StayFates
<1>3. CASE ~UNCHANGED mapper
  <2> DEFINE r == mapper[current]
  <2>1. PICK q \in MapperRecord : /\ Set(current, q) /\ q.epoch = r.epoch
                                  /\ q.crashed = r.crashed /\ q.killed = r.killed
    <3>1. CASE StartMapper
      <4>1. Set(current, WithReader(r, "reading"))
        BY <1>3, <3>1 DEF StartMapper, WithReader
      <4>2. /\ WithReader(r, "reading") \in MapperRecord /\ SameCargo(r, WithReader(r, "reading"))
            /\ SameFlags(r, WithReader(r, "reading"))
        BY <1>1, Handles, WithReaderHas
      <4> QED  BY <4>1, <4>2 DEF SameFlags, SameCargo
    <3>2. CASE Send
      <4>1. Set(current, WithPacket(r, decode.item.n))
        BY <1>3, <3>2 DEF Send, WithPacket
      <4>2. /\ WithPacket(r, decode.item.n) \in MapperRecord
            /\ WithPacket(r, decode.item.n).epoch = r.epoch
            /\ SameFlags(r, WithPacket(r, decode.item.n))
        BY <1>1, Handles, WithPacketHas
      <4> QED  BY <4>1, <4>2 DEF SameFlags
    <3>3. CASE Hold
      <4>1. Set(current, WithItem(r, decode.item))
        BY <1>3, <3>3 DEF Hold, WithItem
      <4>2. /\ WithItem(r, decode.item) \in MapperRecord
            /\ WithItem(r, decode.item).epoch = r.epoch
            /\ SameFlags(r, WithItem(r, decode.item))
        BY <1>1, Handles, WithItemHas
      <4> QED  BY <4>1, <4>2 DEF SameFlags
    <3>4. CASE Failed
      <4>1. Set(current, Claimed(r))
        BY <1>3, <3>4 DEF Failed, Claimed
      <4>2. /\ Claimed(r) \in MapperRecord /\ Claimed(r).crashed = r.crashed
            /\ Claimed(r).epoch = r.epoch /\ Claimed(r).killed = r.killed
        BY <1>1, Handles, ClaimedHas DEF SameCargo
      <4> QED  BY <4>1, <4>2
    <3> QED  BY <3>1, <3>2, <3>3, <3>4
  <2>2. mapper'[current] = q /\ \A k \in Mapper : k # current => mapper'[k] = mapper[k]
    BY <1>1, <2>1, Handles, Replaced
  <2>3. FatesStay
    BY <1>1, <2>1, Handles, StayFates
  <2> QED  BY <1>1, <2>1, <2>2, <2>3
<1> QED  BY <1>2, <1>3

(* The decode thread kills a mapper it still uses only once it crashed, or *)
(* was killed before; and takes the mark away behind the first epoch.      *)
LEMMA DecodeMarked ==
  ASSUME Structure, Flow, Marked, ~closed,
         StartMapper \/ StartSpare \/ Send \/ Hold \/ Finish \/ Drained \/ DrainTimesOut \/ Failed
           \/ ReleaseKills \/ ReleaseMapper \/ Pass \/ End
  PROVE  Marked'
<1>1. ASSUME UNCHANGED pipeVars, NEW p \in DecodePlace, DecodeGoes(p),
             p \in Handled => decode.at \in Handled,
             current' # 0 => current' = current /\ mapper'[current].epoch = mapper[current].epoch,
             KilledInUse' => KilledInUse
      PROVE  Marked'
  BY <1>1, StaysComing, StaysMarked DEF pipeVars
<1>2. CASE StartMapper \/ Send \/ Hold \/ Failed
  <2>1. /\ UNCHANGED <<pipeVars, current>> /\ current # 0
        /\ mapper'[current].killed = mapper[current].killed
        /\ mapper'[current].crashed = mapper[current].crashed
        /\ mapper'[current].epoch = mapper[current].epoch
    BY <1>2, WritesOnly
  <2>2. decode.at \in {"start", "use", "failed"}
    BY <1>2 DEF StartMapper, Send, Hold, Failed, DecodeAt
  <2>3. PICK p \in {"spare", "failed", "get", "release", "ending"} : DecodeGoes(p)
    BY <1>2 DEF StartMapper, Send, Hold, Failed
  <2>4. KilledInUse' => KilledInUse
    BY <2>1, <2>2 DEF KilledInUse
  <2> QED  BY <1>1, <2>1, <2>2, <2>3, <2>4 DEF DecodePlace, Handled
<1>3. CASE StartSpare
  <2>1. /\ decode.at = "spare" /\ current' = current /\ DecodeGoes("use") /\ UNCHANGED pipeVars
    BY <1>3 DEF StartSpare, DecodeAt
  <2>2. mapper'[current] = mapper[current]
    BY <1>3, SpareLeaves
  <2>3. KilledInUse' => KilledInUse
    BY <2>1, <2>2 DEF KilledInUse
  <2> QED  BY <1>1, <2>1, <2>2, <2>3 DEF DecodePlace, Handled
<1>4. CASE Finish
  <2>1. /\ decode.at = "use" /\ current # 0 /\ UNCHANGED <<pipeVars, current>>
        /\ Life(mapper[current])
    BY <1>4, Handles DEF Finish, DecodeAt, Places
  <2>2. PICK p \in {"failed", "drain"} : DecodeGoes(p)
    BY <1>4 DEF Finish
  <2>3. FatesStay /\ (mapper'[current].killed => mapper[current].killed \/ mapper[current].crashed)
    BY <1>4, <2>1, FinishLeaves DEF Life
  <2>4. KilledInUse' => KilledInUse
    BY <2>1, <2>3, Handles DEF KilledInUse, FatesStay
  <2>5. mapper'[current].epoch = mapper[current].epoch
    BY <1>4, <2>1, DecodeQuiet DEF Quiet, CargoKept
  <2> QED  BY <1>1, <2>1, <2>2, <2>4, <2>5 DEF DecodePlace, Handled
<1>5. CASE Drained \/ DrainTimesOut
  <2>1. /\ decode.at = "drain" /\ UNCHANGED <<pipeVars, current>> /\ AllHit /\ current \in Mapper
    BY <1>5, Handles, Kills DEF Drained, DrainTimesOut, DecodeAt, Places
  <2>2. PICK p \in {"release", "failed"} : DecodeGoes(p) /\ (p = "failed" => mapper[current].crashed)
    BY <1>5 DEF Drained, DrainTimesOut
  <2>3. decode'.at = p
    BY <2>2, Handles, Going DEF DecodePlace
  <2>4. Same(mapper[current], mapper'[current])
    BY <2>1 DEF AllHit, Hit
  <2>5. ~KilledInUse'
    BY <2>1, <2>2, <2>3, <2>4 DEF KilledInUse, Same
  <2> QED  BY <1>1, <2>1, <2>2, <2>4, <2>5 DEF DecodePlace, Handled, Same
<1>6. CASE ReleaseKills
  <2>1. UNCHANGED <<pipeVars, current, decode>> /\ decode.at \in {"release", "ending"}
    BY <1>6 DEF ReleaseKills
  <2>2. AllHit
    <3>1. \/ mapper' = Killed(Killed(mapper, current), spare)
          \/ mapper' = Killed(mapper, current)
      BY <1>6 DEF ReleaseKills
    <3> QED  BY <3>1, Handles, Kills
  <2>3. current # 0 => mapper'[current].epoch = mapper[current].epoch
    BY <2>2, Handles DEF AllHit, Hit, Same
  <2>4. ~KilledInUse'
    BY <2>1 DEF KilledInUse
  <2>5. Coming' \subseteq Coming
    BY <2>1 DEF Coming, Queued, InHand, Elems, pipeVars
  <2> QED  BY <2>1, <2>3, <2>4, <2>5, StaysMarked DEF pipeVars
<1>7. CASE ReleaseMapper \/ End \/ Pass
  <2>1. UNCHANGED <<inq, fed, epoch, flush, mapper>> /\ current' = 0
    BY <1>7, Handles DEF ReleaseMapper, End, Pass, pipeVars, DecodeAt, Places
  <2>2. PICK p \in {"pass", "ended", "get"} : DecodeGoes(p) /\ (p = "pass" => decode.at = "release")
    BY <1>7 DEF ReleaseMapper, End, Pass, DecodeAt
  <2>3. Coming' \subseteq Coming
    BY <2>1, <2>2, StaysComing DEF DecodePlace, Handled
  <2>4. ~KilledInUse'
    BY <2>1 DEF KilledInUse
  <2>5. CASE UNCHANGED pending
    BY <2>1, <2>3, <2>4, <2>5, StaysMarked
  <2>6. CASE ~UNCHANGED pending
    <3>1. decode.at = "release" /\ decode.item.kind = "flush"
      BY <1>7, <2>6, Handles DEF ReleaseMapper, End, Pass, pipeVars, DecodeAt, PipeTypes
    <3>2. decode.item \in InHand /\ decode.item \in Coming
      BY <3>1 DEF InHand, Handled, Coming
    <3>3. 0 < decode.item.epoch /\ decode.item.epoch \in Nat
      BY <3>1, <3>2, FlowTypes, ItemTypes DEF Marked
    <3>4. fed.epoch # 0
      BY <3>2, <3>3, FlowTypes
    <3>5. ASSUME NEW x \in Coming PROVE x.epoch # 0
      <4>1. CASE x \in InHand
        BY <3>3, <4>1 DEF InHand
      <4>2. CASE x \in Queued
        <5>1. Before(decode.item, x)
          BY <3>2, <4>2 DEF Flow, QueueOrder
        <5>2. x.epoch \in Nat
          BY FlowTypes, ItemTypes
        <5> QED  BY <3>3, <5>1, <5>2 DEF Before
      <4> QED  BY <4>1, <4>2 DEF Coming
    <3>6. ~Early'
      BY <2>1, <2>3, <3>4, <3>5 DEF Early
    <3> QED  BY <2>3, <2>4, <3>6 DEF Marked
  <2> QED  BY <2>5, <2>6
<1> QED  BY <1>2, <1>3, <1>4, <1>5, <1>6, <1>7

(* A reader kills no mapper that lives.                                    *)
LEMMA ReaderMarked ==
  ASSUME Structure, Marked, NEW m \in Mapper, Reader(m)
  PROVE  Marked'
<1>1. m = current /\ current # 0 /\ UNCHANGED <<pipeVars, decode, current>>
  BY ReaderLeaves
<1>2. PICK q \in MapperRecord :
        /\ Set(m, q) /\ q.epoch = mapper[m].epoch /\ q.crashed = mapper[m].crashed
        /\ q.killed => mapper[m].killed \/ mapper[m].crashed
  BY ReaderLeaves
<1>3. mapper'[m] = q
  BY <1>2, Handles, Replaced
<1>4. KilledInUse' => KilledInUse
  BY <1>1, <1>2, <1>3 DEF KilledInUse
<1>5. Coming' \subseteq Coming
  BY <1>1 DEF Coming, Queued, InHand, Elems, pipeVars
<1> QED  BY <1>1, <1>2, <1>3, <1>4, <1>5, StaysMarked DEF pipeVars

(* Nor does a crash.                                                       *)
LEMMA CrashMarked ==
  ASSUME Structure, Marked, NEW m \in Mapper, MapperCrash(m)
  PROVE  Marked'
<1> DEFINE q == ProcessCrashed(mapper[m])
<1>1. UNCHANGED <<pipeVars, decode, current>> /\ Set(m, q) /\ mapper[m] \in MapperRecord
  BY Handles DEF MapperCrash, ProcessCrashed, ByReader, MapperTypes
<1>2. q \in MapperRecord /\ q.epoch = mapper[m].epoch /\ q.crashed = TRUE
  BY <1>1, ProcessCrashedHas DEF SameCargo
<1> HIDE DEF q
<1>3. mapper'[m] = q /\ \A k \in Mapper : k # m => mapper'[k] = mapper[k]
  BY <1>1, <1>2, Handles, Replaced
<1>4. KilledInUse' => KilledInUse
  BY <1>1, <1>2, <1>3, Handles DEF KilledInUse
<1>5. Coming' \subseteq Coming
  BY <1>1 DEF Coming, Queued, InHand, Elems, pipeVars
<1>6. current # 0 => mapper'[current].epoch = mapper[current].epoch
  BY <1>2, <1>3, Handles
<1> QED  BY <1>1, <1>4, <1>5, <1>6, StaysMarked DEF pipeVars

(* Every step keeps the mark where it is needed.                           *)
LEMMA MarkedStep ==
  ASSUME Structure, Structure', FlowInvariant, ~closed => Marked, [MappingNext]_mappingVars
  PROVE  ~closed' => Marked'
<1>1. SUFFICES ASSUME ~closed' PROVE Marked'
  OBVIOUS
<1>2. ~closed /\ Flow /\ Marked
  BY <1>1, ClosedStays DEF FlowInvariant
<1>3. CASE UNCHANGED mappingVars
  <2>1. Coming' = Coming /\ (KilledInUse' <=> KilledInUse)
    BY <1>3 DEF Coming, InHand, KilledInUse, Queued, Elems, mappingVars, pipeVars
  <2> QED  BY <1>2, <1>3, <2>1, StaysMarked DEF mappingVars, pipeVars
<1>4. CASE Outside
  BY <1>1, <1>2, <1>4, OutsideMarked
<1>5. CASE Decode
  BY <1>2, <1>5, GetMarked, EnsureMarked, DecodeMarked DEF Decode
<1>6. CASE \E m \in Mapper : Reader(m) \/ MapperCrash(m)
  BY <1>2, <1>6, ReaderMarked, CrashMarked
<1> QED  BY <1>3, <1>4, <1>5, <1>6 DEF MappingNext, Outside

(* No step forgets a crash or a kill.                                      *)
LEMMA FatesKept ==
  ASSUME Structure, [MappingNext]_mappingVars
  PROVE  FatesStay /\ (epoch' = epoch \/ epoch' = epoch + 1)
<1>1. CASE Outside \/ UNCHANGED mappingVars
  <2>1. AllHit /\ (epoch' = epoch \/ epoch' = epoch + 1)
    BY <1>1, Handles, Kills DEF mappingVars, pipeVars, Outside, Flushing, Closing, Feed, FlushBegin,
       FlushMark, FlushKill, FlushDrain, FlushPut, CloseBegin, CloseStop, CloseKill, CloseJoin
  <2> QED  BY <2>1, StayFates
<1>2. CASE Decode
  <2>1. epoch' = epoch
    BY <1>2 DEF Decode, Get, Ensure, StartMapper, StartSpare, Send, Hold, Finish, Drained,
       DrainTimesOut, Failed, ReleaseKills, ReleaseMapper, Pass, End, pipeVars
  <2>2. CASE StartMapper \/ Send \/ Hold \/ Failed
    BY <2>1, <2>2, WritesOnly
  <2>3. CASE StartSpare \/ Finish
    BY <2>1, <2>3, SpareLeaves, FinishLeaves
  <2>4. CASE Ensure
    <3>1. CASE UNCHANGED <<current, mapper>>
      BY <2>1, <3>1, Handles, Kills, StayFates
    <3>2. CASE ~UNCHANGED <<current, mapper>>
      BY <2>1, <2>4, <3>2, AdoptLives
    <3> QED  BY <3>1, <3>2
  <2>5. CASE Get \/ Drained \/ DrainTimesOut \/ ReleaseKills \/ ReleaseMapper \/ Pass \/ End
    <3>1. \/ UNCHANGED mapper \/ mapper' = Killed(mapper, current)
          \/ mapper' = Killed(Killed(mapper, current), spare)
      BY <2>5 DEF Get, Drained, DrainTimesOut, ReleaseKills, ReleaseMapper, Pass, End
    <3> QED  BY <2>1, <3>1, Handles, Kills, StayFates
  <2> QED  BY <1>2, <2>2, <2>3, <2>4, <2>5 DEF Decode
<1>3. ASSUME NEW m \in Mapper, Reader(m) PROVE FatesStay /\ epoch' = epoch
  <2>1. PICK q \in MapperRecord :
          /\ Set(m, q) /\ q.epoch = mapper[m].epoch /\ q.crashed = mapper[m].crashed
          /\ mapper[m].killed => q.killed
    BY <1>3, ReaderLeaves
  <2>2. epoch' = epoch
    BY <1>3, ReaderLeaves DEF pipeVars
  <2> QED  BY <2>1, <2>2, StayFates
<1>4. ASSUME NEW m \in Mapper, MapperCrash(m) PROVE FatesStay /\ epoch' = epoch
  <2>1. /\ ProcessCrashed(mapper[m]) \in MapperRecord
        /\ ProcessCrashed(mapper[m]).epoch = mapper[m].epoch
        /\ ProcessCrashed(mapper[m]).crashed = TRUE
        /\ ProcessCrashed(mapper[m]).killed = mapper[m].killed
    BY Handles, ProcessCrashedHas DEF SameCargo, MapperTypes
  <2>2. Set(m, ProcessCrashed(mapper[m])) /\ epoch' = epoch
    BY <1>4 DEF MapperCrash, ProcessCrashed, ByReader, pipeVars
  <2> QED  BY <2>1, <2>2, StayFates
<1> QED  BY <1>1, <1>2, <1>3, <1>4 DEF MappingNext, Outside

(* Every step reports what crashed or was overtaken only.                  *)
LEMMA BlamedStep ==
  ASSUME Structure, ~closed => Marked, Blamed, [MappingNext]_mappingVars
  PROVE  Blamed'
<1>1. CASE Failed /\ ~UNCHANGED reports
  <2>1. /\ ~pending /\ ~closed /\ reports' = [reports EXCEPT ![current] = @ + 1]
        /\ decode.at = "failed"
    BY <1>1 DEF Failed, DecodeAt
  <2>2. /\ current # 0 /\ mapper[current].proc = "dead" /\ Life(mapper[current])
        /\ mapper[current].epoch \in Nat
    BY <2>1, Handles, ItemTypes DEF Places, MapperRecord
  <2>3. mapper[current].crashed \/ Overtaken(current)
    <3>1. SUFFICES ASSUME ~mapper[current].crashed PROVE Overtaken(current)
      OBVIOUS
    <3>2. mapper[current].killed
      BY <2>2, <3>1 DEF Life
    <3>3. mapper[current].epoch < epoch
      BY <2>1, <2>2, <3>1, <3>2 DEF Marked, KilledInUse
    <3>4. mapper[current].epoch # 0
      BY <2>1, <2>2, <3>3 DEF Marked, Early
    <3> QED  BY <2>2, <3>2, <3>3, <3>4 DEF Overtaken
  <2>4. \A m \in Mapper : m # current => reports'[m] = reports[m]
    BY <2>1, Handles DEF OtherTypes
  <2> QED  BY <2>3, <2>4, FatesKept, StaysBlamed
<1>2. CASE \E m \in Mapper : Reader(m)
  BY <1>2, FatesKept, ReaderLeaves, StaysBlamed
<1>3. CASE UNCHANGED reports
  BY <1>3, FatesKept, StaysBlamed
<1>4. Failed \/ (\E m \in Mapper : Reader(m)) \/ UNCHANGED reports
  BY DEF MappingNext, Flushing, Closing, Decode, Feed, FlushBegin, FlushMark, FlushKill,
     FlushDrain, FlushPut, CloseBegin, CloseStop, CloseKill, CloseJoin, Get, Ensure, StartMapper,
     StartSpare, Send, Hold, Finish, Drained, DrainTimesOut, ReleaseKills, ReleaseMapper, Pass, End,
     MapperCrash, mappingVars
<1> QED  BY <1>1, <1>2, <1>3, <1>4

(* The parts, all together.                                                *)
WholeInvariant ==
  Structure /\ FlowInvariant /\ Kept /\ (~closed => Marked) /\ Blamed

(* They hold in an idle pipeline.                                          *)
LEMMA WholeStarts ==
  ASSUME MappingInit
  PROVE  WholeInvariant
<1>1. Marked
  <2>1. Coming = {}
    BY ElemsOf DEF MappingInit, Coming, Queued, InHand, Handled, Elems
  <2> QED  BY <2>1 DEF MappingInit, Marked, KilledInUse
<1>2. Blamed
  BY DEF MappingInit, Blamed
<1> QED  BY <1>1, <1>2, StructureStarts, FlowStarts, KeptStarts DEF WholeInvariant

(* They make an epoch whole.                                               *)
LEMMA WholeImplies ==
  ASSUME WholeInvariant
  PROVE  EpochWhole
<1>1. EpochOrdered /\ EpochComplete
  BY KeptComplete DEF WholeInvariant, FlowInvariant
<1>2. ReportedOnce
  BY Handles DEF WholeInvariant, ReportedOnce, Blamed, OtherTypes
<1> QED  BY <1>1, <1>2 DEF EpochWhole

(* An epoch keeps its promise for every script, number of seeks, mappers   *)
(* and crashes, in whatever way seeks overlap: its items go downstream in  *)
(* order and all of them, and a mapper is reported once, and only if it    *)
(* crashed or was killed by a later seek that a flush before it unmarked.  *)
THEOREM EpochsStayWhole == MappingSpec => []EpochWhole
<1>1. MappingInit => WholeInvariant
  BY WholeStarts
<1>2. WholeInvariant /\ [MappingNext]_mappingVars => WholeInvariant'
  BY StructureStep, FlowStep, KeptStep, MarkedStep, BlamedStep DEF WholeInvariant
<1>3. WholeInvariant => EpochWhole
  BY WholeImplies
<1> QED  BY <1>1, <1>2, <1>3, PTL DEF MappingSpec
=============================================================================
