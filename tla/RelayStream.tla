----------------------------- MODULE RelayStream -----------------------------
(***************************************************************************)
(* One session that plays a file of the server's library, end to end: the  *)
(* source task and the feeds it leaves behind on executor threads, the     *)
(* pipeline, the downlink queue and its writer, the client's buffer and    *)
(* its reports, and the seeks and the close that cut through all of it     *)
(* (relay_server/session.py, _run_downlink of relay_server/server.py).     *)
(*                                                                         *)
(* It starts when the downlink has attached. How a session gets there and  *)
(* how it is released afterwards is the subject of SessionLifecycle; here  *)
(* a close is what it means to the stream.                                 *)
(***************************************************************************)
EXTENDS Pipeline

CONSTANTS Keyframes,    \* the video positions a decoder can start at
          DownDepth,    \* room in the downlink queue (256 packets, 128 MiB)
          MayClose      \* may the client leave?

ASSUME RelayAssumption ==
  /\ {InputDepth, StageDepth, DownDepth, Delay} \subseteq Nat
  /\ InputDepth >= 3 /\ StageDepth >= 1 /\ DownDepth >= 1
  /\ Keyframes \subseteq Position \ Auxiliary /\ 1 \in Keyframes
  /\ MayFail \in BOOLEAN /\ MayClose \in BOOLEAN

VARIABLES
  epoch,                \* Session.epoch
  seek,                 \* where handle_seek is
  source,               \* the source task: running, for which epoch, from which position
  feeds,                \* packets in blocking feeds on executor threads
  down_q,
  client,               \* has the client that much to play?
  stream                \* what the client has received (history)

sessionVars == <<epoch, seek, source, feeds, down_q, client, stream>>
vars == <<pipelineVars, sessionVars>>

(* merged_packets and the EOS after it: video from the keyframe before the *)
(* target, auxiliary packets from the target, in the order of the file.    *)
KeyframeBefore(t) == CHOOSE k \in Keyframes :
                       k <= t /\ \A l \in Keyframes : l <= t => l <= k
Merged(e) ==
  {p \in Position : p >= IF p \in Auxiliary THEN Target[e] ELSE KeyframeBefore(Target[e])}
ReadItem(e, p) ==
  IF p = Trailer THEN [kind |-> "eos", epoch |-> e, pos |-> 0]
  ELSE [kind |-> IF p \in Auxiliary THEN "aux" ELSE "video", epoch |-> e, pos |-> p]

TypeOK ==
  /\ PipelineTypeOK
  /\ epoch \in Epoch
  /\ seek \in {"idle", "drain", "source", "flush", "restart"}
  /\ source \in [on : BOOLEAN, epoch : Epoch, next : 1..Length + 2]
  /\ feeds \subseteq Item
  /\ down_q \in Seq(Chunk) /\ Len(down_q) <= DownDepth
  /\ client \in BOOLEAN
  /\ stream \in [epoch : Epoch, data : Seq(0..Trailer), eos : BOOLEAN]

Init ==
  /\ PipelineInit
  /\ epoch = 0
  /\ seek = "idle"
  /\ source = [on |-> TRUE, epoch |-> 0, next |-> 1]
  /\ feeds = {}
  /\ down_q = <<>>
  /\ client = FALSE
  /\ stream = [epoch |-> 0, data |-> <<>>, eos |-> FALSE]

-----------------------------------------------------------------------------
(* The source task, _server_source_loop.                                   *)

Feeding == \E f \in feeds : f.epoch = source.epoch

SourceFeed ==
  /\ source.on /\ ~Feeding
  /\ \E p \in Merged(source.epoch) \cup {Trailer} :
       /\ p >= source.next /\ \A r \in Merged(source.epoch) : r < source.next \/ p <= r
       /\ feeds' = feeds \cup {ReadItem(source.epoch, p)}
       /\ source' = [source EXCEPT !.next = p + 1]
  /\ UNCHANGED <<pipelineVars, epoch, seek, down_q, client, stream>>

(* A plausible bug: a last batch that is full ends without an EOS.         *)
SourceEndEarly ==
  /\ source.on /\ ~Feeding
  /\ source.next >= Trailer \/ source.epoch # epoch
  /\ source' = [source EXCEPT !.on = FALSE]
  /\ UNCHANGED <<pipelineVars, epoch, seek, feeds, down_q, client, stream>>

(* It ends after the EOS, or when it looks at the epoch between batches.   *)
SourceEnd ==
  /\ source.on /\ ~Feeding
  /\ source.next > Trailer \/ source.epoch # epoch
  /\ source' = [source EXCEPT !.on = FALSE]
  /\ UNCHANGED <<pipelineVars, epoch, seek, feeds, down_q, client, stream>>

(* Pipeline.feed in its thread, which outlives a cancelled source task.    *)
Feed(f) ==
  /\ f \in feeds
  /\ \/ Room("in") /\ Put("in", f)
     \/ closed /\ UNCHANGED queue
  /\ feeds' = feeds \ {f}
  /\ UNCHANGED <<epoch_, flush_pending, closed, late, buffered, decodeVars, inferVars,
                 finishVars, flushVars, close, epoch, seek, source, down_q, client,
                 stream>>

-----------------------------------------------------------------------------
(* Session._emit_downlink, called by pl-finish, and the writer.            *)

SessionClosed == close # "open"

NextChunk == /\ chunks' = Tail(chunks)
             /\ finish' = IF Tail(chunks) = <<>> THEN "get" ELSE "emit"

EmitCheck ==
  /\ finish = "emit"
  /\ IF SessionClosed \/ Head(chunks).epoch < epoch
       THEN NextChunk
       ELSE finish' = "deliver" /\ UNCHANGED chunks
  /\ UNCHANGED <<queueVars, buffered, decodeVars, inferVars, encoder, header, sink,
                 need_discontinuity, flushVars, close, sessionVars>>

(* A plausible bug: a put scheduled without waiting for room, which is     *)
(* what the comment on _emit_downlink warns of.                            *)
EmitDeliverUnbounded ==
  /\ finish = "deliver"
  /\ down_q' = Append(down_q, Head(chunks))
  /\ NextChunk
  /\ UNCHANGED <<queueVars, buffered, decodeVars, inferVars, encoder, header, sink,
                 need_discontinuity, flushVars, close, epoch, seek, source, feeds, client,
                 stream>>

(* The put completes on the event loop, or is abandoned: the session was   *)
(* closed or the chunk became stale while it waited.                       *)
EmitDeliver ==
  /\ finish = "deliver"
  /\ \/ /\ ~SessionClosed /\ Len(down_q) < DownDepth
        /\ down_q' = Append(down_q, Head(chunks))
     \/ /\ SessionClosed \/ Head(chunks).epoch < epoch
        /\ UNCHANGED down_q
  /\ NextChunk
  /\ UNCHANGED <<queueVars, buffered, decodeVars, inferVars, encoder, header, sink,
                 need_discontinuity, flushVars, close, epoch, seek, source, feeds, client,
                 stream>>

(* A chunk of a newer epoch than the last begins a stream. Video gives the *)
(* client something to play.                                               *)
Write(chunk) ==
  /\ stream' = [epoch |-> chunk.epoch, eos |-> chunk.eos,
                data |-> IF chunk.epoch = stream.epoch THEN stream.data \o chunk.data
                                                       ELSE chunk.data]
  /\ client' \in IF chunk.data = <<>> THEN {client} ELSE {client, TRUE}

RunDownlink ==
  /\ ~SessionClosed
  /\ down_q # <<>>
  /\ down_q' = Tail(down_q)
  /\ IF Head(down_q).epoch < epoch THEN UNCHANGED <<client, stream>>
                                   ELSE Write(Head(down_q))
  /\ UNCHANGED <<pipelineVars, epoch, seek, source, feeds>>

-----------------------------------------------------------------------------
(* The client plays, and reports how much it has buffered. The control     *)
(* handler takes one message at a time, so no report is read in a seek.    *)

Play ==
  /\ client /\ ~SessionClosed
  /\ client' = FALSE
  /\ UNCHANGED <<pipelineVars, epoch, seek, source, feeds, down_q, stream>>

BufferReport ==
  /\ seek = "idle" /\ ~SessionClosed
  /\ buffered # client
  /\ buffered' = client
  /\ UNCHANGED <<queueVars, decodeVars, inferVars, finishVars, flushVars, close,
                 sessionVars>>

-----------------------------------------------------------------------------
(* handle_seek, from one await to the next. The pipeline is the one it     *)
(* found: a close that takes it away ends the handler, or its last step.   *)

SeekBegin ==
  /\ seek = "idle" /\ ~SessionClosed
  /\ epoch < MaxEpoch
  /\ seek' = "drain"
  /\ epoch' = epoch + 1
  /\ client' = FALSE
  /\ UNCHANGED <<pipelineVars, source, feeds, down_q, stream>>

PipelineTaken == close \notin {"open", "announced"}

SeekDrain ==
  /\ seek = "drain" /\ ~PipelineTaken
  /\ seek' = "source"
  /\ down_q' = <<>>
  /\ buffered' = FALSE
  /\ source' = [source EXCEPT !.on = FALSE]
  /\ UNCHANGED <<queueVars, decodeVars, inferVars, finishVars, flushVars, close, epoch,
                 feeds, client, stream>>

SeekFlush ==
  /\ seek = "source" /\ ~PipelineTaken
  /\ seek' = "flush"
  /\ flush' = "called" /\ flush_epoch' = epoch
  /\ UNCHANGED <<queueVars, buffered, decodeVars, inferVars, finishVars, close, epoch,
                 source, feeds, down_q, client, stream>>

SeekRestart ==
  /\ seek = "flush" /\ flush = "idle"
  /\ seek' = "idle"
  /\ source' = IF SessionClosed THEN source
               ELSE [on |-> TRUE, epoch |-> epoch, next |-> 1]
  /\ UNCHANGED <<pipelineVars, epoch, feeds, down_q, client, stream>>

(* self.pipeline is None: the handler raises and goes.                     *)
SeekAborts ==
  /\ seek \in {"drain", "source"} /\ PipelineTaken
  /\ seek' = "idle"
  /\ UNCHANGED <<pipelineVars, epoch, source, feeds, down_q, client, stream>>

(* Session.close: asked for by the client, by a stage that failed, or by a *)
(* downlink that has taken nothing for 30 s.                               *)
CloseAnnounce ==
  /\ close = "open"
  /\ \/ MayClose
     \/ StageDied
     \/ MayFail /\ finish = "deliver" /\ Len(down_q) = DownDepth
  /\ close' = "announced"
  /\ source' = [source EXCEPT !.on = FALSE]
  /\ UNCHANGED <<queueVars, buffered, decodeVars, inferVars, finishVars, flushVars, epoch,
                 seek, feeds, down_q, client, stream>>

-----------------------------------------------------------------------------

SourceStep == SourceFeed \/ SourceEnd
SeekStep == SeekDrain \/ SeekFlush \/ SeekRestart \/ SeekAborts
EmitStep == EmitCheck \/ EmitDeliver
ClientStep == Play \/ BufferReport
PipelineStep == DecodeStep \/ InferStep \/ FinishStep \/ FlushStep \/ CloseStep

GoesOn == \/ PipelineStep /\ UNCHANGED sessionVars
          \/ SourceStep \/ (\E f \in feeds : Feed(f)) \/ EmitStep \/ RunDownlink
          \/ ClientStep \/ SeekStep
          \/ StageDied /\ CloseAnnounce

Next == GoesOn \/ (FailStep /\ UNCHANGED sessionVars) \/ SeekBegin \/ CloseAnnounce

Spec == Init /\ [][Next]_vars

(* Whatever can go on does: threads, tasks and native calls run, and the   *)
(* client plays what it has and reports. Nothing is assumed of the user or *)
(* of failures, but a stage that died is reported, and closes the session. *)
(* (One conjunct is enough: no step can be taken for ever, so that some    *)
(* step is always taken implies that every thread goes on.)                *)
Fairness == WF_vars(GoesOn)

FairSpec == Spec /\ Fairness

-----------------------------------------------------------------------------
(* What the code promises.                                                 *)

(* The client receives what EpochStream says: a stream to an epoch, whole  *)
(* and in order from its target, whatever packets, frames and chunks of    *)
(* older epochs are under way in the queues and threads when it seeks.     *)
Promise == INSTANCE EpochStream WITH asked <- epoch
EpochStreams == Promise!Spec

(* The discontinuity flag marks the chunk that begins a container, and no  *)
(* other: the client opens a fresh file there and nowhere else.            *)
InFlight == down_q \o chunks
OpensOnce == ~SessionClosed =>
  \A i \in DOMAIN InFlight :
    InFlight[i].discontinuity <=>
      InFlight[i].data # <<>> /\ Head(InFlight[i].data) = Header

(* The newest seek is served to its end, unless the session closes: no     *)
(* queue, pacing pause or pending delivery holds it up for ever, and no    *)
(* packet of it is lost to the flush.                                      *)
EndDelivered == []<>(SessionClosed \/ (stream.epoch = epoch /\ stream.eos))

(* A close that begins while no flush is at work ends: all three threads   *)
(* leave, whatever they wait for and whichever of them has died.           *)
CloseCompletes == (close = "drain_in" /\ flush = "idle") ~> (close = "done")

-----------------------------------------------------------------------------
(* What a comment says and the code does not do.                           *)

(* pipeline.py, Pipeline.close: every stage is woken directly. With the    *)
(* input queue retired, pl-decode has ended or will find the stop in it;   *)
(* but a flush at work may take the stop for old input.                    *)
DecodeWoken ==
  close \in {"drain_dec", "stop_dec", "drain_up", "stop_up", "join"} =>
    \/ decode \in {"leave", "exit"}
    \/ decoded = <<Stop>>
    \/ \E i \in DOMAIN queue["in"] : queue["in"][i] = Stop
=============================================================================
