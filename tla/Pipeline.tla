------------------------------ MODULE Pipeline ------------------------------
(***************************************************************************)
(* relay_server/pipeline.py: three threads (decode, infer, finish) joined  *)
(* by bounded queues, the flush of a seek and the close of the session,    *)
(* which reach into the queues from threads of their own.                  *)
(*                                                                         *)
(* An action is what one thread does between two of its queue operations.  *)
(* A packet is its epoch and its position in the source file; pixels,      *)
(* colour, tracing and statistics are left out. The decoder and the        *)
(* encoder each hold back the last Delay frames they were given. Display   *)
(* mapping (decoding in an external process) is left out.                  *)
(***************************************************************************)
EXTENDS Integers, Sequences, SequencesExt

CONSTANTS Length, Auxiliary, MaxEpoch, Target,   \* as in EpochStream
          InputDepth,   \* room in the input queue (256 packets, 128 MiB)
          StageDepth,   \* _QUEUE_DEPTH
          Delay,        \* frames a codec holds back
          MayFail       \* may a stage raise an exception?

Position == 1..Length
Epoch == 0..MaxEpoch

ASSUME FileAssumption ==
  /\ Length \in Nat \ {0}
  /\ Auxiliary \subseteq Position
  /\ MaxEpoch \in Nat
  /\ Target \in [Epoch -> Position]

Header == 0
Trailer == Length + 1
QueueName == {"in", "dec", "up"}
Depth == [q \in QueueName |-> IF q = "in" THEN InputDepth ELSE StageDepth]

(* Items of the queues; "frame" is a decoded one.                          *)
Item == [kind : {"video", "aux", "frame"}, epoch : Epoch, pos : Position]
          \cup [kind : {"eos", "flush", "stop"}, epoch : Epoch, pos : {0}]
Stop == [kind |-> "stop", epoch |-> 0, pos |-> 0]
Frame(e, p) == [kind |-> "frame", epoch |-> e, pos |-> p]

VARIABLES
  queue,                \* in_q, _q_dec and _q_up
  epoch_,               \* Pipeline._epoch
  flush_pending,
  closed,               \* _closed
  late,                 \* stages in a put that found the pipeline open
  buffered,             \* is client_buffered_ms above the watermarks?
  decode,               \* pl-decode: where it is,
  packet,               \*   the packet it paces,
  decoder,              \*   the frames its decoder holds,
  discard,              \*   _discard_until (0: None),
  decoded,              \*   and what it has still to put into _q_dec
  infer, inferred,      \* pl-infer, and what it has still to put into _q_up
  finish,               \* pl-finish: where it is,
  encoder,              \*   the frames its encoder holds,
  header,               \*   has the open container written its header?
  sink,                 \*   what the container wrote and no chunk carries yet,
  need_discontinuity,
  chunks,               \*   and the chunks it has still to emit
  flush, flush_epoch,   \* Pipeline.flush: where it is, and its argument
  close                 \* Pipeline.close: where it is

queueVars == <<queue, epoch_, flush_pending, closed, late>>
decodeVars == <<decode, packet, decoder, discard, decoded>>
inferVars == <<infer, inferred>>
finishVars == <<finish, encoder, header, sink, need_discontinuity, chunks>>
flushVars == <<flush, flush_epoch>>
pipelineVars == <<queueVars, buffered, decodeVars, inferVars, finishVars,
                  flushVars, close>>

(* What pl-finish hands to emit. A chunk carries what was muxed since the  *)
(* chunk before it.                                                        *)
Chunk == [epoch : Epoch, data : Seq(0..Trailer), discontinuity : BOOLEAN, eos : BOOLEAN]

PipelineTypeOK ==
  /\ queue \in [QueueName -> Seq(Item)]
  /\ \A q \in QueueName : Len(queue[q]) <= Depth[q]
  /\ epoch_ \in Epoch
  /\ flush_pending \in BOOLEAN /\ closed \in BOOLEAN
  /\ late \subseteq {"decode", "infer"}
  /\ buffered \in BOOLEAN
  /\ decode \in {"get", "pace", "put", "leave", "exit"}
  /\ packet \in Item
  /\ decoder \in Seq(Position) /\ Len(decoder) <= Delay
  /\ discard \in 0..Length
  /\ decoded \in Seq(Item)
  /\ infer \in {"get", "put", "leave", "exit"}
  /\ inferred \in Item
  /\ finish \in {"get", "emit", "deliver", "exit"}
  /\ encoder \in Seq(Position) /\ Len(encoder) <= Delay
  /\ header \in BOOLEAN /\ need_discontinuity \in BOOLEAN
  /\ sink \in Seq(0..Trailer)
  /\ chunks \in Seq(Chunk)
  /\ flush \in {"idle", "called", "signal", "epoch", "drain"}
  /\ flush_epoch \in Epoch
  /\ close \in {"open", "announced", "drain_in", "stop_in", "drain_dec", "stop_dec",
                "drain_up", "stop_up", "join", "done", "raised"}

PipelineInit ==
  /\ queue = [q \in QueueName |-> <<>>]
  /\ epoch_ = 0 /\ flush_pending = FALSE /\ closed = FALSE /\ late = {}
  /\ buffered = FALSE
  /\ decode = "get" /\ packet = Stop /\ decoder = <<>> /\ discard = 0 /\ decoded = <<>>
  /\ infer = "get" /\ inferred = Stop
  /\ finish = "get" /\ encoder = <<>> /\ header = FALSE /\ sink = <<>>
  /\ need_discontinuity = TRUE /\ chunks = <<>>
  /\ flush = "idle" /\ flush_epoch = 0
  /\ close = "open"

-----------------------------------------------------------------------------
(* Queue operations.                                                       *)

Room(q) == Len(queue[q]) < Depth[q]
Put(q, item) == queue' = [queue EXCEPT ![q] = Append(@, item)]
Get(q, item) == /\ queue[q] # <<>>
                /\ item = Head(queue[q])
                /\ queue' = [queue EXCEPT ![q] = Tail(@)]

(* A plausible bug in _safe_put: it looks at _closed only when there is no *)
(* room.                                                                   *)
SafePutFirst(stage, q, item) ==
  \/ Room(q) /\ Put(q, item)
  \/ closed /\ UNCHANGED queue

(* _safe_put: it waits for room until the pipeline is closed, and then     *)
(* drops the item, unless it was in Queue.put already.                     *)
SafePut(stage, q, item) ==
  \/ Room(q) /\ (~closed \/ stage \in late) /\ Put(q, item)
  \/ closed /\ UNCHANGED queue

(* put(None), with which a stage passes the stop on, only waits.           *)
PassOn(stage, q, item) ==
  /\ IF item = Stop THEN Room(q) /\ Put(q, item) ELSE SafePut(stage, q, item)
  /\ late' = late \ {stage}

-----------------------------------------------------------------------------
(* pl-decode.                                                              *)

Stale(item) == item.epoch < epoch_

(* The frames that come out of a codec which holds back the last Delay.    *)
Released(held) == SubSeq(held, 1, Len(held) - Delay)
Kept(held) == SubSeq(held, Len(Released(held)) + 1, Len(held))

(* _put_decoded: frames before the target of the seek are dropped, up to   *)
(* the first one that is not.                                              *)
PutDecoded(positions, e, more) ==
  LET early == {i \in DOMAIN positions : \A j \in 1..i : positions[j] < discard}
      shown == SubSeq(positions, Cardinality(early) + 1, Len(positions))
      items == [i \in DOMAIN shown |-> Frame(e, shown[i])] \o more
  IN /\ discard' = IF shown = <<>> THEN discard ELSE 0
     /\ decoded' = items
     /\ decode' = IF items = <<>> THEN "get" ELSE "put"

(* The frames of a packet bear the epoch of the packet.                    *)
DecodePacket(item) ==
  LET held == Append(decoder, item.pos)
  IN /\ decoder' = Kept(held)
     /\ PutDecoded(Released(held), item.epoch, <<>>)
     /\ packet' = Stop

DecodeGet(kind) ==
  /\ decode = "get"
  /\ queue["in"] # <<>> /\ Head(queue["in"]).kind = kind
  /\ queue' = [queue EXCEPT !["in"] = Tail(@)]

DecodeDrop ==
  /\ \E kind \in {"aux", "video", "eos"} : DecodeGet(kind)
  /\ Stale(Head(queue["in"]))
  /\ UNCHANGED <<epoch_, flush_pending, closed, late, buffered, decodeVars, inferVars,
                 finishVars, flushVars, close>>

DecodeAux ==
  /\ DecodeGet("aux")
  /\ ~Stale(Head(queue["in"]))
  /\ decode' = "put" /\ decoded' = <<Head(queue["in"])>>
  /\ UNCHANGED <<epoch_, flush_pending, closed, late, buffered, packet, decoder, discard,
                 inferVars, finishVars, flushVars, close>>

DecodeStop ==
  /\ DecodeGet("stop")
  /\ decode' = "put" /\ decoded' = <<Stop>>
  /\ UNCHANGED <<epoch_, flush_pending, closed, late, buffered, packet, decoder, discard,
                 inferVars, finishVars, flushVars, close>>

(* A plausible bug: the decoder is kept over a seek.                       *)
DecodeFlushKeepsDecoder ==
  /\ DecodeGet("flush")
  /\ flush_pending' = FALSE
  /\ discard' = Target[Head(queue["in"]).epoch]
  /\ decode' = "put" /\ decoded' = <<Head(queue["in"])>>
  /\ UNCHANGED <<epoch_, closed, late, buffered, packet, decoder, inferVars, finishVars,
                 flushVars, close>>

(* The new epoch begins: another decoder, and another discard window.      *)
DecodeFlush ==
  /\ DecodeGet("flush")
  /\ flush_pending' = FALSE
  /\ decoder' = <<>>
  /\ discard' = Target[Head(queue["in"]).epoch]
  /\ decode' = "put" /\ decoded' = <<Head(queue["in"])>>
  /\ UNCHANGED <<epoch_, closed, late, buffered, packet, inferVars, finishVars, flushVars,
                 close>>

(* The decoder is drained, and replaced.                                   *)
DecodeEos ==
  /\ DecodeGet("eos")
  /\ ~Stale(Head(queue["in"]))
  /\ decoder' = <<>>
  /\ PutDecoded(decoder, Head(queue["in"]).epoch, <<Head(queue["in"])>>)
  /\ UNCHANGED <<epoch_, flush_pending, closed, late, buffered, packet, inferVars,
                 finishVars, flushVars, close>>

(* A packet is decoded at once, or after the client's buffer has run down. *)
DecodeVideo ==
  /\ DecodeGet("video")
  /\ ~Stale(Head(queue["in"]))
  /\ IF buffered
       THEN /\ decode' = "pace" /\ packet' = Head(queue["in"])
            /\ UNCHANGED <<decoder, discard, decoded>>
       ELSE DecodePacket(Head(queue["in"]))
  /\ UNCHANGED <<epoch_, flush_pending, closed, late, buffered, inferVars, finishVars,
                 flushVars, close>>

DecodePaced ==
  /\ decode = "pace"
  /\ ~buffered \/ closed \/ flush_pending
  /\ DecodePacket(packet)
  /\ UNCHANGED <<queueVars, buffered, inferVars, finishVars, flushVars, close>>

DecodePut ==
  /\ decode = "put"
  /\ PassOn("decode", "dec", Head(decoded))
  /\ decoded' = Tail(decoded)
  /\ decode' = IF Head(decoded) = Stop THEN "leave"
               ELSE IF Tail(decoded) = <<>> THEN "get" ELSE "put"
  /\ UNCHANGED <<epoch_, flush_pending, closed, buffered, packet, decoder, discard,
                 inferVars, finishVars, flushVars, close>>

-----------------------------------------------------------------------------
(* pl-infer.                                                               *)

InferGet ==
  /\ infer = "get" /\ queue["dec"] # <<>>
  /\ queue' = [queue EXCEPT !["dec"] = Tail(@)]
  /\ LET item == Head(queue["dec"])
     IN IF item.kind = "frame" /\ Stale(item)
          THEN UNCHANGED inferVars
          ELSE infer' = "put" /\ inferred' = item
  /\ UNCHANGED <<epoch_, flush_pending, closed, late, buffered, decodeVars, finishVars,
                 flushVars, close>>

InferPut ==
  /\ infer = "put"
  /\ PassOn("infer", "up", inferred)
  /\ infer' = IF inferred = Stop THEN "leave" ELSE "get"
  /\ inferred' = Stop
  /\ UNCHANGED <<epoch_, flush_pending, closed, buffered, decodeVars, finishVars,
                 flushVars, close>>

-----------------------------------------------------------------------------
(* pl-finish.                                                              *)

FinishGet(kind) ==
  /\ finish = "get"
  /\ queue["up"] # <<>> /\ Head(queue["up"]).kind = kind
  /\ queue' = [queue EXCEPT !["up"] = Tail(@)]

(* Muxing into a container writes its header first.                        *)
Muxed(data) == sink \o (IF header \/ data = <<>> THEN <<>> ELSE <<Header>>) \o data

(* _flush_chunk: nothing to ship, no chunk.                                *)
Ship(e, data, more) ==
  /\ chunks' = (IF data = <<>> THEN <<>>
                ELSE <<[epoch |-> e, data |-> data, discontinuity |-> need_discontinuity,
                        eos |-> FALSE]>>) \o more
  /\ need_discontinuity' = (need_discontinuity /\ data = <<>>)
  /\ sink' = <<>>
  /\ finish' = IF chunks' = <<>> THEN "get" ELSE "emit"

FinishDrop ==
  /\ \E kind \in {"frame", "aux", "eos"} : FinishGet(kind)
  /\ Stale(Head(queue["up"]))
  /\ UNCHANGED <<epoch_, flush_pending, closed, late, buffered, decodeVars, inferVars,
                 finishVars, flushVars, close>>

FinishStop ==
  /\ FinishGet("stop")
  /\ finish' = "exit"
  /\ UNCHANGED <<epoch_, flush_pending, closed, late, buffered, decodeVars, inferVars,
                 encoder, header, sink, need_discontinuity, chunks, flushVars, close>>

(* A plausible bug: the first chunk of an epoch is not marked.             *)
FinishFlushUnmarked ==
  /\ FinishGet("flush")
  /\ encoder' = <<>> /\ header' = FALSE /\ sink' = <<>>
  /\ UNCHANGED <<epoch_, flush_pending, closed, late, buffered, decodeVars, inferVars,
                 finish, need_discontinuity, chunks, flushVars, close>>

(* The container of the old epoch is abandoned with what it holds.         *)
FinishFlush ==
  /\ FinishGet("flush")
  /\ encoder' = <<>> /\ header' = FALSE /\ sink' = <<>>
  /\ need_discontinuity' = TRUE
  /\ UNCHANGED <<epoch_, flush_pending, closed, late, buffered, decodeVars, inferVars,
                 finish, chunks, flushVars, close>>

(* Before the first video of an epoch, audio waits for it in the sink.     *)
FinishAux ==
  /\ FinishGet("aux")
  /\ ~Stale(Head(queue["up"]))
  /\ header' = TRUE
  /\ LET item == Head(queue["up"])
     IN IF need_discontinuity
          THEN /\ sink' = Muxed(<<item.pos>>)
               /\ UNCHANGED <<finish, need_discontinuity, chunks>>
          ELSE Ship(item.epoch, Muxed(<<item.pos>>), <<>>)
  /\ UNCHANGED <<epoch_, flush_pending, closed, late, buffered, decodeVars, inferVars,
                 encoder, flushVars, close>>

FinishFrame ==
  /\ FinishGet("frame")
  /\ ~Stale(Head(queue["up"]))
  /\ LET item == Head(queue["up"])
         held == Append(encoder, item.pos)
     IN /\ encoder' = Kept(held)
        /\ header' = (header \/ Released(held) # <<>>)
        /\ Ship(item.epoch, Muxed(Released(held)), <<>>)
  /\ UNCHANGED <<epoch_, flush_pending, closed, late, buffered, decodeVars, inferVars,
                 flushVars, close>>

(* The encoder is drained and the container ended; a fresh one is opened.  *)
FinishEos ==
  /\ FinishGet("eos")
  /\ ~Stale(Head(queue["up"]))
  /\ LET e == Head(queue["up"]).epoch
     IN Ship(e, Muxed(Append(encoder, Trailer)),
             <<[epoch |-> e, data |-> <<>>, discontinuity |-> FALSE, eos |-> TRUE]>>)
  /\ encoder' = <<>> /\ header' = FALSE
  /\ UNCHANGED <<epoch_, flush_pending, closed, late, buffered, decodeVars, inferVars,
                 flushVars, close>>

-----------------------------------------------------------------------------
(* _guard: however a stage ends, the next one is told, if there is room.   *)

StageDied == \/ decode \in {"leave", "exit"} \/ infer \in {"leave", "exit"}
             \/ finish = "exit"

(* Bound: one stage of a session raises an exception.                      *)
MayRaise == MayFail /\ ~StageDied

(* It does so in a native call, before it hands on what the call returns.  *)
DecodeFails ==
  /\ MayRaise /\ decode = "put"
  /\ Head(decoded).kind \in {"frame", "flush", "eos"}
  /\ decode' = "leave" /\ decoded' = <<>>
  /\ UNCHANGED <<queueVars, buffered, packet, decoder, discard, inferVars, finishVars,
                 flushVars, close>>

InferFails ==
  /\ MayRaise /\ infer = "put" /\ inferred.kind = "frame"
  /\ infer' = "leave" /\ inferred' = Stop
  /\ UNCHANGED <<queueVars, buffered, decodeVars, finishVars, flushVars, close>>

FinishFails ==
  /\ MayRaise /\ finish = "emit"
  /\ finish' = "exit" /\ chunks' = <<>>
  /\ UNCHANGED <<queueVars, buffered, decodeVars, inferVars, encoder, header, sink,
                 need_discontinuity, flushVars, close>>

LastStop(q) == IF Room(q) THEN Put(q, Stop) ELSE UNCHANGED queue

DecodeLeave ==
  /\ decode = "leave"
  /\ decode' = "exit"
  /\ LastStop("dec")
  /\ UNCHANGED <<epoch_, flush_pending, closed, late, buffered, packet, decoder, discard,
                 decoded, inferVars, finishVars, flushVars, close>>

InferLeave ==
  /\ infer = "leave"
  /\ infer' = "exit"
  /\ LastStop("up")
  /\ UNCHANGED <<epoch_, flush_pending, closed, late, buffered, decodeVars, inferred,
                 finishVars, flushVars, close>>

-----------------------------------------------------------------------------
(* Pipeline.flush, on a thread of its own.                                 *)

FlushSignal ==
  /\ flush = "called"
  /\ flush' = "signal"
  /\ flush_pending' = TRUE
  /\ UNCHANGED <<queue, epoch_, closed, late, buffered, decodeVars, inferVars, finishVars,
                 flush_epoch, close>>

FlushEpoch ==
  /\ flush = "signal"
  /\ flush' = "epoch"
  /\ epoch_' = flush_epoch
  /\ UNCHANGED <<queue, flush_pending, closed, late, buffered, decodeVars, inferVars,
                 finishVars, flush_epoch, close>>

FlushDrain ==
  /\ flush = "epoch"
  /\ flush' = "drain"
  /\ queue' = [queue EXCEPT !["in"] = <<>>]
  /\ UNCHANGED <<epoch_, flush_pending, closed, late, buffered, decodeVars, inferVars,
                 finishVars, flush_epoch, close>>

FlushPut ==
  /\ flush = "drain"
  /\ flush' = "idle"
  /\ Room("in") /\ Put("in", [kind |-> "flush", epoch |-> flush_epoch, pos |-> 0])
  /\ UNCHANGED <<epoch_, flush_pending, closed, late, buffered, decodeVars, inferVars,
                 finishVars, flush_epoch, close>>

-----------------------------------------------------------------------------
(* Pipeline.close: every queue is emptied and given a stop, then the       *)
(* threads are joined. put_nowait raises if the queue has filled again,    *)
(* and then nobody is joined.                                              *)

Draining == [q \in QueueName |-> CASE q = "in" -> "drain_in" [] q = "dec" -> "drain_dec"
                                   [] q = "up" -> "drain_up"]
Stopping == [q \in QueueName |-> CASE q = "in" -> "stop_in" [] q = "dec" -> "stop_dec"
                                   [] q = "up" -> "stop_up"]
NextQueue == [q \in QueueName |-> CASE q = "in" -> "drain_dec" [] q = "dec" -> "drain_up"
                                    [] q = "up" -> "join"]

CloseBegin ==
  /\ close = "announced"
  /\ close' = "drain_in"
  /\ closed' = TRUE /\ flush_pending' = TRUE
  /\ late' = {stage \in {"decode", "infer"} :
               (IF stage = "decode" THEN decode ELSE infer) = "put"}
  /\ UNCHANGED <<queue, epoch_, buffered, decodeVars, inferVars, finishVars, flushVars>>

CloseDrain(q) ==
  /\ close = Draining[q]
  /\ close' = Stopping[q]
  /\ queue' = [queue EXCEPT ![q] = <<>>]
  /\ UNCHANGED <<epoch_, flush_pending, closed, late, buffered, decodeVars, inferVars,
                 finishVars, flushVars>>

CloseStop(q) ==
  /\ close = Stopping[q]
  /\ IF Room(q) THEN close' = NextQueue[q] /\ Put(q, Stop)
     ELSE close' = "raised" /\ UNCHANGED queue
  /\ UNCHANGED <<epoch_, flush_pending, closed, late, buffered, decodeVars, inferVars,
                 finishVars, flushVars>>

CloseJoin ==
  /\ close = "join"
  /\ close' = "done"
  /\ decode = "exit" /\ infer = "exit" /\ finish = "exit"
  /\ UNCHANGED <<queueVars, buffered, decodeVars, inferVars, finishVars, flushVars>>

DecodeStep == DecodeDrop \/ DecodeAux \/ DecodeStop \/ DecodeFlush \/ DecodeEos
              \/ DecodeVideo \/ DecodePaced \/ DecodePut \/ DecodeLeave
InferStep == InferGet \/ InferPut \/ InferLeave
FinishStep == FinishDrop \/ FinishStop \/ FinishFlush \/ FinishAux \/ FinishFrame
              \/ FinishEos
FailStep == DecodeFails \/ InferFails \/ FinishFails
FlushStep == FlushSignal \/ FlushEpoch \/ FlushDrain \/ FlushPut
CloseStep == CloseBegin \/ CloseJoin \/ \E q \in QueueName : CloseDrain(q) \/ CloseStop(q)
=============================================================================
