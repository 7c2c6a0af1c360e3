---------------------------- MODULE PlayerStream ----------------------------
(***************************************************************************)
(* The downlink at the client: the receiver thread and its batches, the    *)
(* bridge queue between that thread and the event loop, the player's       *)
(* consumer, and the loads of mpv, one Matroska file to an epoch           *)
(* (relay_client_core/client.py, desktop_client/mpv_view.py).              *)
(*                                                                         *)
(* The server and mpv are the surroundings. The server follows the seeks   *)
(* in order and sends for each epoch what EpochStream promises, then EOS;  *)
(* the theorem of RelayStream's refinement is the assumption of this one.  *)
(* mpv plays what the loopback connection gives it.                        *)
(***************************************************************************)
EXTENDS Integers, Sequences, FiniteSets, SequencesExt

CONSTANTS Length,       \* the source file has packets 1..Length
          MaxEpoch,     \* bound: the number of seeks
          Target,       \* where the stream of each epoch begins
          DownBatch,    \* packets to a wakeup of the event loop (8)
          BridgeRoom,   \* room in the bridge queue (1024 packets, 128 MiB)
          External,     \* is the original file attached for audio, subtitles?
          MaxFailures   \* bound: the connection, the source, mpv

ASSUME PlayerAssumption ==
  /\ Length \in Nat /\ MaxEpoch \in Nat
  /\ Target \in [0..MaxEpoch -> 1..Length + 1]
  /\ DownBatch \in Nat \ {0} /\ BridgeRoom \in Nat \ {0}
  /\ External \in BOOLEAN /\ MaxFailures \in Nat

Epoch == 0..MaxEpoch
Header == 0
Trailer == Length + 1
EOS == Length + 2
Packet == [epoch : Epoch, item : Header..EOS]
None == [epoch |-> -1, item |-> EOS]            \* the end of the downlink

VARIABLES
  epoch,                \* RelayClient.epoch
  server,               \* the epoch it sends, and the item that arrives next
  link,                 \* the downlink connection
  receiver,             \* the receiver thread: pc, its batch, what it publishes
  items, available,     \* the bridge queue: _items, the Event
  waking,               \* a set() of the Event is scheduled on the loop
  queue_closed,
  consumer,             \* the consume task: pc, first, the packet in its hands
  buffer,               \* the loopback stream, <<>> or one of chunks, finished
  load,                 \* what MpvView keeps about the present load
  mpv,                  \* the file it has loaded and what happened to it
  attaching,            \* threads that attach the original file
  signals,              \* Qt signals on their way to the loop
  outcome,              \* "playing", "finished" or "failed"
  played,               \* what mpv was given of the newest epoch it knows
  failures              \* how many there have been

networkVars == <<server, link>>
queueVars == <<items, available, waking, queue_closed>>
playerVars == <<load, mpv, attaching, signals, outcome>>
vars == <<epoch, networkVars, receiver, queueVars, consumer, buffer, playerVars,
          played, failures>>

Generation == 0..3 * MaxEpoch + 1
Signal == [kind : {"restarted", "attached", "ended", "broken"}, gen : Generation]

TypeOK ==
  /\ epoch \in Epoch
  /\ server \in [epoch : Epoch, next : Header..EOS + 1] /\ server.epoch <= epoch
  /\ link \in {"up", "lost"}
  /\ receiver \in [pc : {"reading", "putting", "last", "ended"},
                   batch : Seq(Packet), out : Seq(Packet \cup {None})]
  /\ Len(receiver.batch) < DownBatch
  /\ items \in Seq(Packet \cup {None}) /\ Len(items) <= BridgeRoom
  /\ available \in BOOLEAN /\ waking \in BOOLEAN /\ queue_closed \in BOOLEAN
  /\ consumer \in [pc : {"loading", "getting", "waiting", "ended"},
                   first : BOOLEAN, held : Packet \cup {None}]
  /\ buffer \in Seq([chunks : Seq(Packet), finished : BOOLEAN]) /\ Len(buffer) <= 1
  /\ load \in [gen : Generation, reloading : BOOLEAN, accept : BOOLEAN,
               restarted : BOOLEAN, attached : BOOLEAN, prebuffered : BOOLEAN,
               released : BOOLEAN, eos : Epoch \cup {-1}]
  /\ mpv \in [file : Generation, restarted : BOOLEAN, attached : BOOLEAN,
              ended : BOOLEAN]
  /\ attaching \subseteq Generation /\ signals \subseteq Signal
  /\ outcome \in {"playing", "finished", "failed"}
  /\ played \in [epoch : Epoch, data : Seq(Header..Trailer)]
  /\ failures \in 0..MaxFailures

(* The session is open and start() has stopped whatever played before.     *)
Init ==
  /\ epoch = 0
  /\ server = [epoch |-> 0, next |-> Header]
  /\ link = "up"
  /\ receiver = [pc |-> "reading", batch |-> <<>>, out |-> <<>>]
  /\ items = <<>> /\ available = FALSE /\ waking = FALSE /\ queue_closed = FALSE
  /\ consumer = [pc |-> "loading", first |-> TRUE, held |-> None]
  /\ buffer = <<>>
  /\ load = [gen |-> 0, reloading |-> TRUE, accept |-> FALSE, restarted |-> FALSE,
             attached |-> FALSE, prebuffered |-> FALSE, released |-> FALSE,
             eos |-> -1]
  /\ mpv = [file |-> 0, restarted |-> FALSE, attached |-> FALSE, ended |-> FALSE]
  /\ attaching = {} /\ signals = {}
  /\ outcome = "playing"
  /\ played = [epoch |-> 0, data |-> <<>>]
  /\ failures = 0

-----------------------------------------------------------------------------
(* The server and the connection. A packet on its way is one the server    *)
(* has still to send: only its arrival is a step.                          *)

(* One more of the failures that are allowed.                              *)
Failure == /\ failures < MaxFailures /\ outcome = "playing"
           /\ failures' = failures + 1

ServerSeek ==
  /\ server.epoch < epoch /\ link = "up" /\ ~queue_closed
  /\ server' = [epoch |-> server.epoch + 1, next |-> Header]
  /\ UNCHANGED <<epoch, link, receiver, queueVars, consumer, buffer, playerVars,
                 played, failures>>

(* Nothing more arrives.                                                   *)
Silent(s) == [epoch |-> s.epoch, next |-> EOS + 1]

LinkLost ==
  /\ Failure /\ link = "up" /\ ~queue_closed
  /\ link' = "lost" /\ server' = Silent(server)
  /\ UNCHANGED <<epoch, receiver, queueVars, consumer, buffer, playerVars,
                 played>>

-----------------------------------------------------------------------------
(* The receiver thread, _downlink_receiver_work.                           *)

Discontinuity(pkt) == pkt.item = Header

(* What is left of a batch when its stale packets are dropped: all of it or *)
(* nothing, for a batch never mixes epochs.                                *)
Current(batch) == IF batch # <<>> /\ Head(batch).epoch < epoch THEN <<>> ELSE batch

(* _take_downlink_batch: a packet joins the batch or is stale; a full      *)
(* batch, an EOS or the beginning of an epoch is published.                *)
ReceiveUpTo(Ends(_)) ==
  /\ receiver.pc = "reading" /\ server.next <= EOS
  /\ server' = [server EXCEPT !.next = IF @ = Header THEN Target[server.epoch]
                                       ELSE @ + 1]
  /\ LET pkt == [epoch |-> server.epoch, item |-> server.next]
         batch == Current(receiver.batch)
         grown == Append(batch, pkt)
     IN receiver' =
          IF pkt.epoch < epoch THEN [receiver EXCEPT !.batch = batch]
          ELSE IF Discontinuity(pkt)
            THEN [pc |-> "putting", batch |-> <<>>, out |-> <<pkt>>]
          ELSE IF Len(grown) = DownBatch \/ Ends(pkt)
            THEN [pc |-> "putting", batch |-> <<>>, out |-> grown]
          ELSE [receiver EXCEPT !.batch = grown]
  /\ UNCHANGED <<epoch, link, queueVars, consumer, buffer, playerVars, played,
                 failures>>

(* A plausible bug: the EOS waits for a full batch.                        *)
ReceiveKeepsEnd == ReceiveUpTo(LAMBDA pkt : FALSE)

Receive == ReceiveUpTo(LAMBDA pkt : pkt.item = EOS)

(* The connection has ended: what is left of the batch, and the end.       *)
ReceiveEnd ==
  /\ receiver.pc = "reading" /\ link = "lost"
  /\ receiver' = [pc |-> "last", batch |-> <<>>,
                  out |-> Append(Current(receiver.batch), None)]
  /\ UNCHANGED <<epoch, networkVars, queueVars, consumer, buffer, playerVars,
                 played, failures>>

(* put_batch_from_thread: as much as there is room for, then a wakeup of   *)
(* the consumer, then it waits for room for the rest. A closed queue ends  *)
(* the thread.                                                             *)
PublishInto(room) ==
  /\ receiver.pc \in {"putting", "last"}
  /\ IF queue_closed
       THEN /\ receiver' = [pc |-> "ended", batch |-> <<>>, out |-> <<>>]
            /\ UNCHANGED <<items, waking>>
       ELSE LET n == IF Len(receiver.out) < room THEN Len(receiver.out) ELSE room
                rest == SubSeq(receiver.out, n + 1, Len(receiver.out))
            IN /\ room > 0
               /\ items' = items \o SubSeq(receiver.out, 1, n)
               /\ waking' = TRUE
               /\ receiver' = [receiver EXCEPT !.out = rest,
                    !.pc = IF rest # <<>> THEN @
                           ELSE IF @ = "last" THEN "ended" ELSE "reading"]
  /\ UNCHANGED <<epoch, networkVars, available, queue_closed, consumer, buffer,
                 playerVars, played, failures>>

(* A plausible bug: the limit is exceeded by one.                          *)
PublishOneTooMany == PublishInto(BridgeRoom + 1 - Len(items))

Publish == PublishInto(BridgeRoom - Len(items))

(* The scheduled set() runs on the event loop.                             *)
Wake ==
  /\ waking
  /\ waking' = FALSE /\ available' = TRUE
  /\ UNCHANGED <<epoch, networkVars, receiver, items, queue_closed, consumer,
                 buffer, playerVars, played, failures>>

(* _fail_source, for a local source: the queue ends without an EOS. The    *)
(* server, which is sent nothing more, sends nothing more.                 *)
CloseQueue ==
  /\ Failure /\ ~queue_closed
  /\ queue_closed' = TRUE /\ items' = <<>> /\ waking' = TRUE
  /\ server' = Silent(server)
  /\ UNCHANGED <<epoch, link, receiver, available, consumer, buffer,
                 playerVars, played>>

-----------------------------------------------------------------------------
(* The loads of mpv.                                                       *)

(* _retire_stream: mpv is told to stop, and what still comes of this load  *)
(* belongs to an old generation.                                           *)
Retired(l) == [gen |-> l.gen + 1, reloading |-> TRUE, accept |-> FALSE,
               restarted |-> FALSE, attached |-> FALSE, prebuffered |-> FALSE,
               released |-> FALSE, eos |-> -1]

Loaded(l) == [gen |-> l.gen + 1, reloading |-> FALSE, accept |-> TRUE,
              restarted |-> FALSE, attached |-> ~External, prebuffered |-> FALSE,
              released |-> FALSE, eos |-> -1]

(* _maybe_release_epoch, after one of its conditions came true.            *)
MaybeReleased(l) ==
  [l EXCEPT !.released = @ \/ (l.restarted /\ l.attached /\ l.prebuffered)]

(* _LoopbackStream.feed, which counts the first packet as the prebuffer.   *)
Fed(b, pkt) == IF b[1].finished THEN b
               ELSE <<[b[1] EXCEPT !.chunks = Append(@, pkt)]>>
Prebuffered(l) == MaybeReleased([l EXCEPT !.prebuffered = TRUE])

-----------------------------------------------------------------------------
(* prepare_seek() of the player and seek() of the client, up to its first  *)
(* await: the bridge queue is drained, whatever is in it.                  *)
Seek ==
  /\ epoch < MaxEpoch /\ outcome = "playing"
  /\ epoch' = epoch + 1
  /\ load' = Retired(load) /\ buffer' = <<>>
  /\ items' = <<>> /\ available' = (available /\ items = <<>>)
  /\ UNCHANGED <<networkVars, receiver, waking, queue_closed, consumer, mpv,
                 attaching, signals, outcome, played, failures>>

-----------------------------------------------------------------------------
(* The consumer, _consume. It takes a packet and goes on to its next await.*)

(* finished or failed is emitted; the first ends playback for its owner.   *)
Outcome(o) == outcome' = IF outcome = "playing" THEN o ELSE outcome

ConsumeEnd ==
  /\ consumer.pc = "getting"
  /\ \/ items # <<>> /\ Head(items) = None /\ items' = Tail(items)
     \/ items = <<>> /\ queue_closed /\ UNCHANGED items
  /\ available' = (available /\ (items' # <<>> \/ items = <<>>))
  /\ consumer' = [consumer EXCEPT !.pc = "ended"]
  /\ Outcome("failed")
  /\ UNCHANGED <<epoch, networkVars, receiver, waking, queue_closed, buffer, load,
                 mpv, attaching, signals, played, failures>>

(* Under the lock of the queue: nothing there, the Event is cleared.       *)
ConsumeWait ==
  /\ consumer.pc = "getting" /\ items = <<>> /\ ~queue_closed
  /\ available' = FALSE
  /\ consumer' = [consumer EXCEPT !.pc = "waiting"]
  /\ UNCHANGED <<epoch, networkVars, receiver, items, waking, queue_closed, buffer,
                 playerVars, played, failures>>

ConsumeWoken ==
  /\ consumer.pc = "waiting" /\ available
  /\ consumer' = [consumer EXCEPT !.pc = "getting"]
  /\ UNCHANGED <<epoch, networkVars, receiver, queueVars, buffer, playerVars,
                 played, failures>>

Take == /\ consumer.pc = "getting" /\ items # <<>> /\ Head(items) # None
        /\ items' = Tail(items)
        /\ available' = (available /\ Tail(items) # <<>>)
        /\ UNCHANGED <<epoch, networkVars, receiver, waking, queue_closed, mpv,
                       attaching, signals, outcome, played, failures>>

(* Stale at the last moment, or bytes for the present load.                *)
ConsumeFresh(Stale(_)) ==
  /\ Take
  /\ LET pkt == Head(items)
     IN \/ /\ Stale(pkt)
           /\ UNCHANGED <<consumer, buffer, load>>
        \/ /\ ~Stale(pkt) /\ pkt.item = EOS
           /\ buffer' = IF buffer = <<>> THEN <<>>
                        ELSE <<[buffer[1] EXCEPT !.finished = TRUE]>>
           /\ load' = Prebuffered([load EXCEPT !.eos = epoch])
           /\ UNCHANGED consumer
        \/ /\ ~Stale(pkt) /\ pkt.item # EOS
           /\ ~Discontinuity(pkt) \/ (consumer.first /\ buffer # <<>>)
           /\ consumer' = [consumer EXCEPT !.first = FALSE]
           /\ IF buffer = <<>> THEN UNCHANGED <<buffer, load>>
              ELSE buffer' = Fed(buffer, pkt) /\ load' = Prebuffered(load)

(* A plausible bug: whatever is in the queue was checked by the receiver.  *)
ConsumePacketUnchecked == ConsumeFresh(LAMBDA pkt : FALSE)

ConsumePacket == ConsumeFresh(LAMBDA pkt : pkt.epoch # epoch)

(* The beginning of another epoch: _load_stream retires what there is and  *)
(* sleeps until the last stop has settled (150 ms): LoadStream comes later,*)
(* and by then mpv is assumed to have said all it had to say of the old    *)
(* file.                                                                   *)
ConsumeDiscontinuity ==
  /\ Take
  /\ Head(items).epoch = epoch /\ Discontinuity(Head(items))
  /\ ~consumer.first \/ buffer = <<>>
  /\ load' = IF buffer = <<>> THEN load ELSE Retired(load)
  /\ buffer' = <<>>
  /\ consumer' = [consumer EXCEPT !.pc = "loading", !.held = Head(items)]

(* After the sleep: the fresh loopback is loaded, at the start of the      *)
(* session for whatever comes, then for the packet in hand unless another  *)
(* seek made it stale.                                                     *)
LoadStream ==
  /\ consumer.pc = "loading"
  /\ LET pkt == consumer.held
         fresh == <<[chunks |-> <<>>, finished |-> FALSE]>>
         keep == pkt # None /\ pkt.epoch = epoch
     IN /\ buffer' = IF keep THEN Fed(fresh, pkt) ELSE fresh
        /\ load' = IF keep THEN Prebuffered(Loaded(load)) ELSE Loaded(load)
        /\ consumer' = [consumer EXCEPT !.pc = "getting", !.held = None,
                                        !.first = @ /\ ~keep]
  /\ mpv' = [file |-> load'.gen, restarted |-> FALSE, attached |-> FALSE,
             ended |-> FALSE]
  /\ UNCHANGED <<epoch, networkVars, receiver, queueVars, attaching, signals,
                 outcome, played, failures>>

-----------------------------------------------------------------------------
(* The loopback's sender thread, mpv and its event thread.                 *)

SendChunk ==
  /\ buffer # <<>> /\ buffer[1].chunks # <<>>
  /\ buffer' = <<[buffer[1] EXCEPT !.chunks = Tail(@)]>>
  /\ LET pkt == Head(buffer[1].chunks)
     IN played' = [epoch |-> pkt.epoch,
                   data |-> Append(IF pkt.epoch = played.epoch THEN played.data
                                   ELSE <<>>, pkt.item)]
  /\ UNCHANGED <<epoch, networkVars, receiver, queueVars, consumer,
                 playerVars, failures>>

Plays == mpv.file = load.gen /\ buffer # <<>> /\ ~mpv.ended

(* mpv decodes the first frame, or finds that there is none. The event     *)
(* thread hands it on under the present generation.                        *)
MpvRestarts ==
  /\ Plays /\ ~mpv.restarted
  /\ buffer[1].chunks = <<>> /\ load.prebuffered
  /\ played.epoch = epoch /\ Len(played.data) >= 2
  /\ mpv' = [mpv EXCEPT !.restarted = TRUE]
  /\ signals' = IF load.accept
                  THEN signals \cup {[kind |-> "restarted", gen |-> load.gen]}
                  ELSE signals
  /\ UNCHANGED <<epoch, networkVars, receiver, queueVars, consumer, buffer, load,
                 attaching, outcome, played, failures>>

(* Everything is played out, once it is not held back any more; the end is *)
(* natural if this epoch's EOS was there. Or mpv reports an error.         *)
MpvEnds ==
  /\ Plays
  /\ \E kind \in {"ended", "broken"} :
       /\ \/ kind = "broken" /\ Failure
          \/ /\ buffer[1].finished /\ buffer[1].chunks = <<>> /\ load.released
             /\ kind = IF load.eos = epoch THEN "ended" ELSE "broken"
             /\ UNCHANGED failures
       /\ signals' = IF load.reloading THEN signals
                     ELSE signals \cup {[kind |-> kind, gen |-> load.gen]}
  /\ mpv' = [mpv EXCEPT !.ended = TRUE]
  /\ UNCHANGED <<epoch, networkVars, receiver, queueVars, consumer, buffer, load,
                 attaching, outcome, played>>

(* The thread of _on_playback_restarted: it attaches the original file, and *)
(* reports if that is still the load it was for. An error is said first:   *)
(* the report after it, to a player that has failed, is left out. The      *)
(* checks before and after the command are one step: a file attached in    *)
(* between to a load it was not for only adds tracks.                      *)
Attach(g) ==
  /\ g \in attaching
  /\ attaching' = attaching \ {g}
  /\ \/ /\ g # load.gen
        /\ UNCHANGED <<mpv, signals, failures>>
     \/ /\ g = load.gen
        /\ mpv' = [mpv EXCEPT !.attached = TRUE]
        /\ signals' = signals \cup {[kind |-> "attached", gen |-> g]}
        /\ UNCHANGED failures
     \/ /\ g = load.gen /\ Failure
        /\ signals' = signals \cup {[kind |-> "broken", gen |-> g]}
        /\ UNCHANGED mpv
  /\ UNCHANGED <<epoch, networkVars, receiver, queueVars, consumer, buffer, load,
                 outcome, played>>

-----------------------------------------------------------------------------
(* Signals that have reached the event loop; those of older loads do       *)
(* nothing.                                                                *)

Handle(kind, g) == /\ [kind |-> kind, gen |-> g] \in signals
                   /\ signals' = signals \ {[kind |-> kind, gen |-> g]}
                   /\ UNCHANGED <<epoch, networkVars, receiver, queueVars, consumer,
                                  buffer, mpv, played, failures>>

OnRestarted(g) ==
  /\ Handle("restarted", g)
  /\ IF g = load.gen /\ load.accept /\ ~load.restarted
       THEN /\ load' = MaybeReleased([load EXCEPT !.restarted = TRUE])
            /\ attaching' = IF External THEN attaching \cup {g} ELSE attaching
       ELSE UNCHANGED <<load, attaching>>
  /\ UNCHANGED outcome

(* A plausible bug: the attached file is taken for that of this load.      *)
OnAttachedAnyLoad(g) ==
  /\ Handle("attached", g)
  /\ load' = MaybeReleased([load EXCEPT !.attached = TRUE])
  /\ UNCHANGED <<attaching, outcome>>

OnAttached(g) ==
  /\ Handle("attached", g)
  /\ load' = IF g = load.gen THEN MaybeReleased([load EXCEPT !.attached = TRUE])
             ELSE load
  /\ UNCHANGED <<attaching, outcome>>

Terminal(g, counts) ==
  /\ \E kind \in {"ended", "broken"} :
       /\ Handle(kind, g)
       /\ IF counts THEN Outcome(IF kind = "ended" THEN "finished" ELSE "failed")
                    ELSE UNCHANGED outcome
  /\ UNCHANGED <<load, attaching>>

(* A plausible bug: any end of file counts once a file is loaded.          *)
OnTerminalAnyLoad(g) == Terminal(g, ~load.reloading)

OnTerminal(g) == Terminal(g, g = load.gen /\ ~load.reloading)

-----------------------------------------------------------------------------
ReceiverStep == Receive \/ ReceiveEnd \/ Publish
ConsumerStep == \/ ConsumeEnd \/ ConsumeWait \/ ConsumeWoken
                \/ ConsumePacket \/ ConsumeDiscontinuity \/ LoadStream
PlayerStep == \/ SendChunk \/ MpvRestarts \/ MpvEnds
              \/ \E g \in Generation : \/ Attach(g) \/ OnRestarted(g)
                                       \/ OnAttached(g) \/ OnTerminal(g)
Proceed == ServerSeek \/ ReceiverStep \/ Wake \/ ConsumerStep \/ PlayerStep

Next == Proceed \/ Seek \/ LinkLost \/ CloseQueue

Spec == Init /\ [][Next]_vars

(* Threads, tasks, the server, the connection and mpv go on; no seek and   *)
(* no failure is assumed. That the owner tears the session down once       *)
(* playback has ended is neither modelled nor assumed. Between two seeks   *)
(* Proceed takes finitely many steps, so fairness to all of it is enough.  *)
FairSpec == Spec /\ WF_vars(Proceed)

-----------------------------------------------------------------------------
(* Properties.                                                             *)

(* mpv is given, for each epoch, the stream of that epoch from its         *)
(* beginning, in order, without a gap or a repetition, and never an older  *)
(* epoch after a newer one: through partial batches of an old epoch, a     *)
(* receiver that publishes after the queue was drained, and seeks that     *)
(* come while a load is under way (EpochStream again, one station on).     *)
Promise == INSTANCE EpochStream WITH
  Auxiliary <- {},
  asked <- epoch,
  stream <- [epoch |-> played.epoch, data |-> played.data,
             eos |-> Trailer \in {played.data[i] : i \in DOMAIN played.data}]
MpvStreams == Promise!Spec

(* "Finished", which advances to the next file, is said only when mpv was  *)
(* given the whole stream of the newest epoch: an end of file which a seek *)
(* or a new load provoked is never taken for it.                           *)
FinishedMeansPlayed ==
  outcome = "finished" => played.epoch = epoch /\ Promise!Complete(epoch, played.data)

(* Playback is released only for a load of which mpv itself has shown the  *)
(* first frame and, where the original file is attached, into which it was *)
(* attached; late signals of older loads do not count.                     *)
ReleasedByItsOwn ==
  load.released => /\ mpv.file = load.gen /\ mpv.restarted
                   /\ External => mpv.attached

(* Unless another seek comes or something fails, the newest epoch is       *)
(* loaded, released and played to its natural end.                         *)
PlaysToTheEnd ==
  \A e \in Epoch :
    []<>(outcome # "playing" \/ epoch # e \/ link = "lost" \/ queue_closed)

(* The consumer stops playback "as for any ended downlink"                 *)
(* (client.py, _fail_source): so it does when the connection is lost.      *)
LossReported == link = "lost" ~> outcome # "playing"
=============================================================================
