---------------------------- MODULE ClientUplink ----------------------------
(***************************************************************************)
(* Seeks of a client that reads the source itself and sends it to the      *)
(* server (relay_client_core/client.py): the seek() calls in flight and    *)
(* their acknowledgements, the uplink task and the demux worker threads it *)
(* leaves behind, the iterator generations of relay_media/demux.py, and    *)
(* the end of the uplink at the server (_run_uplink of                     *)
(* relay_server/server.py, handle_seek of relay_server/session.py).        *)
(*                                                                         *)
(* A seek, its pump (the uplink task that start_uplink makes for it) and   *)
(* the worker its batches are read on are all named by the epoch of the    *)
(* seek; epoch 0 is the start of the session, which has no seek.           *)
(***************************************************************************)
EXTENDS Integers, Sequences, FiniteSets

CONSTANTS Length,       \* the source file has packets 1..Length
          MaxEpoch,     \* bound: the number of seeks
          Target,       \* where the demuxer lands for the seek of each epoch
          UplinkBatch,  \* packets read in one hop to a worker (16)
          UplinkRoom,   \* packets under way before a drain() waits
          MaxFailures   \* bound: reads, replies, the connection, the session

ASSUME UplinkAssumption ==
  /\ Length \in Nat /\ MaxEpoch \in Nat
  /\ Target \in [0..MaxEpoch -> 1..Length + 1] /\ Target[0] = 1
  /\ UplinkBatch \in Nat \ {0} /\ UplinkRoom \in Nat \ {0}
  /\ MaxFailures \in Nat

Epoch == 0..MaxEpoch
Position == 1..Length
EOS == Length + 1       \* the packet that ends an epoch
None == -1

VARIABLES
  epoch,                \* RelayClient.epoch
  seeks,                \* where the seek() of each epoch is
  pending,              \* epochs with a future in _pending
  uplink_task,          \* the pump the attribute names
  uplink_generation,
  closing,              \* how far teardown and _close have got
  source_failed,        \* source_error is set and the downlink queue ended
  pump,                 \* of each epoch: program counter, generation, batch
  worker,               \* of each pump: next_batch() on its thread
  iter_gen,             \* VideoTrack._iter_gen
  native_lock,          \* which worker, or None, holds VideoTrack._lock
  position,             \* what the container yields next
  container,            \* "open" or "closed"
  control_in,           \* client to server: epochs, None for a teardown
  control_out,          \* server to client: epochs, or "error"
  connected,            \* the control connection
  uplink,               \* packets on the uplink connection
  session_epoch,        \* Session.epoch
  pipeline_epoch,       \* the epoch its pipeline was flushed to
  server,               \* "open", "closed" (by itself or on a teardown)
  accepted,             \* fed to the pipeline for the newest epoch (history)
  failures              \* how many there have been

clientVars == <<epoch, seeks, pending, uplink_task, uplink_generation,
                closing, source_failed>>
demuxVars == <<iter_gen, native_lock, position, container>>
controlVars == <<control_in, control_out, connected>>
serverVars == <<session_epoch, pipeline_epoch, server, accepted>>
vars == <<clientVars, pump, worker, demuxVars, controlVars, uplink, serverVars,
          failures>>

TypeOK ==
  /\ epoch \in Epoch
  /\ seeks \in [Epoch -> {"none", "waiting", "answered", "joining", "returned",
                          "failed"}]
  /\ pending \subseteq 1..epoch
  /\ uplink_task \in Epoch \cup {None}
  /\ uplink_generation \in 0..MaxEpoch + 1
  /\ closing \in {"no", "teardown", "closing", "track", "closed"}
  /\ source_failed \in BOOLEAN
  /\ pump \in [Epoch -> [pc : {"none", "created", "reading", "draining",
                               "cancelled", "done"},
                         gen : 0..MaxEpoch + 1,
                         batch : Seq(Position)]]
  /\ worker \in [Epoch -> [pc : {"idle", "running", "returned", "failed"},
                           sought : BOOLEAN]]
  /\ iter_gen \in 0..MaxEpoch + 2
  /\ native_lock \in Epoch \cup {None}
  /\ position \in 1..Length + 1
  /\ container \in {"open", "closed"}
  /\ control_in \in Seq(Epoch \cup {None})
  /\ control_out \in Seq(Epoch \cup {None})
  /\ connected \in BOOLEAN
  /\ uplink \in Seq([epoch : Epoch, item : 1..EOS])
  /\ session_epoch \in Epoch /\ pipeline_epoch \in Epoch
  /\ server \in {"open", "closed"}
  /\ accepted \in [epoch : Epoch, data : Seq(1..EOS)]
  /\ failures \in 0..MaxFailures

(* The session is open and its media attached. The player starts the       *)
(* uplink at the beginning of the file, unless it seeks to where playback  *)
(* was left: then the first pump is that of the seek.                      *)
Init ==
  /\ epoch = 0
  /\ seeks = [e \in Epoch |-> "none"]
  /\ pending = {}
  /\ closing = "no"
  /\ source_failed = FALSE
  /\ \E resumed \in BOOLEAN :
       LET g == IF resumed THEN 0 ELSE 1
       IN /\ uplink_task = IF resumed THEN None ELSE 0
          /\ uplink_generation = g /\ iter_gen = g
          /\ pump = [e \in Epoch |->
                       [pc |-> IF e = 0 /\ ~resumed THEN "created" ELSE "none",
                        gen |-> IF e = 0 THEN g ELSE 0,
                        batch |-> <<>>]]
  /\ worker = [e \in Epoch |-> [pc |-> "idle", sought |-> e = 0]]
  /\ native_lock = None
  /\ position = 1
  /\ container = "open"
  /\ control_in = <<>> /\ control_out = <<>>
  /\ connected = TRUE
  /\ uplink = <<>>
  /\ session_epoch = 0 /\ pipeline_epoch = 0
  /\ server = "open"
  /\ accepted = [epoch |-> 0, data |-> <<>>]
  /\ failures = 0

-----------------------------------------------------------------------------
(* What several actions share.                                             *)

Cancel(p) == IF uplink_task = None \/ p[uplink_task].pc = "done" THEN p
             ELSE [p EXCEPT ![uplink_task].pc = "cancelled"]

(* One more of the failures that are allowed.                             *)
Failure == failures < MaxFailures /\ failures' = failures + 1

Live == closing \in {"no", "teardown"}          \* ~_closing

(* May this pump take a short batch for the end of the file?               *)
Current(e) == e = epoch /\ pump[e].gen = uplink_generation /\ Live

Packets(e, items) == [i \in DOMAIN items |-> [epoch |-> e, item |-> items[i]]]

-----------------------------------------------------------------------------
(* Plausible bugs. Each is the action after which it is named with one     *)
(* guard, assignment or reply gone wrong; no action of Next uses them.     *)

(* An older seek is forgotten and its waiter with it.                      *)
SeekForgetsOlder ==
  /\ epoch < MaxEpoch /\ closing = "no"
  /\ epoch' = epoch + 1
  /\ seeks' = [seeks EXCEPT ![epoch + 1] = IF connected THEN "waiting" ELSE "failed"]
  /\ pending' = IF connected THEN {epoch + 1} ELSE {}
  /\ pump' = Cancel(pump)
  /\ control_in' = IF connected THEN Append(control_in, epoch + 1) ELSE control_in
  /\ UNCHANGED <<uplink_task, uplink_generation, closing, source_failed, worker,
                 demuxVars, control_out, connected, uplink, serverVars, failures>>

(* The waiters are not told apart by their epochs.                         *)
ReadControlAnyWaiter ==
  /\ connected /\ Live /\ control_out # <<>>
  /\ control_out' = Tail(control_out)
  /\ pending' = {}
  /\ seeks' = [e \in Epoch |-> IF e \notin pending THEN seeks[e]
                               ELSE IF Head(control_out) = None THEN "failed"
                               ELSE "answered"]
  /\ UNCHANGED <<epoch, uplink_task, uplink_generation, closing, source_failed,
                 pump, worker, demuxVars, control_in, connected, uplink, serverVars,
                 failures>>

(* A superseded iterator reads on.                                         *)
WorkerEnterUnchecked(e) ==
  /\ worker[e].pc = "running" /\ native_lock = None
  /\ native_lock' = e
  /\ UNCHANGED <<clientVars, pump, worker, iter_gen, position, container,
                 controlVars, uplink, serverVars, failures>>

(* The lock is lost with the exception.                                    *)
WorkerFailsLocked(e) ==
  /\ Failure /\ native_lock = e
  /\ worker' = [worker EXCEPT ![e].pc = "failed"]
  /\ UNCHANGED <<clientVars, pump, demuxVars, controlVars, uplink, serverVars>>

(* An empty batch ends the pump, but the stream only without its EOS.      *)
PumpSendsNoEmptyBatch(e) ==
  /\ pump[e].pc = "reading" /\ worker[e].pc = "returned"
  /\ worker' = [worker EXCEPT ![e].pc = "idle"]
  /\ IF Current(e) /\ server = "open" /\ pump[e].batch # <<>>
       THEN /\ uplink' = uplink \o Packets(e, pump[e].batch)
            /\ pump' = [pump EXCEPT ![e].pc = "draining"]
       ELSE pump' = [pump EXCEPT ![e].pc = "done"] /\ UNCHANGED uplink
  /\ UNCHANGED <<clientVars, demuxVars, controlVars, serverVars, failures>>

(* The iterators are not superseded by a close.                            *)
CloseTrackQuiet ==
  /\ closing = "closing"
  /\ uplink_task # None => pump[uplink_task].pc = "done"
  /\ closing' = "track"
  /\ UNCHANGED <<epoch, seeks, pending, uplink_task, uplink_generation,
                 source_failed, pump, worker, demuxVars, controlVars, uplink,
                 serverVars, failures>>

-----------------------------------------------------------------------------
(* seek() and start_uplink().                                              *)

(* Up to the first await: the waiters of older seeks are resolved, each    *)
(* with its own epoch. On a closed connection the request raises.          *)
Seek ==
  /\ epoch < MaxEpoch /\ closing = "no"
  /\ epoch' = epoch + 1
  /\ seeks' = [e \in Epoch |->
                 IF e = epoch + 1 THEN IF connected THEN "waiting" ELSE "failed"
                 ELSE IF e \in pending THEN "answered" ELSE seeks[e]]
  /\ pending' = IF connected THEN {epoch + 1} ELSE {}
  /\ pump' = Cancel(pump)
  /\ control_in' = IF connected THEN Append(control_in, epoch + 1) ELSE control_in
  /\ UNCHANGED <<uplink_task, uplink_generation, closing, source_failed, worker,
                 demuxVars, control_out, connected, uplink, serverVars, failures>>

(* The reply is there: an older one ends the call, and start_uplink        *)
(* cancels the pump there is before it awaits its end.                     *)
SeekAnswered(e) ==
  /\ seeks[e] = "answered"
  /\ IF e < epoch
       THEN /\ seeks' = [seeks EXCEPT ![e] = "returned"]
            /\ UNCHANGED pump
       ELSE /\ seeks' = [seeks EXCEPT ![e] = "joining"]
            /\ pump' = Cancel(pump)
  /\ UNCHANGED <<epoch, pending, uplink_task, uplink_generation, closing,
                 source_failed, worker, demuxVars, controlVars, uplink, serverVars,
                 failures>>

(* With the old pump at its end: another seek or a close may have come.    *)
StartUplink(e) ==
  /\ seeks[e] = "joining"
  /\ uplink_task # None => pump[uplink_task].pc = "done"
  /\ seeks' = [seeks EXCEPT ![e] = "returned"]
  /\ IF e = epoch /\ Live
       THEN /\ uplink_generation' = uplink_generation + 1
            /\ iter_gen' = iter_gen + 1                       \* packets()
            /\ uplink_task' = e
            /\ pump' = [pump EXCEPT ![e].pc = "created",
                                    ![e].gen = uplink_generation + 1]
       ELSE UNCHANGED <<uplink_generation, iter_gen, uplink_task, pump>>
  /\ UNCHANGED <<epoch, pending, closing, source_failed, worker, native_lock,
                 position, container, controlVars, uplink, serverVars, failures>>

(* _request gives up after 30 s without a reply.                           *)
SeekTimeout(e) ==
  /\ Failure /\ e \in pending
  /\ pending' = pending \ {e}
  /\ seeks' = [seeks EXCEPT ![e] = "failed"]
  /\ UNCHANGED <<epoch, uplink_task, uplink_generation, closing, source_failed,
                 pump, worker, demuxVars, controlVars, uplink, serverVars>>

-----------------------------------------------------------------------------
(* The control reader, until _close cancels it.                            *)

FailPending == seeks' = [e \in Epoch |-> IF e \in pending THEN "failed" ELSE seeks[e]]

ReadControl ==
  /\ connected /\ Live /\ control_out # <<>>
  /\ control_out' = Tail(control_out)
  /\ IF Head(control_out) = None
       THEN FailPending /\ pending' = {}
       ELSE /\ pending' = pending \ {Head(control_out)}
            /\ seeks' = [e \in Epoch |-> IF e \in pending \ pending' THEN "answered"
                                         ELSE seeks[e]]
  /\ UNCHANGED <<epoch, uplink_task, uplink_generation, closing, source_failed,
                 pump, worker, demuxVars, control_in, connected, uplink, serverVars,
                 failures>>

(* The connection is lost: every waiter fails, and the server closes the   *)
(* session that belonged to it.                                            *)
Disconnect ==
  /\ Failure /\ connected
  /\ connected' = FALSE
  /\ control_in' = <<>> /\ control_out' = <<>>
  /\ FailPending /\ pending' = {}
  /\ server' = "closed" /\ uplink' = <<>>
  /\ UNCHANGED <<epoch, uplink_task, uplink_generation, closing, source_failed,
                 pump, worker, demuxVars, session_epoch, pipeline_epoch, accepted>>

-----------------------------------------------------------------------------
(* The demux worker: next_batch() of one pump on its thread, with one      *)
(* native call at a time under the lock. A cancelled pump leaves it        *)
(* behind; its iterator finds itself superseded at its next call.          *)

(* The generation is checked with the lock in hand; a new one may be       *)
(* claimed while the native call runs.                                     *)
WorkerEnter(e) ==
  /\ worker[e].pc = "running" /\ native_lock = None
  /\ IF pump[e].gen = iter_gen
       THEN native_lock' = e /\ UNCHANGED worker
       ELSE worker' = [worker EXCEPT ![e].pc = "returned"] /\ UNCHANGED native_lock
  /\ UNCHANGED <<clientVars, pump, iter_gen, position, container, controlVars,
                 uplink, serverVars, failures>>

(* The native call is a seek at first (packets() without a position reads  *)
(* on from where the container is), then a read.                           *)
WorkerLeave(e) ==
  /\ native_lock = e /\ worker[e].pc = "running"
  /\ native_lock' = None
  /\ IF ~worker[e].sought
       THEN /\ position' = Target[e]
            /\ worker' = [worker EXCEPT ![e].sought = TRUE]
            /\ UNCHANGED pump
       ELSE IF position \in Position
       THEN LET batch == Append(pump[e].batch, position)
            IN /\ position' = position + 1
               /\ pump' = [pump EXCEPT ![e].batch = batch]
               /\ worker' = [worker EXCEPT ![e].pc =
                               IF Len(batch) = UplinkBatch THEN "returned" ELSE @]
       ELSE /\ worker' = [worker EXCEPT ![e].pc = "returned"]
            /\ UNCHANGED <<position, pump>>
  /\ UNCHANGED <<clientVars, iter_gen, container, controlVars, uplink, serverVars,
                 failures>>

WorkerFails(e) ==
  /\ Failure /\ native_lock = e /\ worker[e].pc = "running"
  /\ native_lock' = None
  /\ worker' = [worker EXCEPT ![e].pc = "failed"]
  /\ UNCHANGED <<clientVars, pump, iter_gen, position, container, controlVars,
                 uplink, serverVars>>

-----------------------------------------------------------------------------
(* The pump, _uplink_loop.                                                 *)

(* Its next hop to the worker: the first, or after a full batch was sent.  *)
PumpReads(e) ==
  /\ \/ pump[e].pc = "created"
     \/ /\ pump[e].pc = "draining" /\ Len(uplink) < UplinkRoom
        /\ server = "open" /\ Len(pump[e].batch) = UplinkBatch
  /\ pump' = [pump EXCEPT ![e].pc = "reading", ![e].batch = <<>>]
  /\ worker' = [worker EXCEPT ![e].pc = "running"]
  /\ UNCHANGED <<clientVars, demuxVars, controlVars, uplink, serverVars,
                 failures>>

(* A batch has been read. One that is not full means the end of the file   *)
(* to a current pump only; it is followed by EOS.                          *)
PumpSends(e) ==
  /\ pump[e].pc = "reading" /\ worker[e].pc = "returned"
  /\ worker' = [worker EXCEPT ![e].pc = "idle"]
  /\ IF Current(e) /\ server = "open"
       THEN /\ uplink' = uplink \o Packets(e, IF pump[e].batch = <<>> THEN <<EOS>>
                                              ELSE pump[e].batch)
            /\ pump' = [pump EXCEPT ![e].pc =
                          IF pump[e].batch = <<>> THEN "done" ELSE "draining"]
       ELSE pump' = [pump EXCEPT ![e].pc = "done"] /\ UNCHANGED uplink
  /\ UNCHANGED <<clientVars, demuxVars, controlVars, serverVars, failures>>

PumpEnds(e) ==
  /\ pump[e].pc = "draining" /\ Len(uplink) < UplinkRoom
  /\ server = "open" => Len(pump[e].batch) < UplinkBatch
  /\ uplink' = IF server = "open" /\ Current(e)
                 THEN uplink \o Packets(e, <<EOS>>) ELSE uplink
  /\ pump' = [pump EXCEPT ![e].pc = "done"]
  /\ UNCHANGED <<clientVars, worker, demuxVars, controlVars, serverVars,
                 failures>>

(* The read raised: _fail_source, unless another pump reads anew.          *)
PumpFails(e) ==
  /\ pump[e].pc = "reading" /\ worker[e].pc = "failed"
  /\ source_failed' = (source_failed \/ Current(e))
  /\ pump' = [pump EXCEPT ![e].pc = "done"]
  /\ UNCHANGED <<epoch, seeks, pending, uplink_task, uplink_generation, closing,
                 worker, demuxVars, controlVars, uplink, serverVars, failures>>

PumpCancelled(e) ==
  /\ pump[e].pc = "cancelled"
  /\ pump' = [pump EXCEPT ![e].pc = "done"]
  /\ UNCHANGED <<clientVars, worker, demuxVars, controlVars, uplink, serverVars,
                 failures>>

-----------------------------------------------------------------------------
(* The server. Between the two steps of a seek its pipeline is flushed.    *)

TakeSeek ==
  /\ connected /\ session_epoch = pipeline_epoch /\ server = "open"
  /\ control_in # <<>> /\ Head(control_in) # None
  /\ control_in' = Tail(control_in)
  /\ session_epoch' = IF Head(control_in) > session_epoch THEN Head(control_in)
                      ELSE session_epoch
  /\ UNCHANGED <<clientVars, pump, worker, demuxVars, control_out, connected,
                 uplink, pipeline_epoch, server, accepted, failures>>

AcknowledgeSeek ==
  /\ session_epoch # pipeline_epoch /\ connected /\ server = "open"
  /\ pipeline_epoch' = session_epoch
  /\ control_out' = Append(control_out, session_epoch)
  /\ UNCHANGED <<clientVars, pump, worker, demuxVars, control_in, connected,
                 uplink, session_epoch, server, accepted, failures>>

(* _run_uplink: what is stale is dropped before any processing.            *)
RunUplink ==
  /\ server = "open" /\ uplink # <<>>
  /\ uplink' = Tail(uplink)
  /\ LET pkt == Head(uplink)
     IN accepted' = IF pkt.epoch < session_epoch THEN accepted
                    ELSE IF pkt.epoch = accepted.epoch
                    THEN [accepted EXCEPT !.data = Append(@, pkt.item)]
                    ELSE [epoch |-> pkt.epoch, data |-> <<pkt.item>>]
  /\ UNCHANGED <<clientVars, pump, worker, demuxVars, controlVars, session_epoch,
                 pipeline_epoch, server, failures>>

(* The session closes itself (_pipeline_error), or on the teardown.        *)
ServerCloses ==
  /\ server = "open" /\ connected
  /\ \/ /\ Failure
        /\ control_out' = Append(control_out, None)
        /\ UNCHANGED control_in
     \/ /\ control_in # <<>> /\ Head(control_in) = None
        /\ session_epoch = pipeline_epoch
        /\ control_in' = Tail(control_in)
        /\ UNCHANGED <<control_out, failures>>
  /\ server' = "closed" /\ uplink' = <<>>
  /\ UNCHANGED <<clientVars, pump, worker, demuxVars, connected, session_epoch,
                 pipeline_epoch, accepted>>

-----------------------------------------------------------------------------
(* teardown() and _close() of the client.                                  *)

Teardown ==
  /\ closing = "no"
  /\ closing' = "teardown"
  /\ pump' = Cancel(pump)
  /\ control_in' = IF connected THEN Append(control_in, None) ELSE control_in
  /\ UNCHANGED <<epoch, seeks, pending, uplink_task, uplink_generation,
                 source_failed, worker, demuxVars, control_out, connected, uplink,
                 serverVars, failures>>

(* Acknowledged or not, _close begins: the pump and the reader are         *)
(* cancelled, and what still waits for a reply fails.                      *)
BeginClose ==
  /\ closing = "teardown"
  /\ closing' = "closing"
  /\ pump' = Cancel(pump)
  /\ FailPending /\ pending' = {}
  /\ UNCHANGED <<epoch, uplink_task, uplink_generation, source_failed, worker,
                 demuxVars, controlVars, uplink, serverVars, failures>>

(* VideoTrack.close: the iterators are superseded without the native lock, *)
(* and the container closed with it.                                       *)
CloseTrack ==
  /\ closing = "closing"
  /\ uplink_task # None => pump[uplink_task].pc = "done"
  /\ closing' = "track"
  /\ iter_gen' = iter_gen + 1
  /\ UNCHANGED <<epoch, seeks, pending, uplink_task, uplink_generation,
                 source_failed, pump, worker, native_lock, position, container,
                 controlVars, uplink, serverVars, failures>>

CloseContainer ==
  /\ closing = "track" /\ native_lock = None
  /\ closing' = "closed"
  /\ container' = "closed"
  /\ UNCHANGED <<epoch, seeks, pending, uplink_task, uplink_generation,
                 source_failed, pump, worker, iter_gen, native_lock, position,
                 controlVars, uplink, serverVars, failures>>

-----------------------------------------------------------------------------
SeekStep(e) == SeekAnswered(e) \/ StartUplink(e)
WorkerStep(e) == WorkerEnter(e) \/ WorkerLeave(e)
PumpStep(e) == PumpReads(e) \/ PumpSends(e) \/ PumpEnds(e) \/ PumpFails(e)
               \/ PumpCancelled(e)
ServerStep == TakeSeek \/ AcknowledgeSeek \/ RunUplink

Proceed == \/ \E e \in Epoch : SeekStep(e) \/ WorkerStep(e) \/ PumpStep(e)
           \/ ReadControl \/ ServerStep
           \/ BeginClose \/ CloseTrack \/ CloseContainer

Next == \/ Proceed
        \/ Seek \/ Disconnect \/ ServerCloses \/ Teardown
        \/ \E e \in Epoch : SeekTimeout(e) \/ WorkerFails(e)

Spec == Init /\ [][Next]_vars

(* Threads and tasks go on, and the server reads and answers. No seek,     *)
(* failure or close is assumed. Every step of Proceed that can be taken    *)
(* brings its end nearer, so fairness to the disjunction is enough.        *)
FairSpec == Spec /\ WF_vars(Proceed)

-----------------------------------------------------------------------------
(* Properties.                                                             *)

(* What the server feeds its pipeline for an epoch is the file from the    *)
(* target of the seek, in order, without a gap or a repetition, and EOS    *)
(* only after the last packet; never an older epoch after a newer one.     *)
(* The pumps, the workers they leave behind and the stale packets on the   *)
(* way together keep to what EpochStream promises (a short batch of a      *)
(* superseded iterator is not the end of the file).                        *)
Promise == INSTANCE EpochStream WITH
  Auxiliary <- {},
  asked <- epoch,
  stream <- [epoch |-> accepted.epoch,
             data |-> IF accepted.data = <<>> THEN <<>> ELSE <<0>> \o accepted.data,
             eos |-> EOS \in {accepted.data[i] : i \in DOMAIN accepted.data}]
UplinkStreams == Promise!Spec

(* The client sends packets of an epoch only after the server's pipeline   *)
(* has been flushed to it: an acknowledgement of an older seek resolves no *)
(* waiter but its own (seek() and _request), and a flush of a newer epoch  *)
(* never discards packets of it.                                           *)
AcknowledgedFirst == \A i \in DOMAIN uplink : uplink[i].epoch <= pipeline_epoch

(* No native call is under way in a container that has been closed.        *)
ContainerSafe == container = "closed" => native_lock = None

Ended == closing # "no" \/ ~connected \/ server = "closed" \/ source_failed

(* The source of the newest seek reaches the server to its end, unless     *)
(* another seek comes, the seek fails or the session ends.                 *)
Sent(e) == accepted.epoch = e /\ accepted.data # <<>>
           /\ accepted.data[Len(accepted.data)] = EOS
SeekServed ==
  \A e \in 1..MaxEpoch :
    []<>(Sent(e) \/ epoch # e \/ seeks[e] = "failed" \/ Ended)

(* A seek() that was called returns or raises, without the help of its     *)
(* timeout, as long as the server answers at all: none waits for ever.     *)
SeeksReturn ==
  \A e \in 1..MaxEpoch : []<>(seeks[e] # "waiting" \/ server = "closed")

(* A close of the client gets to the end, whatever its workers do.         *)
CloseEnds == []<>(closing \in {"no", "closed"})
=============================================================================
