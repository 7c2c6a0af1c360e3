------------------------- MODULE ClientUplink_proofs -------------------------
(***************************************************************************)
(* Proofs about ClientUplink for every file, number of seeks and targets,  *)
(* batch, room on the connection and number of failures.                   *)
(***************************************************************************)
EXTENDS ClientUplink, SequenceTheorems, TLAPS

(* The seeks: each has a pump of its own, made once, and a generation to   *)
(* it; a waiter is in _pending.                                            *)
SeekInv ==
  /\ \A e \in Epoch : e > epoch => seeks[e] = "none" /\ pump[e].pc = "none"
  /\ \A e \in Epoch : seeks[e] \in {"waiting", "answered", "joining"} =>
                        e # 0 /\ pump[e].pc = "none"
  /\ \A e \in pending : seeks[e] = "waiting"
  /\ uplink_generation <= epoch + 1
  /\ seeks[epoch] \in {"waiting", "answered", "joining"} => uplink_generation <= epoch
  /\ iter_gen = uplink_generation + IF closing \in {"track", "closed"} THEN 1 ELSE 0

(* The newest generation is that of the pump the attribute names.          *)
GenerationInv ==
  /\ \A e \in Epoch : pump[e].gen <= uplink_generation
  /\ \A e \in Epoch : pump[e].pc # "none" /\ pump[e].gen = uplink_generation =>
                        e = uplink_task
  /\ uplink_task # None => /\ pump[uplink_task].pc # "none"
                           /\ pump[uplink_task].gen = uplink_generation

(* A pump starts after the flush to its epoch.                             *)
FlushInv ==
  /\ pipeline_epoch <= session_epoch /\ session_epoch <= epoch
  /\ \A i \in DOMAIN control_in : control_in[i] <= epoch
  /\ \A i \in DOMAIN control_out : control_out[i] <= pipeline_epoch
  /\ seeks[epoch] \in {"answered", "joining"} => epoch <= pipeline_epoch
  /\ \A e \in Epoch : pump[e].pc # "none" => e <= pipeline_epoch
  /\ \A i \in DOMAIN uplink : pump[uplink[i].epoch].pc # "none"

(* The workers and the native lock.                                        *)
WorkerInv ==
  /\ \A e \in Epoch : pump[e].pc = "none" =>
       /\ worker[e].pc = "idle" /\ pump[e].batch = <<>>
       /\ worker[e].sought <=> e = 0
  /\ \A e \in Epoch : /\ pump[e].pc \in {"created", "draining"} => worker[e].pc = "idle"
                      /\ native_lock = e => worker[e].pc = "running"
  /\ container = "closed" <=> closing = "closed"
  /\ container = "closed" => native_lock = None

(* The item that comes after all that has been sent for this epoch.        *)
Coming(e) ==
  IF uplink # <<>> /\ uplink[Len(uplink)].epoch = e THEN uplink[Len(uplink)].item + 1
  ELSE IF accepted.epoch = e THEN Target[e] + Len(accepted.data)
  ELSE Target[e]

(* The server's part of the stream of its epoch.                           *)
InOrder ==
  \A i \in DOMAIN accepted.data : accepted.data[i] = Target[accepted.epoch] + i - 1

(* One packet on the uplink after another.                                 *)
Follows(p, q) ==
  q.item = IF q.epoch = p.epoch THEN p.item + 1 ELSE Target[q.epoch]

(* What is on the way goes on where the server is, and then in itself; an  *)
(* older epoch never comes after a newer one.                              *)
UnderWay ==
  /\ accepted.epoch <= pipeline_epoch
  /\ accepted.data # <<>> => pump[accepted.epoch].pc # "none"
  /\ \A i \in DOMAIN uplink : accepted.epoch <= uplink[i].epoch
  /\ \A i, j \in DOMAIN uplink : i <= j => uplink[i].epoch <= uplink[j].epoch
  /\ uplink # <<>> /\ uplink[1].epoch >= session_epoch =>
       uplink[1].item = IF uplink[1].epoch = accepted.epoch
                          THEN Target[accepted.epoch] + Len(accepted.data)
                          ELSE Target[uplink[1].epoch]
  /\ \A i \in DOMAIN uplink : i + 1 \in DOMAIN uplink => Follows(uplink[i], uplink[i + 1])

(* What a pump that may still send has read goes on where the packets on   *)
(* the way end, and its worker alone moves the container.                  *)
Sends(e) == Current(e) /\ server = "open" /\ pump[e].pc \in {"created", "reading", "draining"}
ReadsOf(e) ==
  /\ pump[e].pc = "created" \/ ~worker[e].sought => Coming(e) = Target[e]
  /\ ~worker[e].sought => pump[e].pc # "draining" /\ pump[e].batch = <<>>
  /\ worker[e].sought =>
       /\ native_lock \in {None, e}
       /\ position = Coming(e) + IF pump[e].pc = "reading" THEN Len(pump[e].batch) ELSE 0
  /\ pump[e].pc = "reading" =>
       \A i \in DOMAIN pump[e].batch : pump[e].batch[i] = Coming(e) + i - 1
  /\ pump[e].pc = "draining" \/ worker[e].pc = "returned" =>
       \/ Len(pump[e].batch) = UplinkBatch
       \/ worker[e].sought /\ position = EOS
Reads == \A e \in Epoch : Sends(e) => ReadsOf(e)

UplinkInv == /\ TypeOK /\ SeekInv /\ GenerationInv /\ FlushInv /\ WorkerInv
             /\ InOrder /\ UnderWay /\ Reads
-----------------------------------------------------------------------------
(* Type correctness. The generations are bounded because a seek starts one *)
(* pump at most, which is part of SeekInv.                                 *)

LEMMA Constants ==
  /\ Length \in Nat /\ MaxEpoch \in Nat /\ MaxFailures \in Nat
  /\ UplinkBatch \in Nat /\ UplinkBatch >= 1
  /\ Target \in [Epoch -> 1..EOS] /\ Target[0] = 1
  /\ EOS = Length + 1 /\ None \notin Epoch /\ 0 \in Epoch
BY UplinkAssumption DEF Epoch, EOS, None

LEMMA InitialTypes ==
  ASSUME Init
  PROVE  TypeOK
<1> USE Constants DEF Init, TypeOK
<1>1. pump \in [Epoch -> [pc : {"none", "created", "reading", "draining",
                               "cancelled", "done"},
                         gen : 0..MaxEpoch + 1,
                         batch : Seq(Position)]]
  <2>1. <<>> \in Seq(Position)
    OBVIOUS
  <2> QED
    BY <2>1
<1>2. /\ seeks \in [Epoch -> {"none", "waiting", "answered", "joining", "returned",
                             "failed"}]
      /\ worker \in [Epoch -> [pc : {"idle", "running", "returned", "failed"},
                               sought : BOOLEAN]]
      /\ uplink_task \in Epoch \cup {None}
      /\ uplink_generation \in 0..MaxEpoch + 1 /\ iter_gen \in 0..MaxEpoch + 2
  OBVIOUS
<1>3. /\ pending \subseteq 1..epoch
      /\ control_in \in Seq(Epoch \cup {None}) /\ control_out \in Seq(Epoch \cup {None})
      /\ uplink \in Seq([epoch : Epoch, item : 1..EOS])
      /\ accepted \in [epoch : Epoch, data : Seq(1..EOS)]
      /\ position \in 1..Length + 1 /\ failures \in 0..MaxFailures
  OBVIOUS
<1> QED
  BY <1>1, <1>2, <1>3

(* The records of the pumps and the workers, one field or two at a time.   *)
PumpPc == {"none", "created", "reading", "draining", "cancelled", "done"}
Pumps == [pc : PumpPc, gen : 0..MaxEpoch + 1, batch : Seq(Position)]
Workers == [pc : {"idle", "running", "returned", "failed"}, sought : BOOLEAN]
PacketSet == [epoch : Epoch, item : 1..EOS]

LEMMA Records == TypeOK => pump \in [Epoch -> Pumps] /\ worker \in [Epoch -> Workers]
BY DEF TypeOK, Pumps, PumpPc, Workers

LEMMA PumpGoes ==
  ASSUME NEW p \in [Epoch -> Pumps], NEW e \in Epoch, NEW c \in PumpPc
  PROVE  /\ [p EXCEPT ![e].pc = c] \in [Epoch -> Pumps]
         /\ \A f \in Epoch :
              /\ [p EXCEPT ![e].pc = c][f].pc = IF f = e THEN c ELSE p[f].pc
              /\ [p EXCEPT ![e].pc = c][f].gen = p[f].gen
              /\ [p EXCEPT ![e].pc = c][f].batch = p[f].batch
<1>1. p[e] \in Pumps
  OBVIOUS
<1>2. /\ [p[e] EXCEPT !.pc = c] \in Pumps /\ [p[e] EXCEPT !.pc = c].pc = c
      /\ [p[e] EXCEPT !.pc = c].gen = p[e].gen
      /\ [p[e] EXCEPT !.pc = c].batch = p[e].batch
  BY <1>1 DEF Pumps
<1> QED
  BY <1>2

LEMMA PumpTakes ==
  ASSUME NEW p \in [Epoch -> Pumps], NEW e \in Epoch, NEW c \in PumpPc,
         NEW b \in Seq(Position)
  PROVE  /\ [p EXCEPT ![e].pc = c, ![e].batch = b] \in [Epoch -> Pumps]
         /\ \A f \in Epoch :
              /\ [p EXCEPT ![e].pc = c, ![e].batch = b][f].pc = IF f = e THEN c ELSE p[f].pc
              /\ [p EXCEPT ![e].pc = c, ![e].batch = b][f].gen = p[f].gen
              /\ [p EXCEPT ![e].pc = c, ![e].batch = b][f].batch
                    = IF f = e THEN b ELSE p[f].batch
<1> DEFINE r == [p[e] EXCEPT !.pc = c, !.batch = b]
<1>1. p[e] \in Pumps
  OBVIOUS
<1>2. r \in Pumps /\ r.pc = c /\ r.gen = p[e].gen /\ r.batch = b
  BY <1>1 DEF Pumps
<1>3. [p EXCEPT ![e].pc = c, ![e].batch = b] = [p EXCEPT ![e] = r]
  OBVIOUS
<1> HIDE DEF r
<1> QED
  BY <1>2, <1>3

LEMMA PumpReadsOne ==
  ASSUME NEW p \in [Epoch -> Pumps], NEW e \in Epoch, NEW b \in Seq(Position)
  PROVE  /\ [p EXCEPT ![e].batch = b] \in [Epoch -> Pumps]
         /\ \A f \in Epoch :
              /\ [p EXCEPT ![e].batch = b][f].pc = p[f].pc
              /\ [p EXCEPT ![e].batch = b][f].gen = p[f].gen
              /\ [p EXCEPT ![e].batch = b][f].batch = IF f = e THEN b ELSE p[f].batch
<1> DEFINE r == [p[e] EXCEPT !.batch = b]
<1>1. p[e] \in Pumps
  OBVIOUS
<1>2. r \in Pumps /\ r.pc = p[e].pc /\ r.gen = p[e].gen /\ r.batch = b
  BY <1>1 DEF Pumps
<1>3. [p EXCEPT ![e].batch = b] = [p EXCEPT ![e] = r]
  OBVIOUS
<1> HIDE DEF r
<1> QED
  BY <1>2, <1>3

LEMMA PumpStarts ==
  ASSUME NEW p \in [Epoch -> Pumps], NEW e \in Epoch, NEW c \in PumpPc,
         NEW g \in 0..MaxEpoch + 1
  PROVE  /\ [p EXCEPT ![e].pc = c, ![e].gen = g] \in [Epoch -> Pumps]
         /\ \A f \in Epoch :
              /\ [p EXCEPT ![e].pc = c, ![e].gen = g][f].pc = IF f = e THEN c ELSE p[f].pc
              /\ [p EXCEPT ![e].pc = c, ![e].gen = g][f].gen = IF f = e THEN g ELSE p[f].gen
              /\ [p EXCEPT ![e].pc = c, ![e].gen = g][f].batch = p[f].batch
<1> DEFINE r == [p[e] EXCEPT !.pc = c, !.gen = g]
<1>1. p[e] \in Pumps
  OBVIOUS
<1>2. r \in Pumps /\ r.pc = c /\ r.gen = g /\ r.batch = p[e].batch
  BY <1>1 DEF Pumps
<1>3. [p EXCEPT ![e].pc = c, ![e].gen = g] = [p EXCEPT ![e] = r]
  OBVIOUS
<1> HIDE DEF r
<1> QED
  BY <1>2, <1>3

LEMMA WorkerGoes ==
  ASSUME NEW w \in [Epoch -> Workers], NEW e \in Epoch,
         NEW c \in {"idle", "running", "returned", "failed"}
  PROVE  /\ [w EXCEPT ![e].pc = c] \in [Epoch -> Workers]
         /\ \A f \in Epoch :
              /\ [w EXCEPT ![e].pc = c][f].pc = IF f = e THEN c ELSE w[f].pc
              /\ [w EXCEPT ![e].pc = c][f].sought = w[f].sought
BY DEF Workers

LEMMA WorkerSeeks ==
  ASSUME NEW w \in [Epoch -> Workers], NEW e \in Epoch
  PROVE  /\ [w EXCEPT ![e].sought = TRUE] \in [Epoch -> Workers]
         /\ [w EXCEPT ![e].sought = TRUE][e].sought
         /\ \A f \in Epoch :
              /\ [w EXCEPT ![e].sought = TRUE][f].pc = w[f].pc
              /\ f # e => [w EXCEPT ![e].sought = TRUE][f].sought = w[f].sought
BY DEF Workers

LEMMA CancelTypes ==
  ASSUME TypeOK
  PROVE  /\ Cancel(pump) \in [Epoch -> Pumps]
         /\ \A f \in Epoch :
              /\ Cancel(pump)[f].pc = IF f = uplink_task /\ pump[f].pc # "done"
                                        THEN "cancelled" ELSE pump[f].pc
              /\ Cancel(pump)[f].gen = pump[f].gen
              /\ Cancel(pump)[f].batch = pump[f].batch
<1>0. pump \in [Epoch -> Pumps] /\ uplink_task \in Epoch \cup {None} /\ None \notin Epoch
  BY Records, Constants DEF TypeOK
<1>1. CASE uplink_task = None \/ pump[uplink_task].pc = "done"
  BY <1>0, <1>1 DEF Cancel
<1>2. CASE ~(uplink_task = None \/ pump[uplink_task].pc = "done")
  <2>1. /\ uplink_task \in Epoch /\ "cancelled" \in PumpPc
        /\ Cancel(pump) = [pump EXCEPT ![uplink_task].pc = "cancelled"]
    BY <1>0, <1>2 DEF PumpPc, Cancel
  <2> QED
    BY <1>0, <1>2, <2>1, PumpGoes
<1> QED
  BY <1>1, <1>2

(* All of TypeOK but the records of the pumps and the workers.             *)
OtherTypes ==
  /\ epoch \in Epoch
  /\ seeks \in [Epoch -> {"none", "waiting", "answered", "joining", "returned",
                          "failed"}]
  /\ pending \subseteq 1..epoch
  /\ uplink_task \in Epoch \cup {None}
  /\ uplink_generation \in 0..MaxEpoch + 1
  /\ closing \in {"no", "teardown", "closing", "track", "closed"}
  /\ source_failed \in BOOLEAN
  /\ iter_gen \in 0..MaxEpoch + 2
  /\ native_lock \in Epoch \cup {None}
  /\ position \in 1..Length + 1
  /\ container \in {"open", "closed"}
  /\ control_in \in Seq(Epoch \cup {None})
  /\ control_out \in Seq(Epoch \cup {None})
  /\ connected \in BOOLEAN
  /\ uplink \in Seq(PacketSet)
  /\ session_epoch \in Epoch /\ pipeline_epoch \in Epoch
  /\ server \in {"open", "closed"}
  /\ accepted \in [epoch : Epoch, data : Seq(1..EOS)]
  /\ failures \in 0..MaxFailures

LEMMA TypeParts ==
  TypeOK <=> /\ pump \in [Epoch -> Pumps] /\ worker \in [Epoch -> Workers] /\ OtherTypes
BY DEF TypeOK, Pumps, PumpPc, Workers, PacketSet, OtherTypes

LEMMA TypePartsNext ==
  TypeOK' <=> /\ pump' \in [Epoch -> Pumps] /\ worker' \in [Epoch -> Workers] /\ OtherTypes'
BY DEF TypeOK, Pumps, PumpPc, Workers, PacketSet, OtherTypes

LEMMA FunctionIsSeq ==
  ASSUME NEW S, NEW n \in Nat, NEW f \in [1..n -> S]
  PROVE  f \in Seq(S) /\ Len(f) = n
OBVIOUS

(* What Packets makes, of any items.                                       *)
LEMMA PacketSequence ==
  ASSUME NEW e \in Epoch, NEW items \in Seq(1..EOS)
  PROVE  /\ Packets(e, items) \in Seq(PacketSet)
         /\ Len(Packets(e, items)) = Len(items)
         /\ \A i \in 1..Len(items) : Packets(e, items)[i] = [epoch |-> e, item |-> items[i]]
<1>1. DOMAIN items = 1..Len(items) /\ Len(items) \in Nat /\ \A i \in 1..Len(items) : items[i] \in 1..EOS
  BY LenProperties
<1>2. Packets(e, items) \in [1..Len(items) -> PacketSet]
  BY <1>1 DEF Packets, PacketSet
<1>3. Packets(e, items) \in Seq(PacketSet) /\ Len(Packets(e, items)) = Len(items)
  BY <1>1, <1>2, FunctionIsSeq
<1>5. \A i \in 1..Len(items) : Packets(e, items)[i] = [epoch |-> e, item |-> items[i]]
  BY <1>1 DEF Packets
<1> QED
  BY <1>3, <1>5

(* What more packets make of the connection.                               *)
LEMMA MorePackets ==
  ASSUME NEW u \in Seq(PacketSet), NEW e \in Epoch, NEW items \in Seq(1..EOS)
  PROVE  /\ u \o Packets(e, items) \in Seq(PacketSet)
         /\ Len(u \o Packets(e, items)) = Len(u) + Len(items)
         /\ \A i \in 1..Len(u) : (u \o Packets(e, items))[i] = u[i]
         /\ \A i \in 1..Len(items) :
              (u \o Packets(e, items))[Len(u) + i] = [epoch |-> e, item |-> items[i]]
<1> DEFINE more == Packets(e, items)
<1>1. /\ more \in Seq(PacketSet) /\ Len(more) = Len(items)
      /\ \A i \in 1..Len(items) : more[i] = [epoch |-> e, item |-> items[i]]
  BY PacketSequence
<1>2. Len(u) \in Nat /\ Len(items) \in Nat
  BY LenProperties
<1> HIDE DEF more
<1>3. u \o more \in Seq(PacketSet) /\ Len(u \o more) = Len(u) + Len(more)
  BY <1>1
<1>4. \A i \in 1..Len(u) : (u \o more)[i] = u[i]
  BY <1>1
<1>5. \A i \in 1..Len(more) : (u \o more)[Len(u) + i] = more[i]
  BY <1>1
<1> QED
  BY <1>1, <1>3, <1>4, <1>5 DEF more

(* The items of a batch are items of a packet.                             *)
LEMMA BatchItems ==
  ASSUME NEW b \in Seq(Position)
  PROVE  b \in Seq(1..EOS)
<1>1. b \in [1..Len(b) -> Position] /\ Len(b) \in Nat
  BY LenProperties
<1>2. b \in [1..Len(b) -> 1..EOS]
  BY <1>1, Constants DEF Position
<1> QED
  BY <1>1, <1>2, FunctionIsSeq

LEMMA PumpTypes ==
  ASSUME TypeOK, NEW e \in Epoch, PumpStep(e)
  PROVE  TypeOK'
<1>0. /\ pump \in [Epoch -> Pumps] /\ worker \in [Epoch -> Workers] /\ OtherTypes
      /\ <<>> \in Seq(Position)
      /\ pump[e].batch \in Seq(Position) /\ <<EOS>> \in Seq(1..EOS)
  BY TypeParts, Constants DEF Pumps
<1>1. CASE PumpReads(e)
  <2>1. pump' \in [Epoch -> Pumps]
    <3>1. pump' = [pump EXCEPT ![e].pc = "reading", ![e].batch = <<>>]
      BY <1>1 DEF PumpReads
    <3>2. "reading" \in PumpPc
      BY DEF PumpPc
    <3> QED
      BY <1>0, <3>1, <3>2, PumpTakes, Zenon
  <2>2. worker' \in [Epoch -> Workers]
    BY <1>0, <1>1, WorkerGoes DEF PumpReads
  <2>3. OtherTypes'
    BY <1>0, <1>1 DEF PumpReads, OtherTypes, clientVars, demuxVars, controlVars, serverVars
  <2> QED
    BY <2>1, <2>2, <2>3, TypePartsNext
<1>2. CASE PumpSends(e)
  <2>1. pump' \in [Epoch -> Pumps]
    <3>1. \E c \in PumpPc : pump' = [pump EXCEPT ![e].pc = c]
      BY <1>2 DEF PumpSends, PumpPc
    <3> QED
      BY <1>0, <3>1, PumpGoes
  <2>2. worker' \in [Epoch -> Workers]
    BY <1>0, <1>2, WorkerGoes DEF PumpSends
  <2>3. uplink' \in Seq(PacketSet)
    <3>1. \/ uplink' = uplink
          \/ uplink' = uplink \o Packets(e, pump[e].batch)
          \/ uplink' = uplink \o Packets(e, <<EOS>>)
      BY <1>2 DEF PumpSends
    <3>2. /\ pump[e].batch \in Seq(1..EOS)
          /\ uplink \in Seq(PacketSet)
      BY <1>0, BatchItems DEF OtherTypes
    <3>3. /\ uplink \o Packets(e, pump[e].batch) \in Seq(PacketSet)
          /\ uplink \o Packets(e, <<EOS>>) \in Seq(PacketSet)
      BY <1>0, <3>2, MorePackets, Zenon
    <3> QED
      BY <3>1, <3>2, <3>3, Zenon
  <2>4. OtherTypes'
    BY <1>0, <1>2, <2>3 DEF PumpSends, OtherTypes, clientVars, demuxVars, controlVars,
                            serverVars
  <2> QED
    BY <2>1, <2>2, <2>4, TypePartsNext
<1>3. CASE PumpEnds(e)
  <2>1. pump' \in [Epoch -> Pumps]
    BY <1>0, <1>3, PumpGoes DEF PumpEnds, PumpPc
  <2>2. uplink' \in Seq(PacketSet)
    <3>1. uplink' = uplink \/ uplink' = uplink \o Packets(e, <<EOS>>)
      BY <1>3 DEF PumpEnds
    <3>2. uplink \in Seq(PacketSet)
      BY <1>0 DEF OtherTypes
    <3>3. uplink \o Packets(e, <<EOS>>) \in Seq(PacketSet)
      BY <1>0, <3>2, MorePackets, Zenon
    <3> QED
      BY <3>1, <3>2, <3>3, Zenon
  <2>3. OtherTypes' /\ worker' \in [Epoch -> Workers]
    BY <1>0, <1>3, <2>2 DEF PumpEnds, OtherTypes, clientVars, demuxVars, controlVars,
                            serverVars
  <2> QED
    BY <2>1, <2>3, TypePartsNext
<1>4. CASE PumpFails(e)
  <2>1. pump' \in [Epoch -> Pumps]
    BY <1>0, <1>4, PumpGoes DEF PumpFails, PumpPc
  <2>2. OtherTypes' /\ worker' \in [Epoch -> Workers]
    BY <1>0, <1>4 DEF PumpFails, OtherTypes, clientVars, demuxVars, controlVars,
                      serverVars
  <2> QED
    BY <2>1, <2>2, TypePartsNext
<1>5. CASE PumpCancelled(e)
  <2>1. pump' \in [Epoch -> Pumps]
    BY <1>0, <1>5, PumpGoes DEF PumpCancelled, PumpPc
  <2>2. OtherTypes' /\ worker' \in [Epoch -> Workers]
    BY <1>0, <1>5 DEF PumpCancelled, OtherTypes, clientVars, demuxVars, controlVars,
                      serverVars
  <2> QED
    BY <2>1, <2>2, TypePartsNext
<1> QED
  BY <1>1, <1>2, <1>3, <1>4, <1>5 DEF PumpStep

LEMMA EmptyUplink == <<>> \in Seq(PacketSet)
OBVIOUS

LEMMA FailureType ==
  ASSUME OtherTypes, Failure
  PROVE  failures' \in 0..MaxFailures
BY Constants DEF OtherTypes, Failure

LEMMA WorkerTypes ==
  ASSUME TypeOK, NEW e \in Epoch, WorkerStep(e) \/ WorkerFails(e)
  PROVE  TypeOK'
<1> USE DEF clientVars, demuxVars, controlVars, serverVars
<1>0. /\ pump \in [Epoch -> Pumps] /\ worker \in [Epoch -> Workers] /\ OtherTypes
      /\ pump[e].batch \in Seq(Position)
  BY TypeParts DEF Pumps
<1>1. CASE WorkerEnter(e)
  <2>1. worker' \in [Epoch -> Workers] /\ pump' = pump
    <3>1. worker' = worker \/ worker' = [worker EXCEPT ![e].pc = "returned"]
      BY <1>1 DEF WorkerEnter
    <3>2. [worker EXCEPT ![e].pc = "returned"] \in [Epoch -> Workers]
      BY <1>0, WorkerGoes
    <3> QED
      BY <1>0, <1>1, <3>1, <3>2 DEF WorkerEnter
  <2>2. OtherTypes'
    BY <1>0, <1>1 DEF WorkerEnter, OtherTypes
  <2> QED
    BY <1>0, <2>1, <2>2, TypePartsNext
<1>2. CASE WorkerLeave(e)
  <2>1. CASE ~worker[e].sought
    <3>1. worker' \in [Epoch -> Workers] /\ pump' = pump
      <4>1. worker' = [worker EXCEPT ![e].sought = TRUE] /\ pump' = pump
        BY <1>2, <2>1 DEF WorkerLeave
      <4> QED
        BY <1>0, <4>1, WorkerSeeks
    <3>2. Target[e] \in 1..Length + 1
      BY Constants
    <3>3. OtherTypes'
      BY <1>0, <1>2, <2>1, <3>2 DEF WorkerLeave, OtherTypes
    <3> QED
      BY <1>0, <3>1, <3>3, TypePartsNext
  <2>2. CASE worker[e].sought /\ position \in Position
    <3>1. Append(pump[e].batch, position) \in Seq(Position)
      BY <1>0, <2>2
    <3>2. pump' \in [Epoch -> Pumps]
      <4> DEFINE b == Append(pump[e].batch, position)
      <4>1. pump' = [pump EXCEPT ![e].batch = b]
        BY <1>2, <2>2 DEF WorkerLeave
      <4>2. b \in Seq(Position)
        BY <3>1
      <4> HIDE DEF b
      <4> QED
        BY <1>0, <4>1, <4>2, PumpReadsOne
    <3>3. worker' \in [Epoch -> Workers]
      BY <1>0, <1>2, <2>2 DEF WorkerLeave, Workers
    <3>4. OtherTypes'
      <4>1. position' \in 1..Length + 1
        BY <1>2, <2>2, Constants DEF WorkerLeave, Position
      <4> QED
        BY <1>0, <1>2, <2>2, <4>1 DEF WorkerLeave, OtherTypes
    <3> QED
      BY <3>2, <3>3, <3>4, TypePartsNext
  <2>3. CASE worker[e].sought /\ position \notin Position
    <3>1. worker' \in [Epoch -> Workers] /\ pump' = pump
      <4>1. worker' = [worker EXCEPT ![e].pc = "returned"] /\ pump' = pump
        BY <1>2, <2>3 DEF WorkerLeave
      <4> QED
        BY <1>0, <4>1, WorkerGoes
    <3>2. OtherTypes'
      BY <1>0, <1>2, <2>3 DEF WorkerLeave, OtherTypes
    <3> QED
      BY <1>0, <3>1, <3>2, TypePartsNext
  <2> QED
    BY <2>1, <2>2, <2>3
<1>3. CASE WorkerFails(e)
  <2>1. worker' \in [Epoch -> Workers] /\ pump' = pump
    BY <1>0, <1>3, WorkerGoes DEF WorkerFails
  <2>2. OtherTypes'
    BY <1>0, <1>3, FailureType DEF WorkerFails, OtherTypes
  <2> QED
    BY <1>0, <2>1, <2>2, TypePartsNext
<1> QED
  BY <1>1, <1>2, <1>3 DEF WorkerStep

LEMMA ClientTypes ==
  ASSUME TypeOK, SeekInv,
         \/ Seek \/ ReadControl \/ Disconnect \/ Teardown
         \/ BeginClose \/ CloseTrack \/ CloseContainer
         \/ \E e \in Epoch : SeekStep(e) \/ SeekTimeout(e)
  PROVE  TypeOK'
<1> USE DEF clientVars, demuxVars, controlVars, serverVars
<1>0. /\ pump \in [Epoch -> Pumps] /\ worker \in [Epoch -> Workers] /\ OtherTypes
      /\ Cancel(pump) \in [Epoch -> Pumps]
  BY TypeParts, CancelTypes
<1> SUFFICES /\ pump' \in [Epoch -> Pumps] /\ worker' \in [Epoch -> Workers]
             /\ OtherTypes'
  BY TypePartsNext
<1>1. CASE Seek
  <2>1. pump' \in [Epoch -> Pumps] /\ worker' \in [Epoch -> Workers]
    BY <1>0, <1>1 DEF Seek
  <2>2. epoch + 1 \in Epoch
    BY <1>0, <1>1, Constants DEF Seek, OtherTypes, Epoch
  <2>3. OtherTypes'
    <3>1. pending' \subseteq 1..epoch'
      BY <1>0, <1>1, Constants DEF Seek, OtherTypes, Epoch
    <3>2. seeks' \in [Epoch -> {"none", "waiting", "answered", "joining", "returned",
                               "failed"}]
      BY <1>0, <1>1 DEF Seek, OtherTypes
    <3>3. control_in' \in Seq(Epoch \cup {None})
      BY <1>0, <1>1, <2>2 DEF Seek, OtherTypes
    <3> QED
      BY <1>0, <1>1, <2>2, <3>1, <3>2, <3>3 DEF Seek, OtherTypes
  <2> QED
    BY <2>1, <2>3
<1>2. CASE ReadControl
  <2>1. pending' \subseteq 1..epoch
    BY <1>0, <1>2 DEF ReadControl, OtherTypes
  <2>2. seeks' \in [Epoch -> {"none", "waiting", "answered", "joining", "returned",
                             "failed"}]
    BY <1>0, <1>2 DEF ReadControl, FailPending, OtherTypes
  <2>3. control_out' \in Seq(Epoch \cup {None})
    BY <1>0, <1>2 DEF ReadControl, OtherTypes
  <2> QED
    BY <1>0, <1>2, <2>1, <2>2, <2>3 DEF ReadControl, OtherTypes
<1>3. CASE Disconnect
  <2>1. failures' \in 0..MaxFailures
    BY <1>0, <1>3, FailureType DEF Disconnect
  <2>2. seeks' \in [Epoch -> {"none", "waiting", "answered", "joining", "returned",
                             "failed"}]
    BY <1>0, <1>3 DEF Disconnect, FailPending, OtherTypes
  <2>3. uplink' \in Seq(PacketSet) /\ pending' \subseteq 1..epoch
    BY <1>3, EmptyUplink DEF Disconnect
  <2>4. control_in' \in Seq(Epoch \cup {None}) /\ control_out' \in Seq(Epoch \cup {None})
    BY <1>3 DEF Disconnect
  <2> QED
    BY <1>0, <1>3, <2>1, <2>2, <2>3, <2>4 DEF Disconnect, OtherTypes
<1>4. CASE Teardown
  BY <1>0, <1>4, Constants, SMTT(20) DEF Teardown, OtherTypes
<1>5. CASE BeginClose
  BY <1>0, <1>5 DEF BeginClose, FailPending, OtherTypes
<1>6. CASE CloseTrack
  BY <1>0, <1>6, Constants, SMTT(20) DEF CloseTrack, SeekInv, OtherTypes, Epoch
<1>7. CASE CloseContainer
  BY <1>0, <1>7 DEF CloseContainer, OtherTypes
<1>8. ASSUME NEW e \in Epoch, SeekAnswered(e)
      PROVE  pump' \in [Epoch -> Pumps] /\ worker' \in [Epoch -> Workers] /\ OtherTypes'
  BY <1>0, <1>8 DEF SeekAnswered, OtherTypes
<1>9. ASSUME NEW e \in Epoch, StartUplink(e)
      PROVE  pump' \in [Epoch -> Pumps] /\ worker' \in [Epoch -> Workers] /\ OtherTypes'
  <2>1. CASE e = epoch /\ Live
    <3>1. uplink_generation + 1 \in 0..MaxEpoch + 1 /\ iter_gen + 1 \in 0..MaxEpoch + 2
      <4>1. uplink_generation <= epoch /\ iter_gen = uplink_generation
        BY <1>0, <1>9, <2>1 DEF StartUplink, Live, SeekInv, OtherTypes
      <4>2. epoch \in 0..MaxEpoch /\ uplink_generation \in 0..MaxEpoch + 1
        BY <1>0 DEF OtherTypes, Epoch
      <4> QED
        BY <4>1, <4>2, Constants
    <3>2. pump' \in [Epoch -> Pumps]
      <4>1. pump' = [pump EXCEPT ![e].pc = "created", ![e].gen = uplink_generation + 1]
        BY <1>9, <2>1 DEF StartUplink
      <4>2. "created" \in PumpPc
        BY DEF PumpPc
      <4> QED
        BY <1>0, <3>1, <4>1, <4>2, PumpStarts, ZenonT(30)
    <3> QED
      BY <1>0, <1>9, <2>1, <3>1, <3>2 DEF StartUplink, OtherTypes
  <2>2. CASE ~(e = epoch /\ Live)
    BY <1>0, <1>9, <2>2 DEF StartUplink, OtherTypes
  <2> QED
    BY <2>1, <2>2
<1>10. ASSUME NEW e \in Epoch, SeekTimeout(e)
       PROVE  pump' \in [Epoch -> Pumps] /\ worker' \in [Epoch -> Workers] /\ OtherTypes'
  BY <1>0, <1>10, FailureType DEF SeekTimeout, OtherTypes
<1> QED
  BY <1>1, <1>2, <1>3, <1>4, <1>5, <1>6, <1>7, <1>8, <1>9, <1>10 DEF SeekStep

LEMMA ServerTypes ==
  ASSUME TypeOK, ServerStep \/ ServerCloses
  PROVE  TypeOK'
<1> USE DEF clientVars, demuxVars, controlVars, serverVars
<1>0. /\ pump \in [Epoch -> Pumps] /\ worker \in [Epoch -> Workers] /\ OtherTypes
  BY TypeParts
<1> SUFFICES /\ pump' = pump /\ worker' = worker /\ OtherTypes'
  BY <1>0, TypePartsNext
<1>1. CASE TakeSeek
  BY <1>0, <1>1 DEF TakeSeek, OtherTypes
<1>2. CASE AcknowledgeSeek
  BY <1>0, <1>2 DEF AcknowledgeSeek, OtherTypes
<1>3. CASE RunUplink
  <2>1. /\ Head(uplink).epoch \in Epoch /\ Head(uplink).item \in 1..EOS
        /\ Tail(uplink) \in Seq(PacketSet)
    <3>1. Head(uplink) \in PacketSet /\ Tail(uplink) \in Seq(PacketSet)
      BY <1>0, <1>3 DEF RunUplink, OtherTypes
    <3> QED
      BY <3>1 DEF PacketSet
  <2>2. accepted' \in [epoch : Epoch, data : Seq(1..EOS)]
    <3> DEFINE pkt == Head(uplink)  Stream == [epoch : Epoch, data : Seq(1..EOS)]
    <3>1. accepted \in Stream /\ accepted.data \in Seq(1..EOS)
      BY <1>0 DEF OtherTypes
    <3>2. Append(accepted.data, pkt.item) \in Seq(1..EOS) /\ <<pkt.item>> \in Seq(1..EOS)
      BY <2>1, <3>1
    <3>3. \/ accepted' = accepted
          \/ accepted' = [accepted EXCEPT !.data = Append(accepted.data, pkt.item)]
          \/ accepted' = [epoch |-> pkt.epoch, data |-> <<pkt.item>>]
      BY <1>3 DEF RunUplink
    <3> HIDE DEF pkt
    <3>4. CASE accepted' = [accepted EXCEPT !.data = Append(accepted.data, pkt.item)]
      BY <3>1, <3>2, <3>4
    <3>5. CASE accepted' = [epoch |-> pkt.epoch, data |-> <<pkt.item>>]
      BY <2>1, <3>2, <3>5 DEF pkt
    <3> QED
      BY <3>1, <3>3, <3>4, <3>5
  <2> QED
    BY <1>0, <1>3, <2>1, <2>2 DEF RunUplink, OtherTypes
<1>4. CASE ServerCloses
  <2>1. failures' \in 0..MaxFailures
    BY <1>0, <1>4, FailureType DEF ServerCloses, OtherTypes
  <2>2. control_in' \in Seq(Epoch \cup {None}) /\ control_out' \in Seq(Epoch \cup {None})
    <3>1. Append(control_out, None) \in Seq(Epoch \cup {None})
      BY <1>0 DEF OtherTypes
    <3>2. control_in # <<>> => Tail(control_in) \in Seq(Epoch \cup {None})
      BY <1>0 DEF OtherTypes
    <3> QED
      BY <1>0, <1>4, <3>1, <3>2 DEF ServerCloses, OtherTypes
  <2> QED
    BY <1>0, <1>4, <2>1, <2>2, EmptyUplink DEF ServerCloses, OtherTypes
<1> QED
  BY <1>1, <1>2, <1>3, <1>4 DEF ServerStep

-----------------------------------------------------------------------------
(* What the steps do to the pumps and the workers, field by field.         *)

(* Only a start makes a pump or gives it a generation.                     *)
SamePumps ==
  \A f \in Epoch : /\ pump'[f].gen = pump[f].gen
                   /\ pump'[f].pc = "none" <=> pump[f].pc = "none"

SameWorkers ==
  \A f \in Epoch : worker'[f].pc = worker[f].pc /\ worker'[f].sought = worker[f].sought

LEMMA PumpEffectOf ==
  ASSUME TypeOK, NEW e \in Epoch
  PROVE  /\ PumpStep(e) =>
              /\ \A f \in Epoch \ {e} :
                   /\ pump'[f].pc = pump[f].pc /\ pump'[f].batch = pump[f].batch
                   /\ worker'[f].pc = worker[f].pc
              /\ \A f \in Epoch : /\ pump'[f].gen = pump[f].gen
                                  /\ worker'[f].sought = worker[f].sought
              /\ pump[e].pc # "none"
         /\ PumpReads(e) => /\ pump'[e].pc = "reading" /\ pump'[e].batch = <<>>
                            /\ worker'[e].pc = "running"
         /\ PumpSends(e) =>
              /\ pump'[e].batch = pump[e].batch /\ worker'[e].pc = "idle"
              /\ pump'[e].pc = IF Current(e) /\ server = "open" /\ pump[e].batch # <<>>
                                 THEN "draining" ELSE "done"
         /\ PumpEnds(e) \/ PumpFails(e) \/ PumpCancelled(e) =>
              /\ pump'[e].batch = pump[e].batch /\ pump'[e].pc = "done"
              /\ worker'[e].pc = worker[e].pc
<1> DEFINE Others == /\ \A f \in Epoch \ {e} :
                          /\ pump'[f].pc = pump[f].pc /\ pump'[f].batch = pump[f].batch
                          /\ worker'[f].pc = worker[f].pc
                     /\ \A f \in Epoch : /\ pump'[f].gen = pump[f].gen
                                         /\ worker'[f].sought = worker[f].sought
                     /\ pump[e].pc # "none"
<1>0. /\ pump \in [Epoch -> Pumps] /\ worker \in [Epoch -> Workers]
      /\ <<>> \in Seq(Position)
      /\ {"reading", "draining", "done"} \subseteq PumpPc
  BY TypeParts DEF PumpPc
<1>1. ASSUME PumpReads(e)
      PROVE  Others /\ pump'[e].pc = "reading" /\ pump'[e].batch = <<>>
                    /\ worker'[e].pc = "running"
  <2>1. /\ pump' = [pump EXCEPT ![e].pc = "reading", ![e].batch = <<>>]
        /\ worker' = [worker EXCEPT ![e].pc = "running"] /\ pump[e].pc # "none"
    BY <1>1 DEF PumpReads
  <2> QED
    BY <1>0, <1>1, <2>1, PumpTakes, WorkerGoes
<1>2. ASSUME PumpSends(e)
      PROVE  /\ Others /\ pump'[e].batch = pump[e].batch /\ worker'[e].pc = "idle"
             /\ pump'[e].pc = IF Current(e) /\ server = "open" /\ pump[e].batch # <<>>
                                THEN "draining" ELSE "done"
  <2>1. /\ \E c \in PumpPc :
             /\ pump' = [pump EXCEPT ![e].pc = c]
             /\ c = IF Current(e) /\ server = "open" /\ pump[e].batch # <<>>
                      THEN "draining" ELSE "done"
        /\ worker' = [worker EXCEPT ![e].pc = "idle"] /\ pump[e].pc # "none"
    BY <1>0, <1>2 DEF PumpSends
  <2> QED
    BY <1>0, <1>2, <2>1, PumpGoes, WorkerGoes
<1>3. ASSUME PumpEnds(e) \/ PumpFails(e) \/ PumpCancelled(e)
      PROVE  /\ Others /\ pump'[e].batch = pump[e].batch /\ pump'[e].pc = "done"
             /\ worker'[e].pc = worker[e].pc
  <2>1. /\ pump' = [pump EXCEPT ![e].pc = "done"] /\ worker' = worker /\ pump[e].pc # "none"
    BY <1>3 DEF PumpEnds, PumpFails, PumpCancelled
  <2> QED
    BY <1>0, <1>3, <2>1, PumpGoes
<1> HIDE DEF Others
<1>4. PumpStep(e) => Others
  BY <1>1, <1>2, <1>3 DEF PumpStep
<1> QED
  BY <1>1, <1>2, <1>3, <1>4 DEF Others

LEMMA PumpEffect ==
  ASSUME TypeOK, NEW e \in Epoch, PumpStep(e)
  PROVE  /\ \A f \in Epoch \ {e} :
              /\ pump'[f].pc = pump[f].pc /\ pump'[f].batch = pump[f].batch
              /\ worker'[f].pc = worker[f].pc
         /\ \A f \in Epoch : /\ pump'[f].gen = pump[f].gen
                             /\ worker'[f].sought = worker[f].sought
         /\ pump[e].pc # "none"
         /\ \/ PumpReads(e) /\ pump'[e].pc = "reading" /\ pump'[e].batch = <<>>
                            /\ worker'[e].pc = "running"
            \/ PumpSends(e) /\ pump'[e].batch = pump[e].batch /\ worker'[e].pc = "idle"
               /\ pump'[e].pc = IF Current(e) /\ server = "open" /\ pump[e].batch # <<>>
                                  THEN "draining" ELSE "done"
            \/ /\ PumpEnds(e) \/ PumpFails(e) \/ PumpCancelled(e)
               /\ pump'[e].batch = pump[e].batch /\ pump'[e].pc = "done"
               /\ worker'[e].pc = worker[e].pc
BY PumpEffectOf DEF PumpStep

LEMMA WorkerEffect ==
  ASSUME TypeOK, NEW e \in Epoch, WorkerStep(e) \/ WorkerFails(e)
  PROVE  /\ \A f \in Epoch \ {e} : /\ pump'[f].batch = pump[f].batch
                                   /\ worker'[f].pc = worker[f].pc
                                   /\ worker'[f].sought = worker[f].sought
         /\ \A f \in Epoch : pump'[f].pc = pump[f].pc /\ pump'[f].gen = pump[f].gen
         /\ worker[e].pc = "running"
         /\ \/ /\ native_lock = None /\ pump[e].gen = iter_gen /\ native_lock' = e
               /\ worker'[e].pc = "running" /\ worker'[e].sought = worker[e].sought
               /\ position' = position /\ pump'[e].batch = pump[e].batch
            \/ /\ native_lock = None /\ pump[e].gen # iter_gen /\ native_lock' = None
               /\ worker'[e].pc = "returned" /\ worker'[e].sought = worker[e].sought
               /\ position' = position /\ pump'[e].batch = pump[e].batch
            \/ /\ native_lock = e /\ native_lock' = None /\ ~worker[e].sought
               /\ position' = Target[e] /\ worker'[e].sought
               /\ worker'[e].pc = "running" /\ pump'[e].batch = pump[e].batch
            \/ /\ native_lock = e /\ native_lock' = None /\ worker[e].sought
               /\ position \in Position /\ position' = position + 1
               /\ pump'[e].batch = Append(pump[e].batch, position)
               /\ worker'[e].sought
               /\ worker'[e].pc = IF Len(pump'[e].batch) = UplinkBatch THEN "returned"
                                  ELSE "running"
            \/ /\ native_lock = e /\ native_lock' = None /\ worker[e].sought
               /\ position \notin Position /\ position' = position
               /\ pump'[e].batch = pump[e].batch /\ worker'[e].sought
               /\ worker'[e].pc = "returned"
            \/ /\ native_lock = e /\ native_lock' = None /\ position' = position
               /\ pump'[e].batch = pump[e].batch /\ worker'[e].sought = worker[e].sought
               /\ worker'[e].pc = "failed"
<1> USE DEF demuxVars
<1>0. /\ pump \in [Epoch -> Pumps] /\ worker \in [Epoch -> Workers]
      /\ pump[e].batch \in Seq(Position)
  BY TypeParts DEF Pumps
<1>1. CASE WorkerEnter(e) /\ pump[e].gen = iter_gen
  BY <1>1 DEF WorkerEnter
<1>2. CASE WorkerEnter(e) /\ pump[e].gen # iter_gen
  <2>1. /\ worker[e].pc = "running" /\ native_lock = None /\ native_lock' = None
        /\ pump' = pump /\ position' = position
        /\ worker' = [worker EXCEPT ![e].pc = "returned"]
    BY <1>2 DEF WorkerEnter
  <2> QED
    BY <1>0, <1>2, <2>1, WorkerGoes
<1>3. CASE WorkerLeave(e) /\ ~worker[e].sought
  <2>1. /\ worker[e].pc = "running" /\ native_lock = e /\ native_lock' = None
        /\ pump' = pump /\ position' = Target[e]
        /\ worker' = [worker EXCEPT ![e].sought = TRUE]
    BY <1>3 DEF WorkerLeave
  <2> QED
    BY <1>0, <1>3, <2>1, WorkerSeeks
<1>4. CASE WorkerLeave(e) /\ worker[e].sought /\ position \in Position
  <2> DEFINE b == Append(pump[e].batch, position)
  <2>1. /\ worker[e].pc = "running" /\ native_lock = e /\ native_lock' = None
        /\ position' = position + 1
        /\ pump' = [pump EXCEPT ![e].batch = b]
        /\ b \in Seq(Position)
    BY <1>0, <1>4 DEF WorkerLeave
  <2>2. \E c \in {"running", "returned"} :
          /\ worker' = [worker EXCEPT ![e].pc = c]
          /\ c = IF Len(b) = UplinkBatch THEN "returned" ELSE "running"
    BY <1>4 DEF WorkerLeave
  <2> HIDE DEF b
  <2>3. /\ \A f \in Epoch : worker'[f].sought = worker[f].sought
        /\ \A f \in Epoch \ {e} : worker'[f].pc = worker[f].pc
        /\ worker'[e].pc = IF Len(b) = UplinkBatch THEN "returned" ELSE "running"
    BY <1>0, <2>2, WorkerGoes
  <2>4. /\ \A f \in Epoch : pump'[f].pc = pump[f].pc /\ pump'[f].gen = pump[f].gen
        /\ \A f \in Epoch \ {e} : pump'[f].batch = pump[f].batch
        /\ pump'[e].batch = b
    BY <1>0, <2>1, PumpReadsOne
  <2> QED
    BY <1>4, <2>1, <2>3, <2>4 DEF b
<1>5. CASE WorkerLeave(e) /\ worker[e].sought /\ position \notin Position
  <2>1. /\ worker[e].pc = "running" /\ native_lock = e /\ native_lock' = None
        /\ pump' = pump /\ position' = position
        /\ worker' = [worker EXCEPT ![e].pc = "returned"]
    BY <1>5 DEF WorkerLeave
  <2>2. \A f \in Epoch : /\ worker'[f].sought = worker[f].sought
                         /\ worker'[f].pc = IF f = e THEN "returned" ELSE worker[f].pc
    BY <1>0, <2>1, WorkerGoes
  <2> QED
    BY <1>5, <2>1, <2>2
<1>6. CASE WorkerFails(e)
  <2>1. /\ worker[e].pc = "running" /\ native_lock = e /\ native_lock' = None
        /\ pump' = pump /\ position' = position
        /\ worker' = [worker EXCEPT ![e].pc = "failed"]
    BY <1>6 DEF WorkerFails
  <2> QED
    BY <1>0, <1>6, <2>1, WorkerGoes
<1> QED
  BY <1>1, <1>2, <1>3, <1>4, <1>5, <1>6 DEF WorkerStep

LEMMA StartEffect ==
  ASSUME TypeOK, TypeOK', NEW e \in Epoch, StartUplink(e), e = epoch, Live
  PROVE  /\ \A f \in Epoch \ {e} : pump'[f].pc = pump[f].pc /\ pump'[f].gen = pump[f].gen
         /\ \A f \in Epoch : pump'[f].batch = pump[f].batch
         /\ pump'[e].pc = "created" /\ pump'[e].gen = uplink_generation + 1
<1>1. /\ pump' = [pump EXCEPT ![e].pc = "created", ![e].gen = uplink_generation']
      /\ uplink_generation' = uplink_generation + 1
  BY DEF StartUplink
<1>2. /\ pump \in [Epoch -> Pumps] /\ "created" \in PumpPc
      /\ uplink_generation' \in 0..MaxEpoch + 1
  BY Records DEF TypeOK, PumpPc
<1> QED
  BY <1>1, <1>2, PumpStarts

(* To cancel a pump is not to make one.                                    *)
LEMMA CancelMakesNone ==
  ASSUME TypeOK, GenerationInv
  PROVE  \A f \in Epoch : /\ Cancel(pump)[f].gen = pump[f].gen
                          /\ Cancel(pump)[f].pc = "none" <=> pump[f].pc = "none"
<1>1. \A f \in Epoch : f = uplink_task => pump[f].pc # "none"
  BY Constants DEF GenerationInv
<1> QED
  BY <1>1, CancelTypes

(* Which pumps there are and their generations change with a start only.   *)
LEMMA PumpsStay ==
  ASSUME TypeOK, GenerationInv, [Next]_vars,
         \A e \in Epoch : ~StartUplink(e)
  PROVE  SamePumps /\ uplink_task' = uplink_task /\ uplink_generation' = uplink_generation
<1> USE DEF clientVars, SamePumps
<1>0. \A f \in Epoch : /\ Cancel(pump)[f].gen = pump[f].gen
                       /\ Cancel(pump)[f].pc = "none" <=> pump[f].pc = "none"
  BY CancelMakesNone
<1>1. CASE Seek \/ Teardown \/ BeginClose
  BY <1>0, <1>1 DEF Seek, Teardown, BeginClose
<1>2. CASE ReadControl \/ Disconnect \/ CloseTrack \/ CloseContainer
  BY <1>2 DEF ReadControl, Disconnect, CloseTrack, CloseContainer
<1>3. ASSUME NEW e \in Epoch, SeekAnswered(e) \/ SeekTimeout(e)
      PROVE  SamePumps /\ uplink_task' = uplink_task /\ uplink_generation' = uplink_generation
  BY <1>0, <1>3 DEF SeekAnswered, SeekTimeout
<1>4. ASSUME NEW e \in Epoch, PumpStep(e)
      PROVE  SamePumps /\ uplink_task' = uplink_task /\ uplink_generation' = uplink_generation
  <2>1. uplink_task' = uplink_task /\ uplink_generation' = uplink_generation
    BY <1>4 DEF PumpStep, PumpReads, PumpSends, PumpEnds, PumpFails, PumpCancelled
  <2>2. pump'[e].pc # "none" /\ pump[e].pc # "none"
    BY <1>4, PumpEffect
  <2> QED
    BY <1>4, <2>1, <2>2, PumpEffect
<1>5. ASSUME NEW e \in Epoch, WorkerStep(e) \/ WorkerFails(e)
      PROVE  SamePumps /\ uplink_task' = uplink_task /\ uplink_generation' = uplink_generation
  <2>1. uplink_task' = uplink_task /\ uplink_generation' = uplink_generation
    BY <1>5 DEF WorkerStep, WorkerEnter, WorkerLeave, WorkerFails
  <2> QED
    BY <1>5, <2>1, WorkerEffect
<1>6. CASE ServerStep \/ ServerCloses
  BY <1>6 DEF ServerStep, TakeSeek, AcknowledgeSeek, RunUplink, ServerCloses
<1>7. CASE UNCHANGED vars
  BY <1>7 DEF vars
<1> QED
  BY <1>1, <1>2, <1>3, <1>4, <1>5, <1>6, <1>7 DEF Next, Proceed, SeekStep

-----------------------------------------------------------------------------
(* The inductive invariant, one lemma to a conjunct.                       *)

LEMMA GenerationKept ==
  ASSUME TypeOK, TypeOK', GenerationInv, [Next]_vars
  PROVE  GenerationInv'
<1>0. /\ uplink_task \in Epoch \cup {None} /\ None \notin Epoch /\ uplink_generation \in Nat
      /\ \A f \in Epoch : pump[f].gen \in Int
  BY Constants, Records DEF TypeOK, Pumps
<1>1. CASE \A e \in Epoch : ~StartUplink(e)
  BY <1>0, <1>1, PumpsStay DEF GenerationInv, SamePumps
<1>2. ASSUME NEW e \in Epoch, StartUplink(e)
      PROVE  GenerationInv'
  <2>1. CASE e = epoch /\ Live
    <3>1. uplink_task' = e /\ uplink_generation' = uplink_generation + 1
      BY <1>2, <2>1 DEF StartUplink
    <3> QED
      BY <1>0, <1>2, <2>1, <3>1, StartEffect DEF GenerationInv
  <2>2. CASE ~(e = epoch /\ Live)
    BY <1>2, <2>2 DEF StartUplink, GenerationInv
  <2> QED
    BY <2>1, <2>2
<1> QED
  BY <1>1, <1>2

LEMMA SeekKept ==
  ASSUME TypeOK, TypeOK', GenerationInv, SeekInv, [Next]_vars
  PROVE  SeekInv'
<1> USE DEF clientVars, demuxVars, SeekInv
<1>0. /\ epoch \in Nat /\ Epoch \subseteq Nat /\ uplink_generation \in Nat
      /\ pending \subseteq Epoch /\ iter_gen \in Nat /\ 0 \in Epoch /\ epoch \in Epoch
      /\ \A f \in Epoch : Cancel(pump)[f].pc = "none" <=> pump[f].pc = "none"
      /\ seeks \in [Epoch -> {"none", "waiting", "answered", "joining", "returned",
                              "failed"}]
  <2>1. pending \subseteq 1..epoch /\ epoch \in 0..MaxEpoch /\ MaxEpoch \in Nat
    BY Constants DEF TypeOK, Epoch
  <2>2. pending \subseteq Epoch
    BY <2>1 DEF Epoch
  <2>3. \A f \in Epoch : Cancel(pump)[f].pc = "none" <=> pump[f].pc = "none"
    BY CancelMakesNone
  <2>4. uplink_generation \in 0..MaxEpoch + 1 /\ iter_gen \in 0..MaxEpoch + 2 /\ epoch \in Epoch
    BY TypeParts DEF OtherTypes
  <2>5. seeks \in [Epoch -> {"none", "waiting", "answered", "joining", "returned",
                            "failed"}]
    BY TypeParts DEF OtherTypes
  <2>6. uplink_generation \in Nat /\ iter_gen \in Nat /\ epoch \in Nat
    BY <2>1, <2>4
  <2>7. Epoch \subseteq Nat /\ 0 \in Epoch
    BY <2>1 DEF Epoch
  <2> QED
    BY <2>2, <2>3, <2>4, <2>5, <2>6, <2>7
<1>1. CASE Seek
  <2>1. \A f \in Epoch : pump'[f].pc = "none" <=> pump[f].pc = "none"
    BY <1>0, <1>1 DEF Seek
  <2>2. \A f \in Epoch : seeks'[f] = IF f = epoch + 1
                                       THEN IF connected THEN "waiting" ELSE "failed"
                                     ELSE IF f \in pending THEN "answered" ELSE seeks[f]
    BY <1>1 DEF Seek
  <2>3. epoch + 1 \in Epoch
    BY <1>0, <1>1, Constants DEF Seek, Epoch
  <2> QED
    BY <1>0, <1>1, <2>1, <2>2, <2>3 DEF Seek
<1>2. CASE ReadControl
  <2>1. /\ UNCHANGED <<epoch, uplink_generation, closing, pump, iter_gen>>
        /\ pending' \subseteq pending
        /\ \A e \in Epoch :
             seeks'[e] = seeks[e] \/ (e \in pending /\ seeks'[e] \in {"answered", "failed"})
        /\ \A e \in pending' : seeks'[e] = seeks[e]
    BY <1>0, <1>2 DEF ReadControl, FailPending
  <2>2. \A e \in Epoch : seeks'[e] \in {"waiting", "answered", "joining"} =>
                           seeks[e] \in {"waiting", "answered", "joining"}
    BY <2>1
  <2>3. \A e \in Epoch : seeks[e] = "none" => seeks'[e] = "none"
    BY <2>1
  <2> QED
    BY <1>0, <2>1, <2>2, <2>3
<1>3. CASE Disconnect
  BY <1>0, <1>3 DEF Disconnect, FailPending
<1>4. CASE Teardown
  BY <1>0, <1>4 DEF Teardown
<1>5. CASE BeginClose
  BY <1>0, <1>5 DEF BeginClose, FailPending
<1>6. CASE CloseTrack
  BY <1>0, <1>6 DEF CloseTrack
<1>7. CASE CloseContainer
  BY <1>0, <1>7 DEF CloseContainer
<1>8. ASSUME NEW e \in Epoch, SeekAnswered(e) PROVE SeekInv'
  BY <1>0, <1>8 DEF SeekAnswered
<1>9. ASSUME NEW e \in Epoch, StartUplink(e) PROVE SeekInv'
  <2>1. CASE e = epoch /\ Live
    <3>1. /\ \A f \in Epoch \ {e} : pump'[f].pc = pump[f].pc
          /\ seeks' = [seeks EXCEPT ![e] = "returned"] /\ seeks[e] = "joining"
          /\ uplink_generation' = uplink_generation + 1 /\ iter_gen' = iter_gen + 1
          /\ epoch' = epoch /\ pending' = pending /\ closing' = closing
          /\ closing \in {"no", "teardown"}
      BY <1>9, <2>1, StartEffect DEF StartUplink, Live
    <3> QED
      BY <1>0, <1>9, <2>1, <3>1
  <2>2. CASE ~(e = epoch /\ Live)
    BY <1>0, <1>9, <2>2 DEF StartUplink
  <2> QED
    BY <2>1, <2>2
<1>10. ASSUME NEW e \in Epoch, SeekTimeout(e) PROVE SeekInv'
  BY <1>0, <1>10 DEF SeekTimeout
<1>11. ASSUME NEW e \in Epoch, PumpStep(e) \/ WorkerStep(e) \/ WorkerFails(e) PROVE SeekInv'
  <2>1. UNCHANGED <<epoch, seeks, pending, uplink_generation, closing, iter_gen>>
    BY <1>11 DEF PumpStep, PumpReads, PumpSends, PumpEnds, PumpFails, PumpCancelled,
                 WorkerStep, WorkerEnter, WorkerLeave, WorkerFails
  <2>2. \A f \in Epoch : pump'[f].pc = "none" <=> pump[f].pc = "none"
    <3>1. CASE PumpStep(e)
      <4>1. pump'[e].pc # "none" /\ pump[e].pc # "none"
        BY <3>1, PumpEffect
      <4> QED
        BY <3>1, <4>1, PumpEffect
    <3>2. CASE WorkerStep(e) \/ WorkerFails(e)
      BY <3>2, WorkerEffect
    <3> QED
      BY <1>11, <3>1, <3>2
  <2> QED
    BY <1>0, <2>1, <2>2
<1>12. CASE ServerStep \/ ServerCloses
  BY <1>12 DEF ServerStep, TakeSeek, AcknowledgeSeek, RunUplink, ServerCloses
<1>13. CASE UNCHANGED vars
  BY <1>13 DEF vars
<1> QED
  BY <1>1, <1>2, <1>3, <1>4, <1>5, <1>6, <1>7, <1>8, <1>9, <1>10, <1>11, <1>12, <1>13
     DEF Next, Proceed, SeekStep

(* The sequences of the control connection and of the uplink.              *)
LEMMA Connection ==
  ASSUME TypeOK
  PROVE  /\ Epoch \subseteq Nat /\ epoch \in Epoch /\ pipeline_epoch \in Epoch
         /\ session_epoch \in Epoch /\ accepted.epoch \in Epoch
         /\ control_in \in Seq(Int) /\ control_out \in Seq(Int) /\ uplink \in Seq(PacketSet)
         /\ \A i \in DOMAIN uplink : uplink[i].epoch \in Epoch /\ uplink[i].item \in 1..EOS
<1>1. uplink \in Seq(PacketSet)
  BY DEF TypeOK, PacketSet
<1>2. \A i \in DOMAIN uplink : uplink[i] \in PacketSet
  BY <1>1
<1>3. \A i \in DOMAIN uplink : uplink[i].epoch \in Epoch /\ uplink[i].item \in 1..EOS
  BY <1>2 DEF PacketSet
<1>4. Epoch \cup {None} \subseteq Int /\ Epoch \subseteq Nat
  BY Constants DEF Epoch, None
<1>5. control_in \in Seq(Int) /\ control_out \in Seq(Int)
  BY <1>4, SeqMonotonic, TypeParts DEF OtherTypes
<1> QED
  BY <1>1, <1>3, <1>4, <1>5, TypeParts DEF OtherTypes

(* Bounds of the elements of a sequence.                                   *)
LEMMA BoundAppended ==
  ASSUME NEW s \in Seq(Int), NEW x \in Int, NEW b \in Int,
         \A i \in DOMAIN s : s[i] <= b, x <= b
  PROVE  \A i \in DOMAIN Append(s, x) : Append(s, x)[i] <= b
<1>1. Append(s, x) \in Seq(Int) /\ Len(Append(s, x)) = Len(s) + 1
  OBVIOUS
<1>2. \A i \in 1..Len(s) + 1 : Append(s, x)[i] = IF i <= Len(s) THEN s[i] ELSE x
  OBVIOUS
<1> QED
  BY <1>1, <1>2

LEMMA BoundTaken ==
  ASSUME NEW s \in Seq(Int), s # <<>>, NEW b \in Int,
         \A i \in DOMAIN s : s[i] <= b
  PROVE  Head(s) \in Int /\ Head(s) <= b /\ \A i \in DOMAIN Tail(s) : Tail(s)[i] <= b
<1>1. /\ Head(s) = s[1] /\ Tail(s) \in Seq(Int) /\ Len(Tail(s)) = Len(s) - 1
      /\ \A i \in 1..Len(s) - 1 : Tail(s)[i] = s[i + 1]
      /\ Len(s) \in Nat /\ Len(s) > 0 /\ DOMAIN s = 1..Len(s)
      /\ DOMAIN Tail(s) = 1..Len(s) - 1
  OBVIOUS
<1> QED
  BY <1>1

(* What a step of a pump adds to the uplink: the batch, or the packet that *)
(* ends the epoch, by a pump that still is the newest.                     *)
SentOn(e, items) ==
  /\ uplink' \in Seq(PacketSet)
  /\ Len(uplink') = Len(uplink) + Len(items)
  /\ \A i \in 1..Len(uplink) : uplink'[i] = uplink[i]
  /\ \A i \in 1..Len(items) : /\ uplink'[Len(uplink) + i].epoch = e
                              /\ uplink'[Len(uplink) + i].item = items[i]

LEMMA UplinkGrows ==
  ASSUME TypeOK, NEW e \in Epoch, PumpStep(e)
  PROVE  \/ uplink' = uplink
         \/ \E items \in Seq(1..EOS) :
              /\ Current(e) /\ server = "open" /\ SentOn(e, items)
              /\ \/ /\ PumpSends(e) /\ items = IF pump[e].batch = <<>> THEN <<EOS>>
                                               ELSE pump[e].batch
                 \/ PumpEnds(e) /\ items = <<EOS>>
<1>0. /\ uplink \in Seq(PacketSet) /\ <<EOS>> \in Seq(1..EOS)
      /\ pump[e].batch \in Seq(1..EOS)
  <2>1. uplink \in Seq(PacketSet)
    BY Connection
  <2>2. EOS \in 1..EOS
    BY Constants
  <2>3. pump[e].batch \in Seq(Position)
    BY Records DEF Pumps
  <2> QED
    BY <2>1, <2>2, <2>3, BatchItems
<1>1. ASSUME NEW items \in Seq(1..EOS), uplink' = uplink \o Packets(e, items)
      PROVE  SentOn(e, items)
  <2> DEFINE n == uplink \o Packets(e, items)
  <2>a. /\ n \in Seq(PacketSet) /\ Len(n) = Len(uplink) + Len(items)
        /\ \A i \in 1..Len(uplink) : n[i] = uplink[i]
        /\ \A i \in 1..Len(items) : n[Len(uplink) + i] = [epoch |-> e, item |-> items[i]]
    BY <1>0, MorePackets, Zenon
  <2>b. uplink' = n
    BY <1>1
  <2> HIDE DEF n
  <2>1. /\ uplink' \in Seq(PacketSet) /\ Len(uplink') = Len(uplink) + Len(items)
        /\ \A i \in 1..Len(uplink) : uplink'[i] = uplink[i]
    BY <2>a, <2>b, Zenon
  <2>2. \A i \in 1..Len(items) :
          uplink'[Len(uplink) + i] = [epoch |-> e, item |-> items[i]]
    BY <2>a, <2>b, Zenon
  <2>3. \A i \in 1..Len(items) : /\ uplink'[Len(uplink) + i].epoch = e
                                 /\ uplink'[Len(uplink) + i].item = items[i]
    <3> SUFFICES ASSUME NEW i \in 1..Len(items)
                 PROVE  /\ uplink'[Len(uplink) + i].epoch = e
                        /\ uplink'[Len(uplink) + i].item = items[i]
      OBVIOUS
    <3> DEFINE p == uplink'[Len(uplink) + i]
    <3>1. p = [epoch |-> e, item |-> items[i]]
      BY <2>2
    <3> HIDE DEF p
    <3>2. p.epoch = e /\ p.item = items[i]
      BY <3>1
    <3> QED
      BY <3>2 DEF p
  <2> QED
    BY <2>1, <2>3, Zenon DEF SentOn
<1>2. CASE PumpSends(e) /\ uplink' # uplink
  <2> DEFINE items == IF pump[e].batch = <<>> THEN <<EOS>> ELSE pump[e].batch
  <2>1. /\ items \in Seq(1..EOS) /\ uplink' = uplink \o Packets(e, items)
        /\ Current(e) /\ server = "open"
    BY <1>0, <1>2 DEF PumpSends
  <2>2. SentOn(e, items)
    BY <1>1, <2>1, Zenon
  <2> QED
    BY <1>2, <2>1, <2>2, Zenon
<1>3. CASE PumpEnds(e) /\ uplink' # uplink
  <2>1. uplink' = uplink \o Packets(e, <<EOS>>) /\ Current(e) /\ server = "open"
    BY <1>3 DEF PumpEnds
  <2>2. SentOn(e, <<EOS>>)
    BY <1>0, <1>1, <2>1, Zenon
  <2> QED
    BY <1>0, <1>3, <2>1, <2>2, Zenon
<1>4. CASE PumpReads(e) \/ PumpFails(e) \/ PumpCancelled(e)
  BY <1>4 DEF PumpReads, PumpFails, PumpCancelled
<1> QED
  BY <1>2, <1>3, <1>4 DEF PumpStep

(* Where a packet on the uplink comes from.                                *)
LEMMA OldOrNew ==
  ASSUME TypeOK, NEW e \in Epoch, NEW items \in Seq(1..EOS), SentOn(e, items),
         NEW i \in DOMAIN uplink'
  PROVE  \/ i \in 1..Len(uplink) /\ uplink'[i] = uplink[i]
         \/ /\ i - Len(uplink) \in 1..Len(items)
            /\ uplink'[i].epoch = e /\ uplink'[i].item = items[i - Len(uplink)]
<1>1. /\ Len(items) \in Nat /\ Len(uplink) \in Nat /\ DOMAIN uplink' = 1..Len(uplink')
      /\ Len(uplink') = Len(uplink) + Len(items)
  BY Connection, LenProperties DEF SentOn
<1>2. CASE i <= Len(uplink)
  BY <1>1, <1>2 DEF SentOn
<1>3. CASE ~(i <= Len(uplink))
  <2>1. i - Len(uplink) \in 1..Len(items) /\ Len(uplink) + (i - Len(uplink)) = i
    BY <1>1, <1>3
  <2>2. /\ uplink'[Len(uplink) + (i - Len(uplink))].epoch = e
        /\ uplink'[Len(uplink) + (i - Len(uplink))].item = items[i - Len(uplink)]
    BY <2>1 DEF SentOn
  <2> QED
    BY <2>1, <2>2
<1> QED
  BY <1>1, <1>2, <1>3

LEMMA FlushKept ==
  ASSUME TypeOK, TypeOK', GenerationInv, SeekInv, FlushInv, [Next]_vars
  PROVE  FlushInv'
<1> USE DEF clientVars, controlVars, serverVars, FlushInv
<1>0. /\ Epoch \subseteq Nat /\ epoch \in Epoch /\ pipeline_epoch \in Epoch
      /\ session_epoch \in Epoch
      /\ control_in \in Seq(Int) /\ control_out \in Seq(Int) /\ uplink \in Seq(PacketSet)
      /\ \A i \in DOMAIN uplink : uplink[i].epoch \in Epoch
  BY Connection
<1>a. seeks \in [Epoch -> {"none", "waiting", "answered", "joining", "returned", "failed"}]
  BY DEF TypeOK
<1>1. CASE Seek
  <2>1. SamePumps
    BY <1>1, PumpsStay DEF Next, Proceed, Seek, StartUplink
  <2>2. \A i \in DOMAIN control_in' : control_in'[i] <= epoch + 1
    BY <1>0, <1>1, BoundAppended DEF Seek
  <2>3. epoch' = epoch + 1 /\ seeks'[epoch + 1] \in {"waiting", "failed"}
    BY <1>0, <1>1, Constants DEF Seek, Epoch
  <2>4. UNCHANGED <<control_out, session_epoch, pipeline_epoch, uplink>>
    BY <1>1 DEF Seek
  <2> QED
    <3>1. seeks'[epoch'] \notin {"answered", "joining"}
      BY <2>3
    <3>2. /\ \A f \in Epoch : pump'[f].pc # "none" => f <= pipeline_epoch
          /\ \A i \in DOMAIN uplink : pump'[uplink[i].epoch].pc # "none"
      BY <1>0, <2>1 DEF SamePumps
    <3> QED
      BY <1>0, <2>2, <2>3, <2>4, <3>1, <3>2
<1>2. CASE ReadControl
  BY <1>0, <1>a, <1>2, SMTT(20) DEF ReadControl, FailPending
<1>3. CASE Disconnect
  BY <1>0, <1>a, <1>3 DEF Disconnect, FailPending
<1>4. CASE Teardown
  <2>1. None \in Int /\ None <= epoch
    BY <1>0 DEF None
  <2>2. \A i \in DOMAIN control_in' : control_in'[i] <= epoch
    BY <1>0, <1>4, <2>1, BoundAppended DEF Teardown
  <2> QED
    BY <1>0, <1>4, <2>2, CancelMakesNone DEF Teardown
<1>5. CASE BeginClose
  BY <1>0, <1>a, <1>5, CancelMakesNone DEF BeginClose, FailPending
<1>6. CASE CloseTrack \/ CloseContainer
  BY <1>0, <1>6 DEF CloseTrack, CloseContainer
<1>7. ASSUME NEW e \in Epoch, SeekAnswered(e) PROVE FlushInv'
  <2>1. \A f \in Epoch : pump'[f].pc = "none" <=> pump[f].pc = "none"
    BY <1>7, CancelMakesNone DEF SeekAnswered
  <2>2. seeks'[epoch] \in {"answered", "joining"} => seeks[epoch] \in {"answered", "joining"}
    BY <1>0, <1>a, <1>7 DEF SeekAnswered
  <2> QED
    BY <1>0, <1>7, <2>1, <2>2 DEF SeekAnswered
<1>8. ASSUME NEW e \in Epoch, StartUplink(e) PROVE FlushInv'
  <2>1. CASE e = epoch /\ Live
    <3>1. /\ \A f \in Epoch \ {e} : pump'[f].pc = pump[f].pc
          /\ pump'[e].pc = "created" /\ e <= pipeline_epoch
          /\ seeks' = [seeks EXCEPT ![e] = "returned"]
      BY <1>0, <1>8, <2>1, StartEffect DEF StartUplink
    <3>2. UNCHANGED <<epoch, control_in, control_out, session_epoch, pipeline_epoch, uplink>>
      BY <1>8 DEF StartUplink
    <3> QED
      BY <1>0, <1>a, <2>1, <3>1, <3>2
  <2>2. CASE ~(e = epoch /\ Live)
    BY <1>0, <1>a, <1>8, <2>2 DEF StartUplink
  <2> QED
    BY <2>1, <2>2
<1>9. ASSUME NEW e \in Epoch, SeekTimeout(e) PROVE FlushInv'
  BY <1>0, <1>a, <1>9 DEF SeekTimeout
<1>10. ASSUME NEW e \in Epoch, PumpStep(e) PROVE FlushInv'
  <2>1. UNCHANGED <<epoch, seeks, control_in, control_out, session_epoch, pipeline_epoch>>
    BY <1>10 DEF PumpStep, PumpReads, PumpSends, PumpEnds, PumpFails, PumpCancelled
  <2>2. /\ pump[e].pc # "none" /\ pump'[e].pc # "none"
        /\ \A f \in Epoch \ {e} : pump'[f].pc = pump[f].pc
    BY <1>10, PumpEffect
  <2>3. \A i \in DOMAIN uplink' : uplink'[i].epoch # e =>
                                   i \in DOMAIN uplink /\ uplink'[i] = uplink[i]
    <3>1. CASE uplink' = uplink
      BY <1>0, <3>1
    <3>2. CASE uplink' # uplink
      <4>1. PICK items \in Seq(1..EOS) : SentOn(e, items)
        BY <1>10, <3>2, UplinkGrows, Zenon
      <4>2. DOMAIN uplink = 1..Len(uplink)
        BY <1>0
      <4>3. \A i \in DOMAIN uplink' : \/ i \in 1..Len(uplink) /\ uplink'[i] = uplink[i]
                                      \/ uplink'[i].epoch = e
        BY <4>1, OldOrNew, Zenon
      <4>4. ASSUME NEW i \in DOMAIN uplink', uplink'[i].epoch # e
            PROVE  i \in DOMAIN uplink /\ uplink'[i] = uplink[i]
        BY <4>2, <4>3, <4>4
      <4> QED
        BY <4>4, Zenon
    <3> QED
      BY <3>1, <3>2
  <2> QED
    BY <1>0, <2>1, <2>2, <2>3
<1>11. ASSUME NEW e \in Epoch, WorkerStep(e) \/ WorkerFails(e) PROVE FlushInv'
  <2>1. UNCHANGED <<epoch, seeks, control_in, control_out, session_epoch, pipeline_epoch,
                    uplink>>
    BY <1>11 DEF WorkerStep, WorkerEnter, WorkerLeave, WorkerFails
  <2>2. \A f \in Epoch : pump'[f].pc = pump[f].pc
    BY <1>11, WorkerEffect
  <2> QED
    BY <1>0, <2>1, <2>2
<1>12. CASE TakeSeek
  <2>1. /\ Head(control_in) \in Int /\ Head(control_in) <= epoch
        /\ \A i \in DOMAIN control_in' : control_in'[i] <= epoch
    BY <1>0, <1>12, BoundTaken DEF TakeSeek
  <2>2. /\ UNCHANGED <<epoch, seeks, pump, control_out, pipeline_epoch, uplink>>
        /\ session_epoch' = IF Head(control_in) > session_epoch THEN Head(control_in)
                            ELSE session_epoch
    BY <1>12 DEF TakeSeek
  <2>3. /\ epoch \in Int /\ pipeline_epoch \in Int /\ session_epoch \in Int
        /\ \A e \in Epoch : e \in Int
    BY <1>0
  <2>4. pipeline_epoch' <= session_epoch' /\ session_epoch' <= epoch'
    BY <2>1, <2>2, <2>3
  <2>5. /\ \A i \in DOMAIN control_in' : control_in'[i] <= epoch'
        /\ \A i \in DOMAIN control_out' : control_out'[i] <= pipeline_epoch'
    BY <2>1, <2>2
  <2>6. /\ seeks'[epoch'] \in {"answered", "joining"} => epoch' <= pipeline_epoch'
        /\ \A e \in Epoch : pump'[e].pc # "none" => e <= pipeline_epoch'
        /\ \A i \in DOMAIN uplink' : pump'[uplink'[i].epoch].pc # "none"
    BY <2>2
  <2> QED
    BY <2>4, <2>5, <2>6
<1>13. CASE AcknowledgeSeek
  <2>1. /\ UNCHANGED <<epoch, seeks, pump, control_in, session_epoch, uplink>>
        /\ pipeline_epoch' = session_epoch
        /\ control_out' = Append(control_out, session_epoch)
    BY <1>13 DEF AcknowledgeSeek
  <2>2. /\ epoch \in Int /\ pipeline_epoch \in Int /\ session_epoch \in Int
        /\ \A e \in Epoch : e \in Int
    BY <1>0
  <2>3. pipeline_epoch <= pipeline_epoch' /\ pipeline_epoch' <= session_epoch'
    BY <2>1, <2>2
  <2>4. \A i \in DOMAIN control_out : control_out[i] <= session_epoch
    <3>1. \A i \in DOMAIN control_out : control_out[i] \in Int
      BY <1>0
    <3> QED
      BY <2>2, <3>1
  <2>5. \A i \in DOMAIN control_out' : control_out'[i] <= pipeline_epoch'
    <3>1. control_out \in Seq(Int)
      BY <1>0
    <3> QED
      BY <2>1, <2>2, <2>4, <3>1, BoundAppended
  <2>6. /\ \A i \in DOMAIN control_in' : control_in'[i] <= epoch'
        /\ \A i \in DOMAIN uplink' : pump'[uplink'[i].epoch].pc # "none"
    BY <2>1
  <2>7. /\ seeks'[epoch'] \in {"answered", "joining"} => epoch' <= pipeline_epoch'
        /\ \A e \in Epoch : pump'[e].pc # "none" => e <= pipeline_epoch'
    BY <2>1, <2>2, <2>3
  <2> QED
    BY <2>1, <2>3, <2>5, <2>6, <2>7
<1>14. CASE RunUplink
  BY <1>0, <1>14 DEF RunUplink
<1>15. CASE ServerCloses
  <2>1. None \in Int /\ None <= pipeline_epoch
    BY <1>0 DEF None
  <2>2. /\ \A i \in DOMAIN control_in' : control_in'[i] <= epoch
        /\ \A i \in DOMAIN control_out' : control_out'[i] <= pipeline_epoch
    <3>1. \/ control_in' = control_in /\ control_out' = Append(control_out, None)
          \/ control_out' = control_out /\ control_in # <<>> /\ control_in' = Tail(control_in)
      BY <1>15 DEF ServerCloses
    <3>2. CASE control_in' = control_in /\ control_out' = Append(control_out, None)
      BY <1>0, <2>1, <3>2, BoundAppended
    <3>3. CASE control_out' = control_out /\ control_in # <<>> /\ control_in' = Tail(control_in)
      BY <1>0, <3>3, BoundTaken
    <3> QED
      BY <3>1, <3>2, <3>3
  <2> QED
    BY <1>0, <1>15, <2>2 DEF ServerCloses
<1>16. CASE UNCHANGED vars
  BY <1>16 DEF vars
<1> QED
  BY <1>1, <1>2, <1>3, <1>4, <1>5, <1>6, <1>7, <1>8, <1>9, <1>10, <1>11, <1>12, <1>13,
     <1>14, <1>15, <1>16 DEF Next, Proceed, SeekStep, ServerStep

LEMMA WorkerKept ==
  ASSUME TypeOK, TypeOK', GenerationInv, SeekInv, WorkerInv, [Next]_vars
  PROVE  WorkerInv'
<1> USE DEF clientVars, demuxVars, WorkerInv
<1>0. /\ native_lock \in Epoch \cup {None} /\ None \notin Epoch
      /\ \A f \in Epoch : /\ Cancel(pump)[f].batch = pump[f].batch
                          /\ Cancel(pump)[f].pc = "none" <=> pump[f].pc = "none"
                          /\ Cancel(pump)[f].pc \in {"created", "draining"} =>
                               Cancel(pump)[f].pc = pump[f].pc
  BY CancelTypes, CancelMakesNone, Constants, TypeParts DEF OtherTypes
<1>1. CASE Seek \/ Teardown \/ BeginClose
  <2>1. /\ UNCHANGED <<worker, native_lock, container>>
        /\ closing' # "closed" /\ closing # "closed" /\ pump' = Cancel(pump)
    BY <1>1 DEF Seek, Teardown, BeginClose
  <2> QED
    BY <1>0, <2>1
<1>2. CASE ReadControl \/ Disconnect
  BY <1>2 DEF ReadControl, Disconnect
<1>3. CASE CloseTrack
  BY <1>3 DEF CloseTrack
<1>4. CASE CloseContainer
  BY <1>0, <1>4 DEF CloseContainer
<1>5. ASSUME NEW e \in Epoch, SeekAnswered(e) PROVE WorkerInv'
  <2>1. /\ UNCHANGED <<worker, native_lock, container, closing>>
        /\ pump' = pump \/ pump' = Cancel(pump)
    BY <1>5 DEF SeekAnswered
  <2> QED
    BY <1>0, <2>1
<1>6. ASSUME NEW e \in Epoch, StartUplink(e) PROVE WorkerInv'
  <2>0. UNCHANGED <<worker, native_lock, container, closing>>
    BY <1>6 DEF StartUplink
  <2>1. CASE e = epoch /\ Live
    <3>1. pump[e].pc = "none"
      BY <1>6 DEF StartUplink, SeekInv
    <3> QED
      BY <1>0, <1>6, <2>0, <2>1, <3>1, StartEffect
  <2>2. CASE ~(e = epoch /\ Live)
    BY <1>6, <2>0, <2>2 DEF StartUplink
  <2> QED
    BY <2>1, <2>2
<1>7. ASSUME NEW e \in Epoch, SeekTimeout(e) PROVE WorkerInv'
  BY <1>7 DEF SeekTimeout
<1>8. ASSUME NEW e \in Epoch, PumpStep(e) PROVE WorkerInv'
  <2>1. UNCHANGED <<native_lock, container, closing>>
    BY <1>8 DEF PumpStep, PumpReads, PumpSends, PumpEnds, PumpFails, PumpCancelled
  <2>2. /\ pump[e].pc # "none" /\ pump'[e].pc # "none"
        /\ pump'[e].pc \in {"created", "draining"} => worker'[e].pc = "idle"
    BY <1>8, PumpEffect
  <2>3. native_lock = e => worker'[e].pc = "running"
    <3>1. PumpSends(e) => native_lock # e
      BY DEF PumpSends
    <3> QED
      BY <1>8, <3>1, PumpEffect
  <2>4. \A f \in Epoch : worker'[f].sought <=> worker[f].sought
    BY <1>8, PumpEffect
  <2>5. \A f \in Epoch \ {e} : /\ pump'[f].pc = pump[f].pc /\ pump'[f].batch = pump[f].batch
                               /\ worker'[f].pc = worker[f].pc
    BY <1>8, PumpEffect
  <2> QED
    BY <1>0, <2>1, <2>2, <2>3, <2>4, <2>5
<1>9. ASSUME NEW e \in Epoch, WorkerStep(e) \/ WorkerFails(e) PROVE WorkerInv'
  <2>1. UNCHANGED <<container, closing>>
    BY <1>9 DEF WorkerStep, WorkerEnter, WorkerLeave, WorkerFails
  <2>2. worker[e].pc = "running"
    BY <1>9, WorkerEffect
  <2>3. /\ \A f \in Epoch \ {e} : /\ pump'[f].batch = pump[f].batch
                                  /\ worker'[f].pc = worker[f].pc
                                  /\ worker'[f].sought <=> worker[f].sought
        /\ \A f \in Epoch : pump'[f].pc = pump[f].pc
    <3>1. /\ \A f \in Epoch \ {e} : /\ pump'[f].batch = pump[f].batch
                                    /\ worker'[f].pc = worker[f].pc
                                    /\ worker'[f].sought = worker[f].sought
          /\ \A f \in Epoch : pump'[f].pc = pump[f].pc
      BY <1>9, WorkerEffect, Zenon
    <3> QED
      BY <3>1
  <2>4. pump[e].pc \notin {"none", "created", "draining"}
    BY <2>2
  <2>5. native_lock' \in {None, e} /\ (native_lock' = e => worker'[e].pc = "running")
    BY <1>0, <1>9, WorkerEffect
  <2>6. native_lock' # None => native_lock = None /\ pump[e].gen = iter_gen
    BY <1>0, <1>9, WorkerEffect
  <2>7. container = "closed" => native_lock' = None
    <3>1. closing = "closed" => pump[e].gen # iter_gen
      <4>1. pump[e].gen <= uplink_generation /\ uplink_generation \in Int /\ pump[e].gen \in Int
        BY Records, TypeParts DEF GenerationInv, OtherTypes, Pumps
      <4>2. closing = "closed" => iter_gen = uplink_generation + 1
        BY DEF SeekInv
      <4> QED
        BY <4>1, <4>2
    <3> QED
      BY <2>6, <3>1
  <2> QED
    BY <1>0, <2>1, <2>3, <2>4, <2>5, <2>7
<1>10. CASE ServerStep \/ ServerCloses
  BY <1>10 DEF ServerStep, TakeSeek, AcknowledgeSeek, RunUplink, ServerCloses
<1>11. CASE UNCHANGED vars
  BY <1>11 DEF vars
<1> QED
  BY <1>1, <1>2, <1>3, <1>4, <1>5, <1>6, <1>7, <1>8, <1>9, <1>10, <1>11
     DEF Next, Proceed, SeekStep

(* Numbers and sequences of the stream.                                    *)
LEMMA Numbers ==
  ASSUME TypeOK
  PROVE  /\ \A f \in Epoch : Target[f] \in Nat
         /\ accepted.epoch \in Epoch /\ accepted.data \in Seq(1..EOS)
         /\ Len(accepted.data) \in Nat /\ DOMAIN accepted.data = 1..Len(accepted.data)
         /\ Len(uplink) \in Nat /\ DOMAIN uplink = 1..Len(uplink)
         /\ uplink # <<>> <=> Len(uplink) > 0
         /\ \A i \in 1..Len(uplink) : uplink[i].epoch \in Epoch /\ uplink[i].item \in Nat
         /\ Epoch \subseteq Nat /\ epoch \in Epoch /\ pipeline_epoch \in Epoch
         /\ session_epoch \in Epoch
<1>1. uplink \in Seq(PacketSet) /\ Epoch \subseteq Nat /\ epoch \in Epoch
      /\ pipeline_epoch \in Epoch /\ session_epoch \in Epoch
      /\ \A i \in DOMAIN uplink : uplink[i].epoch \in Epoch /\ uplink[i].item \in 1..EOS
  BY Connection
<1>2. Len(uplink) \in Nat /\ DOMAIN uplink = 1..Len(uplink) /\ (uplink # <<>> <=> Len(uplink) > 0)
  BY <1>1
<1>3. accepted.epoch \in Epoch /\ accepted.data \in Seq(1..EOS)
  BY TypeParts DEF OtherTypes
<1>4. Len(accepted.data) \in Nat /\ DOMAIN accepted.data = 1..Len(accepted.data)
  BY <1>3, LenProperties
<1>5. /\ \A f \in Epoch : Target[f] \in Nat
      /\ \A n \in 1..EOS : n \in Nat
  BY Constants
<1> QED
  BY <1>1, <1>2, <1>3, <1>4, <1>5

LEMMA ComingNumber ==
  ASSUME TypeOK, NEW e \in Epoch
  PROVE  Coming(e) \in Nat
<1>1. uplink # <<>> => uplink[Len(uplink)].item \in Nat
  BY Numbers
<1> QED
  BY <1>1, Numbers DEF Coming

(* What a pump sends goes on where the packets on the way end.             *)
LEMMA SentInOrder ==
  ASSUME TypeOK, Reads, NEW e \in Epoch, Current(e), server = "open",
         NEW items \in Seq(1..EOS),
         \/ /\ PumpSends(e) /\ items = IF pump[e].batch = <<>> THEN <<EOS>> ELSE pump[e].batch
         \/ PumpEnds(e) /\ items = <<EOS>>
  PROVE  /\ Len(items) \in Nat /\ Len(items) > 0
         /\ \A i \in 1..Len(items) : items[i] = Coming(e) + i - 1
         /\ PumpSends(e) /\ pump[e].batch # <<>> =>
              worker[e].sought /\ position = Coming(e) + Len(items)
<1>1. pump[e].batch \in Seq(Position)
  BY Records DEF Pumps
<1>2. Len(pump[e].batch) \in Nat /\ DOMAIN pump[e].batch = 1..Len(pump[e].batch)
      /\ (pump[e].batch = <<>> <=> Len(pump[e].batch) = 0)
  BY <1>1
<1>3. UplinkBatch \in Nat /\ UplinkBatch >= 1 /\ EOS \in Nat
  BY Constants
<1>4. Sends(e)
  BY DEF Sends, PumpSends, PumpEnds
<1>5. CASE PumpSends(e) /\ pump[e].batch # <<>>
  <2>1. items = pump[e].batch /\ pump[e].pc = "reading"
    BY <1>5 DEF PumpSends, PumpEnds
  <2>2. worker[e].sought
    BY <1>4, <1>5 DEF Reads, ReadsOf
  <2> QED
    BY <1>2, <1>4, <2>1, <2>2 DEF Reads, ReadsOf
<1>6. CASE ~(PumpSends(e) /\ pump[e].batch # <<>>)
  <2>1. items = <<EOS>>
    BY <1>6
  <2>2. worker[e].sought /\ position = EOS
    <3>1. Len(pump[e].batch) # UplinkBatch
      BY <1>2, <1>3, <1>6 DEF PumpEnds
    <3>2. pump[e].pc = "draining" \/ worker[e].pc = "returned"
      BY DEF PumpSends, PumpEnds
    <3> QED
      BY <1>4, <3>1, <3>2 DEF Reads, ReadsOf
  <2>3. pump[e].pc = "reading" => Len(pump[e].batch) = 0
    BY <1>2, <1>6 DEF PumpEnds
  <2>4. position = Coming(e)
    BY <1>3, <1>4, <2>2, <2>3, ComingNumber DEF Reads, ReadsOf
  <2>5. Len(items) = 1 /\ items[1] = EOS
    BY <2>1
  <2> QED
    BY <1>3, <1>6, <2>2, <2>4, <2>5
<1> QED
  BY <1>5, <1>6

LEMMA SendingKeepsOrder ==
  ASSUME TypeOK, TypeOK', GenerationInv, FlushInv, UnderWay, Reads,
         NEW e \in Epoch, PumpStep(e)
  PROVE  UnderWay'
<1>1. UNCHANGED <<accepted, pipeline_epoch, session_epoch>>
  BY DEF PumpStep, PumpReads, PumpSends, PumpEnds, PumpFails, PumpCancelled, serverVars
<1>2. \A f \in Epoch : pump[f].pc # "none" => pump'[f].pc # "none"
  <2>1. pump'[e].pc # "none"
    BY PumpEffect
  <2> QED
    BY <2>1, PumpEffect
<1>3. CASE uplink' = uplink
  BY <1>1, <1>2, <1>3, Numbers DEF UnderWay, Follows
<1>4. CASE uplink' # uplink
  <2> DEFINE n == Len(uplink)
  <2>1. PICK items \in Seq(1..EOS) :
               /\ Current(e) /\ server = "open" /\ SentOn(e, items)
               /\ \/ /\ PumpSends(e)
                     /\ items = IF pump[e].batch = <<>> THEN <<EOS>> ELSE pump[e].batch
                  \/ PumpEnds(e) /\ items = <<EOS>>
    BY <1>4, UplinkGrows, Zenon
  <2>2. /\ Len(items) \in Nat /\ Len(items) > 0
        /\ \A i \in 1..Len(items) : items[i] = Coming(e) + i - 1
    BY <2>1, SentInOrder
  <2>3. /\ n \in Nat /\ Len(uplink') = n + Len(items) /\ DOMAIN uplink' = 1..n + Len(items)
        /\ DOMAIN uplink = 1..n /\ (uplink # <<>> <=> n > 0) /\ uplink' # <<>>
        /\ \A i \in 1..n : uplink[i].epoch \in Nat /\ uplink[i].item \in Nat
        /\ e \in Nat /\ accepted.epoch \in Nat /\ Coming(e) \in Nat
        /\ pipeline_epoch \in Nat /\ session_epoch \in Nat
    BY <2>1, <2>2, Numbers, ComingNumber, SMTT(20) DEF SentOn
  <2>4. /\ \A i \in 1..n : uplink'[i] = uplink[i]
        /\ \A i \in 1..Len(items) : /\ uplink'[n + i].epoch = e
                                    /\ uplink'[n + i].item = Coming(e) + i - 1
    BY <2>1, <2>2 DEF SentOn
  <2>5. \A i \in 1..n + Len(items) : i > n => /\ uplink'[i].epoch = e
                                              /\ uplink'[i].item = Coming(e) + (i - n) - 1
    <3> SUFFICES ASSUME NEW i \in 1..n + Len(items), i > n
                 PROVE  /\ uplink'[i].epoch = e
                        /\ uplink'[i].item = Coming(e) + (i - n) - 1
      OBVIOUS
    <3>1. i - n \in 1..Len(items) /\ n + (i - n) = i
      BY <2>2, <2>3
    <3> QED
      BY <2>4, <3>1
  <2>6. /\ e = epoch /\ pipeline_epoch <= e /\ session_epoch <= e
        /\ accepted.epoch <= e /\ \A i \in 1..n : uplink[i].epoch <= e
    <3>1. e = epoch /\ pipeline_epoch <= e /\ session_epoch <= e /\ accepted.epoch <= e
      BY <2>1, <2>3, Numbers DEF Current, FlushInv, UnderWay
    <3>2. \A i \in 1..n : pump[uplink[i].epoch].pc # "none" /\ uplink[i].epoch \in Epoch
      BY Numbers DEF FlushInv
    <3>3. \A i \in 1..n : uplink[i].epoch <= pipeline_epoch
      BY <3>2 DEF FlushInv
    <3> QED
      BY <2>3, <3>1, <3>3
  <2>7. Coming(e) = IF n > 0 /\ uplink[n].epoch = e THEN uplink[n].item + 1
                    ELSE IF accepted.epoch = e THEN Target[e] + Len(accepted.data)
                    ELSE Target[e]
    BY <2>3 DEF Coming
  <2> HIDE DEF n
  <2>a. /\ \A i \in 1..n : accepted.epoch <= uplink[i].epoch
        /\ \A i, j \in 1..n : i <= j => uplink[i].epoch <= uplink[j].epoch
        /\ \A i \in 1..n : i + 1 \in 1..n => Follows(uplink[i], uplink[i + 1])
    BY <2>3 DEF UnderWay
  <2>8. \A i \in 1..n + Len(items) : accepted.epoch <= uplink'[i].epoch
    <3> SUFFICES ASSUME NEW i \in 1..n + Len(items)
                 PROVE  accepted.epoch <= uplink'[i].epoch
      OBVIOUS
    <3>1. CASE i <= n
      <4>1. i \in 1..n
        BY <2>3, <3>1
      <4> QED
        BY <2>4, <2>a, <4>1
    <3>2. CASE i > n
      BY <2>5, <2>6, <3>2
    <3> QED
      BY <2>3, <3>1, <3>2
  <2>9. \A i, j \in 1..n + Len(items) : i <= j => uplink'[i].epoch <= uplink'[j].epoch
    <3> SUFFICES ASSUME NEW i \in 1..n + Len(items), NEW j \in 1..n + Len(items), i <= j
                 PROVE  uplink'[i].epoch <= uplink'[j].epoch
      OBVIOUS
    <3>1. CASE j <= n
      <4>1. i \in 1..n /\ j \in 1..n
        BY <2>3, <3>1
      <4> QED
        BY <2>4, <2>a, <4>1
    <3>2. CASE i <= n /\ j > n
      <4>1. i \in 1..n /\ uplink'[j].epoch = e
        BY <2>3, <2>5, <3>2
      <4> QED
        BY <2>4, <2>6, <4>1
    <3>3. CASE i > n
      <4>1. j > n
        BY <2>3, <3>3
      <4>2. uplink'[i].epoch = e /\ uplink'[j].epoch = e
        BY <2>5, <3>3, <4>1
      <4> QED
        BY <2>3, <4>2
    <3> QED
      BY <2>3, <3>1, <3>2, <3>3
  <2>10. uplink'[1].epoch >= session_epoch =>
           uplink'[1].item = IF uplink'[1].epoch = accepted.epoch
                               THEN Target[accepted.epoch] + Len(accepted.data)
                               ELSE Target[uplink'[1].epoch]
    BY <2>2, <2>3, <2>4, <2>5, <2>7 DEF UnderWay
  <2>11. \A i \in 1..n + Len(items) : i + 1 \in 1..n + Len(items) =>
            Follows(uplink'[i], uplink'[i + 1])
    <3> SUFFICES ASSUME NEW i \in 1..n + Len(items), i + 1 \in 1..n + Len(items)
                 PROVE  Follows(uplink'[i], uplink'[i + 1])
      OBVIOUS
    <3>1. CASE i + 1 <= n
      <4>1. i \in 1..n /\ i + 1 \in 1..n
        BY <2>3, <3>1
      <4> QED
        BY <2>4, <2>a, <4>1
    <3>2. CASE i = n
      <4>1. uplink'[i] = uplink[n] /\ uplink'[i + 1].epoch = e /\ uplink'[i + 1].item = Coming(e)
        BY <2>2, <2>3, <2>4, <2>5, <3>2
      <4>2. uplink[n].epoch # e => accepted.epoch # e
        BY <2>3, <2>6, <3>2 DEF UnderWay
      <4> QED
        BY <2>3, <2>7, <3>2, <4>1, <4>2 DEF Follows
    <3>3. CASE i > n
      <4>1. PICK k \in 1..n + Len(items) : k = i + 1
        OBVIOUS
      <4>2. k > n /\ k - n = i - n + 1
        BY <2>3, <3>3, <4>1
      <4>3. uplink'[i].epoch = e /\ uplink'[i].item = Coming(e) + (i - n) - 1
        BY <2>5, <3>3
      <4>4. uplink'[k].epoch = e /\ uplink'[k].item = Coming(e) + (k - n) - 1
        BY <2>5, <4>2
      <4>5. Follows(uplink'[i], uplink'[k])
        BY <2>3, <4>2, <4>3, <4>4 DEF Follows
      <4> QED
        BY <4>1, <4>5
    <3> QED
      BY <2>3, <3>1, <3>2, <3>3
  <2>12. accepted.data # <<>> => pump'[accepted.epoch].pc # "none"
    BY <1>2, Numbers DEF UnderWay
  <2>13. accepted.epoch <= pipeline_epoch
    BY DEF UnderWay
  <2> QED
    BY <1>1, <2>3, <2>8, <2>9, <2>10, <2>11, <2>12, <2>13 DEF UnderWay
<1> QED
  BY <1>3, <1>4

(* The server takes one packet: it drops what is stale, and goes on with   *)
(* its epoch or begins a newer one.                                        *)
LEMMA AcceptedGrows ==
  ASSUME TypeOK, RunUplink
  PROVE  \/ Head(uplink).epoch < session_epoch /\ accepted' = accepted
         \/ /\ Head(uplink).epoch >= session_epoch /\ Head(uplink).epoch = accepted.epoch
            /\ accepted'.epoch = accepted.epoch
            /\ Len(accepted'.data) = Len(accepted.data) + 1
            /\ \A i \in 1..Len(accepted.data) : accepted'.data[i] = accepted.data[i]
            /\ accepted'.data[Len(accepted.data) + 1] = Head(uplink).item
         \/ /\ Head(uplink).epoch >= session_epoch /\ Head(uplink).epoch # accepted.epoch
            /\ accepted'.epoch = Head(uplink).epoch
            /\ Len(accepted'.data) = 1 /\ accepted'.data[1] = Head(uplink).item
<1> DEFINE pkt == Head(uplink)  d == accepted.data
<1>1. /\ d \in Seq(1..EOS) /\ Len(d) \in Nat /\ accepted \in [epoch : Epoch, data : Seq(1..EOS)]
      /\ pkt.epoch \in Nat /\ pkt.item \in 1..EOS /\ session_epoch \in Nat
  <2>1. uplink # <<>> /\ uplink \in Seq(PacketSet)
    BY Connection DEF RunUplink
  <2>2. pkt \in PacketSet
    BY <2>1
  <2> QED
    BY <2>2, Numbers, TypeParts DEF PacketSet, OtherTypes
<1>2. /\ Len(Append(d, pkt.item)) = Len(d) + 1
      /\ \A i \in 1..Len(d) : Append(d, pkt.item)[i] = d[i]
      /\ Append(d, pkt.item)[Len(d) + 1] = pkt.item
  BY <1>1
<1>3. accepted' = IF pkt.epoch < session_epoch THEN accepted
                  ELSE IF pkt.epoch = accepted.epoch
                  THEN [accepted EXCEPT !.data = Append(d, pkt.item)]
                  ELSE [epoch |-> pkt.epoch, data |-> <<pkt.item>>]
  BY DEF RunUplink
<1> HIDE DEF pkt, d
<1>4. CASE pkt.epoch < session_epoch
  BY <1>3, <1>4 DEF pkt
<1>5. CASE ~(pkt.epoch < session_epoch) /\ pkt.epoch = accepted.epoch
  <2>1. accepted'.epoch = accepted.epoch /\ accepted'.data = Append(d, pkt.item)
    BY <1>1, <1>3, <1>5
  <2> QED
    BY <1>1, <1>2, <1>5, <2>1 DEF pkt, d
<1>6. CASE ~(pkt.epoch < session_epoch) /\ pkt.epoch # accepted.epoch
  <2>1. accepted'.epoch = pkt.epoch /\ accepted'.data = <<pkt.item>>
    BY <1>3, <1>6
  <2> QED
    BY <1>1, <1>6, <2>1 DEF pkt, d
<1> QED
  BY <1>4, <1>5, <1>6

LEMMA TailOf ==
  ASSUME NEW S, NEW s \in Seq(S), s # <<>>
  PROVE  /\ Len(s) \in Nat /\ Len(s) > 0 /\ DOMAIN s = 1..Len(s) /\ Head(s) = s[1]
         /\ Len(Tail(s)) = Len(s) - 1 /\ DOMAIN Tail(s) = 1..Len(s) - 1
         /\ Tail(s) # <<>> <=> Len(s) > 1
         /\ \A i \in 1..Len(s) - 1 : Tail(s)[i] = s[i + 1]
<1>1. /\ Len(s) \in Nat /\ Len(s) > 0 /\ DOMAIN s = 1..Len(s) /\ Head(s) = s[1]
      /\ Len(Tail(s)) = Len(s) - 1 /\ Tail(s) \in Seq(S)
  OBVIOUS
<1>2. DOMAIN Tail(s) = 1..Len(s) - 1 /\ (Tail(s) # <<>> <=> Len(s) - 1 > 0)
  BY <1>1
<1>3. \A i \in 1..Len(s) - 1 : Tail(s)[i] = s[i + 1]
  OBVIOUS
<1> QED
  BY <1>1, <1>2, <1>3

LEMMA ServingKeepsOrder ==
  ASSUME TypeOK, TypeOK', FlushInv, UnderWay, InOrder, RunUplink
  PROVE  UnderWay' /\ InOrder'
<1> DEFINE n == Len(uplink)  h == uplink[1]  d == accepted.data
<1>1. /\ n \in Nat /\ n > 0 /\ DOMAIN uplink = 1..n /\ Head(uplink) = h
      /\ Len(uplink') = n - 1 /\ DOMAIN uplink' = 1..n - 1
      /\ uplink' # <<>> <=> n > 1
      /\ \A i \in 1..n - 1 : uplink'[i] = uplink[i + 1]
  <2>1. uplink # <<>> /\ uplink \in Seq(PacketSet) /\ uplink' = Tail(uplink)
    BY Connection DEF RunUplink
  <2> QED
    BY <2>1, TailOf
<1>2. UNCHANGED <<pump, session_epoch, pipeline_epoch>>
  BY DEF RunUplink
<1>3. /\ \A i \in 1..n : /\ uplink[i].epoch \in Epoch /\ uplink[i].epoch \in Nat
                         /\ uplink[i].item \in Nat
                         /\ pump[uplink[i].epoch].pc # "none"
                         /\ uplink[i].epoch <= pipeline_epoch
      /\ h.epoch \in Epoch /\ h.epoch \in Nat /\ h.item \in Nat /\ accepted.epoch \in Nat
      /\ session_epoch \in Nat /\ pipeline_epoch \in Nat
      /\ \A f \in Epoch : Target[f] \in Nat
      /\ Len(d) \in Nat /\ DOMAIN d = 1..Len(d)
  <2>1. \A i \in 1..n : uplink[i].epoch \in Epoch /\ uplink[i].item \in Nat
    BY Numbers
  <2>2. \A i \in 1..n : pump[uplink[i].epoch].pc # "none"
    BY Numbers DEF FlushInv
  <2>3. \A i \in 1..n : uplink[i].epoch <= pipeline_epoch
    BY <2>1, <2>2 DEF FlushInv
  <2> QED
    BY <1>1, <2>1, <2>2, <2>3, Numbers
<1>4. /\ \A i \in 1..n : accepted.epoch <= uplink[i].epoch
      /\ \A i, j \in 1..n : i <= j => uplink[i].epoch <= uplink[j].epoch
      /\ \A i \in 1..n : i + 1 \in 1..n => Follows(uplink[i], uplink[i + 1])
      /\ h.epoch >= session_epoch =>
           h.item = IF h.epoch = accepted.epoch THEN Target[accepted.epoch] + Len(d)
                    ELSE Target[h.epoch]
      /\ accepted.epoch <= pipeline_epoch
      /\ d # <<>> => pump[accepted.epoch].pc # "none"
      /\ \A i \in 1..Len(d) : d[i] = Target[accepted.epoch] + i - 1
  <2>1. /\ \A i \in 1..n : accepted.epoch <= uplink[i].epoch
        /\ \A i, j \in 1..n : i <= j => uplink[i].epoch <= uplink[j].epoch
        /\ \A i \in 1..n : i + 1 \in 1..n => Follows(uplink[i], uplink[i + 1])
    BY <1>1 DEF UnderWay
  <2>2. h.epoch >= session_epoch =>
           h.item = IF h.epoch = accepted.epoch THEN Target[accepted.epoch] + Len(d)
                    ELSE Target[h.epoch]
    <3>1. uplink # <<>>
      BY DEF RunUplink
    <3> QED
      BY <3>1 DEF UnderWay
  <2>3. /\ accepted.epoch <= pipeline_epoch
        /\ d # <<>> => pump[accepted.epoch].pc # "none"
    BY DEF UnderWay
  <2>4. \A i \in 1..Len(d) : d[i] = Target[accepted.epoch] + i - 1
    BY <1>3 DEF InOrder
  <2> QED
    BY <2>1, <2>2, <2>3, <2>4
<1>5. DOMAIN accepted'.data = 1..Len(accepted'.data)
  BY Numbers, TypeOK' DEF TypeOK
<1>6. \/ h.epoch < session_epoch /\ accepted' = accepted
      \/ /\ h.epoch >= session_epoch /\ h.epoch = accepted.epoch
         /\ accepted'.epoch = accepted.epoch /\ Len(accepted'.data) = Len(d) + 1
         /\ \A i \in 1..Len(d) : accepted'.data[i] = d[i]
         /\ accepted'.data[Len(d) + 1] = h.item
      \/ /\ h.epoch >= session_epoch /\ h.epoch # accepted.epoch
         /\ accepted'.epoch = h.epoch /\ Len(accepted'.data) = 1 /\ accepted'.data[1] = h.item
  BY <1>1, AcceptedGrows
<1> HIDE DEF n, h, d
<1>7. \A i \in 1..n : h.epoch <= uplink[i].epoch
  BY <1>1, <1>4 DEF h
<1>8. /\ \A i \in 1..n - 1 : accepted'.epoch <= uplink'[i].epoch
      /\ accepted'.epoch <= pipeline_epoch
      /\ accepted'.epoch \in Epoch /\ pump[accepted'.epoch].pc = "none" => accepted' = accepted
  <2>1. h.epoch <= pipeline_epoch /\ pump[h.epoch].pc # "none"
    BY <1>1, <1>3 DEF h
  <2>2. accepted'.epoch \in {accepted.epoch, h.epoch}
    BY <1>6
  <2>3. \A i \in 1..n - 1 : uplink'[i].epoch >= accepted.epoch /\ uplink'[i].epoch >= h.epoch
    <3> SUFFICES ASSUME NEW i \in 1..n - 1
                 PROVE  uplink'[i].epoch >= accepted.epoch /\ uplink'[i].epoch >= h.epoch
      OBVIOUS
    <3>1. i + 1 \in 1..n /\ uplink'[i] = uplink[i + 1]
      BY <1>1
    <3>2. uplink[i + 1].epoch \in Nat /\ accepted.epoch <= uplink[i + 1].epoch
          /\ h.epoch <= uplink[i + 1].epoch
      BY <1>3, <1>4, <1>7, <3>1
    <3> QED
      BY <1>3, <3>1, <3>2
  <2>4. pump[accepted'.epoch].pc = "none" => accepted' = accepted
    BY <1>6, <2>1
  <2> QED
    BY <1>3, <1>4, <2>1, <2>2, <2>3, <2>4
<1>9. \A i, j \in 1..n - 1 : i <= j => uplink'[i].epoch <= uplink'[j].epoch
  <2> SUFFICES ASSUME NEW i \in 1..n - 1, NEW j \in 1..n - 1, i <= j
               PROVE  uplink'[i].epoch <= uplink'[j].epoch
    OBVIOUS
  <2>1. PICK k \in 1..n, l \in 1..n : k = i + 1 /\ l = j + 1 /\ k <= l
    BY <1>1
  <2>2. uplink'[i] = uplink[k] /\ uplink'[j] = uplink[l]
    BY <1>1, <2>1
  <2> QED
    BY <1>4, <2>1, <2>2
<1>10. \A i \in 1..n - 1 : i + 1 \in 1..n - 1 => Follows(uplink'[i], uplink'[i + 1])
  <2> SUFFICES ASSUME NEW i \in 1..n - 1, i + 1 \in 1..n - 1
               PROVE  Follows(uplink'[i], uplink'[i + 1])
    OBVIOUS
  <2>1. PICK k \in 1..n - 1 : k = i + 1
    OBVIOUS
  <2>2. k \in 1..n /\ k + 1 \in 1..n /\ uplink'[i] = uplink[k] /\ uplink'[k] = uplink[k + 1]
    BY <1>1, <2>1
  <2>3. Follows(uplink[k], uplink[k + 1])
    BY <1>4, <2>2
  <2> QED
    BY <2>1, <2>2, <2>3
<1>11. n > 1 /\ uplink'[1].epoch >= session_epoch =>
         uplink'[1].item = IF uplink'[1].epoch = accepted'.epoch
                             THEN Target[accepted'.epoch] + Len(accepted'.data)
                             ELSE Target[uplink'[1].epoch]
  <2> SUFFICES ASSUME n > 1, uplink'[1].epoch >= session_epoch
               PROVE  uplink'[1].item = IF uplink'[1].epoch = accepted'.epoch
                                          THEN Target[accepted'.epoch] + Len(accepted'.data)
                                          ELSE Target[uplink'[1].epoch]
    OBVIOUS
  <2> DEFINE q == uplink[2]
  <2>1. /\ uplink'[1] = q /\ Follows(h, q) /\ accepted.epoch <= h.epoch /\ h.epoch <= q.epoch
        /\ q.epoch \in Nat
    BY <1>1, <1>3, <1>4, <1>7 DEF h
  <2> HIDE DEF q
  <2>2. q.item = IF q.epoch = h.epoch THEN h.item + 1 ELSE Target[q.epoch]
    BY <2>1 DEF Follows
  <2>3. CASE h.epoch < session_epoch /\ accepted' = accepted
    <3>1. q.epoch # h.epoch /\ q.epoch # accepted.epoch
      BY <1>3, <2>1, <2>3
    <3> QED
      BY <2>1, <2>2, <2>3, <3>1
  <2>4. CASE h.epoch >= session_epoch /\ h.epoch = accepted.epoch
             /\ accepted'.epoch = accepted.epoch /\ Len(accepted'.data) = Len(d) + 1
    <3>1. h.item = Target[accepted.epoch] + Len(d)
      BY <1>4, <2>4
    <3>2. Target[accepted.epoch] \in Nat /\ Len(d) \in Nat
      BY <1>3, <2>4
    <3> QED
      BY <2>1, <2>2, <2>4, <3>1, <3>2
  <2>5. CASE h.epoch >= session_epoch /\ h.epoch # accepted.epoch
             /\ accepted'.epoch = h.epoch /\ Len(accepted'.data) = 1
    BY <1>3, <1>4, <2>1, <2>2, <2>5
  <2> QED
    BY <1>6, <2>3, <2>4, <2>5
<1>12. \A i \in 1..Len(accepted'.data) : accepted'.data[i] = Target[accepted'.epoch] + i - 1
  <2>1. CASE accepted' = accepted
    BY <1>4, <2>1 DEF d
  <2>2. CASE /\ h.epoch >= session_epoch /\ h.epoch = accepted.epoch
             /\ accepted'.epoch = accepted.epoch /\ Len(accepted'.data) = Len(d) + 1
             /\ \A i \in 1..Len(d) : accepted'.data[i] = d[i]
             /\ accepted'.data[Len(d) + 1] = h.item
    <3>1. h.item = Target[accepted.epoch] + (Len(d) + 1) - 1
      BY <1>3, <1>4, <2>2
    <3> QED
      BY <1>3, <1>4, <2>2, <3>1, SMTT(20)
  <2>3. CASE /\ h.epoch >= session_epoch /\ h.epoch # accepted.epoch
             /\ accepted'.epoch = h.epoch /\ Len(accepted'.data) = 1
             /\ accepted'.data[1] = h.item
    BY <1>3, <1>4, <2>3
  <2> QED
    BY <1>6, <2>1, <2>2, <2>3
<1>13. accepted'.data # <<>> => pump[accepted'.epoch].pc # "none"
  <2>1. accepted' = accepted => (accepted'.data # <<>> => pump[accepted'.epoch].pc # "none")
    BY <1>4 DEF d
  <2>2. h.epoch \in Epoch /\ accepted'.epoch \in Epoch
    BY <1>3, <1>6, Numbers
  <2> QED
    BY <1>8, <2>1, <2>2
<1> QED
  <2>1. InOrder'
    BY <1>5, <1>12 DEF InOrder
  <2>2. UnderWay'
    BY <1>1, <1>2, <1>8, <1>9, <1>10, <1>11, <1>13 DEF UnderWay
  <2> QED
    BY <2>1, <2>2

LEMMA StreamKept ==
  ASSUME TypeOK, TypeOK', GenerationInv, SeekInv, FlushInv, WorkerInv, InOrder, UnderWay,
         Reads, [Next]_vars
  PROVE  UnderWay' /\ InOrder'
<1> USE DEF clientVars, serverVars
<1>0. /\ accepted.epoch \in Epoch
      /\ \A i \in 1..Len(uplink) : uplink[i].epoch \in Epoch
      /\ DOMAIN uplink = 1..Len(uplink)
  BY Numbers
<1>1. ASSUME NEW e \in Epoch, PumpStep(e) PROVE UnderWay' /\ InOrder'
  <2>1. InOrder'
    BY <1>1 DEF InOrder, PumpStep, PumpReads, PumpSends, PumpEnds, PumpFails, PumpCancelled
  <2> QED
    BY <1>1, <2>1, SendingKeepsOrder
<1>2. CASE RunUplink
  BY <1>2, ServingKeepsOrder
<1>3. CASE TakeSeek
  <2>1. UNCHANGED <<accepted, pump, uplink, pipeline_epoch>>
    BY <1>3 DEF TakeSeek
  <2>2. session_epoch <= session_epoch' /\ session_epoch \in Nat /\ session_epoch' \in Nat
    <3>1. Epoch \subseteq Nat /\ session_epoch \in Epoch /\ session_epoch' \in Epoch
      BY Connection, TypePartsNext DEF OtherTypes
    <3>2. control_in \in Seq(Int) /\ control_in # <<>>
      BY <1>3, Connection DEF TakeSeek
    <3>3. Head(control_in) \in Int
      BY <3>2
    <3> QED
      BY <1>3, <3>1, <3>3 DEF TakeSeek
  <2>3. uplink # <<>> => uplink[1].epoch \in Nat
    BY Numbers
  <2> QED
    BY <2>1, <2>2, <2>3 DEF UnderWay, InOrder
<1>4. CASE AcknowledgeSeek
  <2>1. UNCHANGED <<accepted, pump, uplink, session_epoch>> /\ pipeline_epoch' = session_epoch
    BY <1>4 DEF AcknowledgeSeek
  <2>2. accepted.epoch <= session_epoch
    BY Numbers DEF UnderWay, FlushInv
  <2> QED
    BY <2>1, <2>2 DEF UnderWay, InOrder
<1>5. CASE Disconnect \/ ServerCloses
  <2>1. UNCHANGED <<accepted, pump, pipeline_epoch>> /\ uplink' = <<>>
    BY <1>5 DEF Disconnect, ServerCloses
  <2>2. DOMAIN uplink' = {}
    BY <2>1
  <2> QED
    BY <2>1, <2>2 DEF UnderWay, InOrder
<1>6. ASSUME UNCHANGED <<accepted, uplink, session_epoch, pipeline_epoch>>,
             \A f \in Epoch : pump[f].pc # "none" => pump'[f].pc # "none"
      PROVE  UnderWay' /\ InOrder'
  BY <1>0, <1>6 DEF UnderWay, InOrder
<1>7. ASSUME NEW e \in Epoch, StartUplink(e) PROVE UnderWay' /\ InOrder'
  <2>1. UNCHANGED <<accepted, uplink, session_epoch, pipeline_epoch>>
    BY <1>7 DEF StartUplink
  <2>2. CASE e = epoch /\ Live
    <3>1. \A f \in Epoch : pump[f].pc # "none" => pump'[f].pc # "none"
      BY <1>7, <2>2, StartEffect
    <3> QED
      BY <1>6, <2>1, <3>1
  <2>3. CASE ~(e = epoch /\ Live)
    <3>1. pump' = pump
      BY <1>7, <2>3 DEF StartUplink
    <3> QED
      BY <1>6, <2>1, <3>1
  <2> QED
    BY <2>2, <2>3
<1>8. CASE /\ UNCHANGED <<accepted, uplink, session_epoch, pipeline_epoch>>
           /\ \A e \in Epoch : ~StartUplink(e)
  <2>1. \A f \in Epoch : pump[f].pc # "none" => pump'[f].pc # "none"
    BY <1>8, PumpsStay DEF SamePumps
  <2> QED
    BY <1>6, <1>8, <2>1
<1>9. CASE \/ Seek \/ Teardown \/ BeginClose \/ ReadControl \/ CloseTrack \/ CloseContainer
           \/ UNCHANGED vars
           \/ \E e \in Epoch : SeekAnswered(e) \/ SeekTimeout(e) \/ WorkerStep(e) \/ WorkerFails(e)
  <2>1. UNCHANGED <<accepted, uplink, session_epoch, pipeline_epoch>>
    BY <1>9 DEF Seek, Teardown, BeginClose, ReadControl, CloseTrack, CloseContainer, vars,
                SeekAnswered, SeekTimeout, WorkerStep, WorkerEnter, WorkerLeave, WorkerFails
  <2> QED
    BY <1>7, <1>8, <2>1
<1> QED
  BY <1>1, <1>2, <1>3, <1>4, <1>5, <1>7, <1>9 DEF Next, Proceed, SeekStep, ServerStep

(* The item that comes next for an epoch, by where the packets are.        *)
LEMMA ComingUnchanged ==
  ASSUME NEW f \in Epoch, UNCHANGED <<uplink, accepted>>
  PROVE  Coming(f)' = Coming(f)
BY DEF Coming

(* The server's taking a packet leaves what comes next as it is.           *)
LEMMA ComingServed ==
  ASSUME TypeOK, TypeOK', FlushInv, UnderWay, RunUplink
  PROVE  Coming(epoch)' = Coming(epoch)
<1> DEFINE n == Len(uplink)  h == uplink[1]  last == uplink[n]
<1>1. /\ n \in Nat /\ n > 0 /\ uplink # <<>> /\ Head(uplink) = h
      /\ Len(uplink') = n - 1 /\ (uplink' # <<>> <=> n > 1)
      /\ n > 1 => uplink'[n - 1] = last
  <2>1. uplink # <<>> /\ uplink \in Seq(PacketSet) /\ uplink' = Tail(uplink)
    BY Connection DEF RunUplink
  <2>2. /\ n \in Nat /\ n > 0 /\ Head(uplink) = h /\ Len(uplink') = n - 1
        /\ (uplink' # <<>> <=> n > 1) /\ \A i \in 1..n - 1 : uplink'[i] = uplink[i + 1]
    BY <2>1, TailOf
  <2>3. n > 1 => n - 1 \in 1..n - 1 /\ n - 1 + 1 = n
    BY <2>2
  <2> QED
    BY <2>1, <2>2, <2>3
<1>2. epoch' = epoch /\ session_epoch' = session_epoch
  BY DEF RunUplink, clientVars
<1>3. /\ h.epoch \in Nat /\ last.epoch \in Nat /\ h.item \in Nat /\ epoch \in Nat
      /\ accepted.epoch \in Nat /\ session_epoch \in Nat /\ session_epoch <= epoch
      /\ accepted.epoch <= h.epoch /\ h.epoch <= last.epoch /\ last.epoch <= epoch
      /\ h.epoch >= session_epoch =>
           h.item = IF h.epoch = accepted.epoch THEN Target[accepted.epoch] + Len(accepted.data)
                    ELSE Target[h.epoch]
      /\ n = 1 => last = h
  <2>1. 1 \in DOMAIN uplink /\ n \in DOMAIN uplink
    BY <1>1, Numbers
  <2>2. pump[last.epoch].pc # "none" /\ last.epoch \in Epoch /\ pipeline_epoch <= epoch
    BY <2>1, Numbers DEF FlushInv
  <2>3. last.epoch <= pipeline_epoch
    BY <2>2 DEF FlushInv
  <2>4. accepted.epoch <= h.epoch /\ h.epoch <= last.epoch
    BY <1>1, <2>1, Numbers DEF UnderWay
  <2>5. /\ h.epoch \in Epoch /\ h.item \in Nat /\ Epoch \subseteq Nat /\ epoch \in Epoch
        /\ accepted.epoch \in Epoch /\ session_epoch \in Epoch /\ pipeline_epoch \in Epoch
    BY <2>1, Numbers
  <2>6. h.epoch >= session_epoch =>
           h.item = IF h.epoch = accepted.epoch THEN Target[accepted.epoch] + Len(accepted.data)
                    ELSE Target[h.epoch]
    BY <1>1 DEF UnderWay
  <2>7. session_epoch <= epoch /\ last.epoch <= epoch
    <3>1. session_epoch <= epoch
      BY DEF FlushInv
    <3>2. last.epoch \in Nat /\ pipeline_epoch \in Nat /\ epoch \in Nat
      BY <2>2, <2>5
    <3> QED
      BY <2>2, <2>3, <3>1, <3>2
  <2> QED
    BY <2>2, <2>4, <2>5, <2>6, <2>7
<1>4. \/ h.epoch < session_epoch /\ accepted' = accepted
      \/ /\ h.epoch >= session_epoch /\ h.epoch = accepted.epoch
         /\ accepted'.epoch = accepted.epoch /\ Len(accepted'.data) = Len(accepted.data) + 1
      \/ /\ h.epoch >= session_epoch /\ h.epoch # accepted.epoch
         /\ accepted'.epoch = h.epoch /\ Len(accepted'.data) = 1
  BY <1>1, AcceptedGrows
<1>5. Coming(epoch) = IF last.epoch = epoch THEN last.item + 1
                      ELSE IF accepted.epoch = epoch THEN Target[epoch] + Len(accepted.data)
                      ELSE Target[epoch]
  BY <1>1 DEF Coming
<1>6. Coming(epoch)' = IF n > 1 /\ last.epoch = epoch THEN last.item + 1
                       ELSE IF accepted'.epoch = epoch
                       THEN Target[epoch] + Len(accepted'.data) ELSE Target[epoch]
  <2>1. Coming(epoch)' = IF uplink' # <<>> /\ uplink'[Len(uplink')].epoch = epoch'
                           THEN uplink'[Len(uplink')].item + 1
                         ELSE IF accepted'.epoch = epoch'
                         THEN Target[epoch'] + Len(accepted'.data) ELSE Target[epoch']
    BY DEF Coming
  <2> QED
    BY <1>1, <1>2, <2>1
<1> HIDE DEF n, h, last
<1>7. Target[epoch] \in Nat /\ Len(accepted.data) \in Nat
  BY Numbers
<1>8. CASE last.epoch = epoch /\ n > 1
  BY <1>5, <1>6, <1>8
<1>9. CASE last.epoch = epoch /\ n = 1
  <2>1. h.epoch = epoch /\ h.epoch >= session_epoch /\ last = h
    BY <1>3, <1>9
  <2>2. CASE h.epoch = accepted.epoch
    <3>1. accepted'.epoch = epoch /\ Len(accepted'.data) = Len(accepted.data) + 1
      BY <1>3, <1>4, <2>1, <2>2
    <3>2. h.item = Target[epoch] + Len(accepted.data)
      BY <1>3, <2>1, <2>2
    <3>3. Coming(epoch) = h.item + 1
      BY <1>5, <1>9, <2>1
    <3>4. Coming(epoch)' = Target[epoch] + (Len(accepted.data) + 1)
      BY <1>6, <1>9, <3>1
    <3> QED
      BY <1>7, <3>2, <3>3, <3>4
  <2>3. CASE h.epoch # accepted.epoch
    <3>1. accepted'.epoch = epoch /\ Len(accepted'.data) = 1
      BY <1>3, <1>4, <2>1, <2>3
    <3>2. h.item = Target[epoch]
      BY <1>3, <2>1, <2>3
    <3>3. Coming(epoch) = h.item + 1
      BY <1>5, <1>9, <2>1
    <3>4. Coming(epoch)' = Target[epoch] + 1
      BY <1>6, <1>9, <3>1
    <3> QED
      BY <1>7, <3>2, <3>3, <3>4
  <2> QED
    BY <2>2, <2>3
<1>10. CASE last.epoch # epoch
  <2>1. accepted.epoch # epoch /\ accepted'.epoch # epoch
    BY <1>3, <1>4, <1>10
  <2> QED
    BY <1>5, <1>6, <1>10, <2>1
<1> QED
  BY <1>1, <1>8, <1>9, <1>10

(* What a pump has read is what it was, if nothing of it has moved.        *)
LEMMA ReadsOfSame ==
  ASSUME NEW f \in Epoch, ReadsOf(f), Coming(f)' = Coming(f),
         native_lock' \in {None, f} \/ native_lock' = native_lock, position' = position,
         pump'[f].pc = pump[f].pc, pump'[f].batch = pump[f].batch,
         worker'[f].pc = worker[f].pc, worker'[f].sought <=> worker[f].sought
  PROVE  ReadsOf(f)'
BY DEF ReadsOf

LEMMA ReadsPump ==
  ASSUME TypeOK, TypeOK', GenerationInv, FlushInv, WorkerInv, UnderWay, Reads,
         NEW e \in Epoch, PumpStep(e)
  PROVE  Reads'
<1>0. /\ UNCHANGED <<epoch, uplink_generation, closing, native_lock, position, accepted,
                     server>>
      /\ \A f \in Epoch : /\ pump'[f].gen = pump[f].gen
                          /\ worker'[f].sought <=> worker[f].sought
      /\ \A f \in Epoch \ {e} : /\ pump'[f].pc = pump[f].pc /\ pump'[f].batch = pump[f].batch
                                /\ worker'[f].pc = worker[f].pc
  <2>1. UNCHANGED <<epoch, uplink_generation, closing, native_lock, position, accepted, server>>
    BY DEF PumpStep, PumpReads, PumpSends, PumpEnds, PumpFails, PumpCancelled, clientVars,
           demuxVars, serverVars
  <2>2. /\ \A f \in Epoch : /\ pump'[f].gen = pump[f].gen
                            /\ worker'[f].sought = worker[f].sought
        /\ \A f \in Epoch \ {e} : /\ pump'[f].pc = pump[f].pc /\ pump'[f].batch = pump[f].batch
                                  /\ worker'[f].pc = worker[f].pc
    BY PumpEffect, Zenon
  <2> QED
    BY <2>1, <2>2
<1>1. \A f \in Epoch : Current(f)' <=> Current(f)
  BY <1>0 DEF Current, Live
<1>2. ASSUME NEW f \in Epoch \ {e}, Sends(f)'
      PROVE  ReadsOf(f)'
  <2>1. Sends(f) /\ Current(f)
    BY <1>0, <1>1, <1>2 DEF Sends
  <2>2. uplink' = uplink
    <3>1. ~Current(e)
      BY <2>1 DEF Current
    <3> QED
      BY <3>1, UplinkGrows, Zenon
  <2>3. Coming(f)' = Coming(f) /\ ReadsOf(f)
    BY <1>0, <2>1, <2>2, ComingUnchanged DEF Reads
  <2> QED
    BY <1>0, <2>3, ReadsOfSame
<1>3. ASSUME Sends(e)'
      PROVE  ReadsOf(e)'
  <2>0. Current(e) /\ server = "open" /\ pump'[e].pc \in {"created", "reading", "draining"}
    BY <1>0, <1>1, <1>3 DEF Sends
  <2>1. CASE PumpReads(e)
    <3>1. /\ pump'[e].pc = "reading" /\ pump'[e].batch = <<>> /\ worker'[e].pc = "running"
      BY <2>1, PumpEffectOf
    <3>2. uplink' = uplink /\ pump[e].pc \in {"created", "draining"}
      BY <2>1 DEF PumpReads
    <3>3. Coming(e)' = Coming(e) /\ ReadsOf(e) /\ Coming(e) \in Nat
      BY <1>0, <2>0, <3>2, ComingUnchanged, ComingNumber DEF Reads, Sends
    <3>4. Len(pump'[e].batch) = 0 /\ DOMAIN pump'[e].batch = {}
      BY <3>1
    <3> QED
      BY <1>0, <3>1, <3>2, <3>3, <3>4 DEF ReadsOf
  <2>2. CASE PumpSends(e)
    <3>1. /\ pump'[e].batch = pump[e].batch /\ worker'[e].pc = "idle" /\ pump[e].pc = "reading"
          /\ worker[e].pc = "returned"
      BY <2>2, PumpEffectOf DEF PumpSends
    <3>2. pump'[e].pc = IF pump[e].batch # <<>> THEN "draining" ELSE "done"
      BY <2>0, <2>2, PumpEffectOf
    <3>3. pump'[e].pc = "draining" /\ pump[e].batch # <<>>
      BY <2>0, <3>2
    <3>4. ReadsOf(e) /\ Coming(e) \in Nat
      BY <2>0, <3>1, ComingNumber DEF Reads, Sends
    <3>5. PICK items \in Seq(1..EOS) : SentOn(e, items) /\ items = pump[e].batch
      <4>1. uplink' # uplink
        <5>1. /\ uplink' = uplink \o Packets(e, pump[e].batch) /\ uplink \in Seq(PacketSet)
              /\ pump[e].batch \in Seq(1..EOS)
          <6>1. pump[e].batch \in Seq(Position)
            BY Records DEF Pumps
          <6> QED
            BY <2>0, <2>2, <3>3, <6>1, Connection, BatchItems DEF PumpSends
        <5>2. Len(uplink') = Len(uplink) + Len(pump[e].batch)
          BY <5>1, MorePackets
        <5>3. Len(pump[e].batch) > 0 /\ Len(pump[e].batch) \in Nat /\ Len(uplink) \in Nat
          BY <3>3, <5>1
        <5> QED
          BY <5>2, <5>3
      <4>2. ~PumpEnds(e)
        BY <3>1 DEF PumpEnds
      <4> QED
        BY <3>3, <4>1, <4>2, UplinkGrows
    <3>6. /\ Len(items) \in Nat /\ Len(items) > 0
          /\ \A i \in 1..Len(items) : items[i] = Coming(e) + i - 1
          /\ worker[e].sought /\ position = Coming(e) + Len(items)
      BY <2>0, <2>2, <3>3, <3>5, SentInOrder
    <3>7. Coming(e)' = Coming(e) + Len(items)
      <4>1. /\ Len(uplink') = Len(uplink) + Len(items) /\ Len(uplink) \in Nat
            /\ uplink'[Len(uplink) + Len(items)].epoch = e
            /\ uplink'[Len(uplink) + Len(items)].item = items[Len(items)]
            /\ Len(items) \in 1..Len(items)
        <5>1. Len(items) \in 1..Len(items) /\ Len(uplink) \in Nat
          BY <3>6, Numbers
        <5> QED
          BY <3>5, <5>1 DEF SentOn
      <4>2. uplink' # <<>>
        BY <3>6, <4>1
      <4>3. Coming(e)' = items[Len(items)] + 1
        BY <4>1, <4>2 DEF Coming
      <4>4. items[Len(items)] = Coming(e) + Len(items) - 1
        BY <3>6, <4>1
      <4> QED
        BY <3>4, <3>6, <4>3, <4>4
    <3>8. Len(pump'[e].batch) = UplinkBatch \/ (worker[e].sought /\ position = EOS)
      <4>1. worker[e].pc = "returned"
        BY <3>1
      <4>2. Len(pump[e].batch) = UplinkBatch \/ (worker[e].sought /\ position = EOS)
        <5>1. pump[e].pc = "draining" \/ worker[e].pc = "returned" =>
                \/ Len(pump[e].batch) = UplinkBatch
                \/ worker[e].sought /\ position = EOS
          BY <3>4 DEF ReadsOf
        <5> QED
          BY <4>1, <5>1
      <4> QED
        BY <3>1, <4>2
    <3>9. native_lock' \in {None, e}
      BY <1>0, <3>4, <3>6 DEF ReadsOf
    <3> QED
      BY <1>0, <3>1, <3>3, <3>4, <3>6, <3>7, <3>8, <3>9 DEF ReadsOf
  <2>3. CASE PumpEnds(e) \/ PumpFails(e) \/ PumpCancelled(e)
    <3>1. pump'[e].pc = "done"
      BY <2>3, PumpEffectOf
    <3> QED
      BY <2>0, <3>1
  <2> QED
    BY <2>1, <2>2, <2>3 DEF PumpStep
<1> QED
  BY <1>2, <1>3 DEF Reads

LEMMA ReadsWorker ==
  ASSUME TypeOK, TypeOK', GenerationInv, SeekInv, WorkerInv, Reads,
         NEW e \in Epoch, WorkerStep(e) \/ WorkerFails(e)
  PROVE  Reads'
<1>0. /\ UNCHANGED <<epoch, uplink_generation, closing, uplink, accepted, server>>
      /\ \A f \in Epoch : pump'[f].pc = pump[f].pc /\ pump'[f].gen = pump[f].gen
      /\ \A f \in Epoch \ {e} : /\ pump'[f].batch = pump[f].batch
                                /\ worker'[f].pc = worker[f].pc
                                /\ worker'[f].sought <=> worker[f].sought
      /\ worker[e].pc = "running" /\ pump[e].pc \notin {"none", "created", "draining"}
  <2>1. UNCHANGED <<epoch, uplink_generation, closing, uplink, accepted, server>>
    BY DEF WorkerStep, WorkerEnter, WorkerLeave, WorkerFails, clientVars, serverVars
  <2>2. /\ \A f \in Epoch : pump'[f].pc = pump[f].pc /\ pump'[f].gen = pump[f].gen
        /\ \A f \in Epoch \ {e} : /\ pump'[f].batch = pump[f].batch
                                  /\ worker'[f].pc = worker[f].pc
                                  /\ worker'[f].sought = worker[f].sought
        /\ worker[e].pc = "running"
    BY WorkerEffect, Zenon
  <2>3. pump[e].pc \notin {"none", "created", "draining"}
    BY <2>2 DEF WorkerInv
  <2> QED
    BY <2>1, <2>2, <2>3
<1>1. /\ \A f \in Epoch : Sends(f)' <=> Sends(f)
      /\ \A f \in Epoch : Coming(f)' = Coming(f)
  <2>1. \A f \in Epoch : Sends(f)' <=> Sends(f)
    BY <1>0 DEF Sends, Current, Live
  <2> QED
    BY <1>0, <2>1, ComingUnchanged
<1>2. ASSUME NEW f \in Epoch, Sends(f)
      PROVE  f = epoch /\ f = uplink_task /\ pump[f].gen = iter_gen
  <2>1. /\ f = epoch /\ pump[f].gen = uplink_generation /\ pump[f].pc # "none"
        /\ closing \in {"no", "teardown"}
    BY <1>2 DEF Sends, Current, Live
  <2>2. uplink_generation \in Nat
    BY TypeParts DEF OtherTypes
  <2>3. iter_gen = uplink_generation
    BY <2>1, <2>2 DEF SeekInv
  <2> QED
    BY <2>1, <2>3 DEF GenerationInv
<1>3. ASSUME NEW f \in Epoch \ {e}, Sends(f)'
      PROVE  ReadsOf(f)'
  <2>1. ReadsOf(f) /\ f = uplink_task /\ pump[f].gen = iter_gen /\ Coming(f)' = Coming(f)
    BY <1>1, <1>2, <1>3 DEF Reads
  <2>2. CASE worker[f].sought
    <3>1. native_lock \in {None, f}
      BY <2>1, <2>2 DEF ReadsOf
    <3>2. native_lock # e /\ None # e
      BY <3>1, Constants
    <3>3. pump[e].gen # iter_gen
      <4>1. pump[f].gen = uplink_generation
        BY <1>1, <1>3 DEF Sends, Current
      <4> QED
        BY <1>0, <2>1, <4>1 DEF GenerationInv
    <3>4. native_lock' = None /\ position' = position
      BY <3>2, <3>3, WorkerEffect
    <3> QED
      BY <1>0, <2>1, <3>4, ReadsOfSame
  <2>3. CASE ~worker[f].sought
    BY <1>0, <2>1, <2>3 DEF ReadsOf
  <2> QED
    BY <2>2, <2>3
<1>4. ASSUME Sends(e)'
      PROVE  ReadsOf(e)'
  <2>0. /\ ReadsOf(e) /\ pump[e].gen = iter_gen /\ Coming(e)' = Coming(e) /\ Coming(e) \in Nat
        /\ pump[e].pc = "reading" /\ pump'[e].pc = "reading" /\ worker[e].pc = "running"
        /\ pump[e].batch \in Seq(Position) /\ None # e
    BY <1>0, <1>1, <1>2, <1>4, ComingNumber, Records, Constants DEF Reads, Sends, Pumps
  <2>1. CASE /\ native_lock' = e /\ worker'[e].pc = "running"
             /\ worker'[e].sought = worker[e].sought
             /\ position' = position /\ pump'[e].batch = pump[e].batch
    BY <2>0, <2>1, ReadsOfSame
  <2>2. CASE /\ native_lock' = None /\ ~worker[e].sought
             /\ position' = Target[e] /\ worker'[e].sought
             /\ worker'[e].pc = "running" /\ pump'[e].batch = pump[e].batch
    <3>1. Coming(e) = Target[e] /\ pump'[e].batch = <<>>
      BY <2>0, <2>2 DEF ReadsOf
    <3>2. Len(pump'[e].batch) = 0 /\ DOMAIN pump'[e].batch = {}
      BY <3>1
    <3> QED
      BY <2>0, <2>2, <3>1, <3>2 DEF ReadsOf
  <2>3. CASE /\ native_lock' = None /\ worker[e].sought
             /\ position \in Position /\ position' = position + 1
             /\ pump'[e].batch = Append(pump[e].batch, position)
             /\ worker'[e].sought
             /\ worker'[e].pc = IF Len(pump'[e].batch) = UplinkBatch THEN "returned"
                                ELSE "running"
    <3> DEFINE b == pump[e].batch
    <3>1. /\ Len(b) \in Nat /\ DOMAIN b = 1..Len(b) /\ Len(pump'[e].batch) = Len(b) + 1
          /\ DOMAIN pump'[e].batch = 1..Len(b) + 1
          /\ \A i \in 1..Len(b) : pump'[e].batch[i] = b[i]
          /\ pump'[e].batch[Len(b) + 1] = position
      BY <2>0, <2>3
    <3>2. /\ position = Coming(e) + Len(b)
          /\ \A i \in 1..Len(b) : b[i] = Coming(e) + i - 1
      BY <2>0, <2>3, <3>1 DEF ReadsOf
    <3> HIDE DEF b
    <3>3. \A i \in 1..Len(b) + 1 : pump'[e].batch[i] = Coming(e) + i - 1
      <4>1. ASSUME NEW i \in 1..Len(b)
            PROVE  pump'[e].batch[i] = Coming(e) + i - 1
        BY <3>1, <3>2
      <4>2. pump'[e].batch[Len(b) + 1] = Coming(e) + (Len(b) + 1) - 1
        BY <2>0, <3>1, <3>2
      <4>3. \A i \in 1..Len(b) + 1 : i \in 1..Len(b) \/ i = Len(b) + 1
        BY <3>1
      <4> QED
        BY <4>1, <4>2, <4>3
    <3>4. position' = Coming(e) + Len(pump'[e].batch)
      BY <2>0, <2>3, <3>1, <3>2
    <3> QED
      BY <2>0, <2>3, <3>1, <3>3, <3>4 DEF ReadsOf
  <2>4. CASE /\ native_lock' = None /\ worker[e].sought
             /\ position \notin Position /\ position' = position
             /\ pump'[e].batch = pump[e].batch /\ worker'[e].sought
             /\ worker'[e].pc = "returned"
    <3>1. position = EOS
      <4>1. position \in 1..Length + 1
        BY DEF TypeOK
      <4> QED
        BY <2>4, <4>1, Constants DEF Position
    <3> QED
      BY <2>0, <2>4, <3>1 DEF ReadsOf
  <2>5. CASE /\ native_lock' = None /\ position' = position
             /\ pump'[e].batch = pump[e].batch /\ worker'[e].sought = worker[e].sought
             /\ worker'[e].pc = "failed"
    BY <2>0, <2>5 DEF ReadsOf
  <2> QED
    BY <2>0, <2>1, <2>2, <2>3, <2>4, <2>5, WorkerEffect
<1> QED
  BY <1>3, <1>4 DEF Reads

LEMMA ReadsKept ==
  ASSUME TypeOK, TypeOK', GenerationInv, SeekInv, FlushInv, WorkerInv, UnderWay, Reads,
         [Next]_vars
  PROVE  Reads'
<1> USE DEF clientVars, demuxVars, serverVars
<1>0. Epoch \subseteq Nat /\ epoch \in Nat
  BY Connection
<1>1. ASSUME NEW e \in Epoch, PumpStep(e) PROVE Reads'
  BY <1>1, ReadsPump
<1>2. ASSUME NEW e \in Epoch, WorkerStep(e) \/ WorkerFails(e) PROVE Reads'
  BY <1>2, ReadsWorker
(* A pump that could send still can, or none can.                          *)
<1>3. ASSUME UNCHANGED <<epoch, uplink_generation, uplink, accepted, worker, native_lock,
                         position>>,
             server' = server \/ server' = "closed",
             closing' = closing \/ closing = "no" \/ closing' \notin {"no", "teardown"},
             pump' = pump \/ pump' = Cancel(pump)
      PROVE  Reads'
  <2> SUFFICES ASSUME NEW f \in Epoch, Sends(f)'
               PROVE  ReadsOf(f)'
    BY DEF Reads
  <2>1. /\ pump'[f].pc \in {"created", "reading", "draining"} => pump'[f].pc = pump[f].pc
        /\ pump'[f].gen = pump[f].gen /\ pump'[f].batch = pump[f].batch
    BY <1>3, CancelTypes
  <2>2. Sends(f) /\ pump'[f].pc = pump[f].pc
    BY <1>3, <2>1 DEF Sends, Current, Live
  <2>3. ReadsOf(f) /\ Coming(f)' = Coming(f)
    BY <1>3, <2>2, ComingUnchanged DEF Reads
  <2> QED
    BY <1>3, <2>1, <2>2, <2>3, ReadsOfSame
<1>4. CASE Seek
  <2>1. SamePumps /\ epoch' = epoch + 1
    BY <1>4, PumpsStay DEF Next, Proceed, Seek, StartUplink
  <2>2. epoch + 1 \in Epoch => pump[epoch + 1].pc = "none"
    BY <1>0 DEF SeekInv
  <2> QED
    BY <2>1, <2>2 DEF Reads, Sends, Current, SamePumps
<1>5. CASE Disconnect \/ ServerCloses
  BY <1>5 DEF Disconnect, ServerCloses, Reads, Sends
<1>6. CASE ReadControl \/ Teardown \/ BeginClose \/ CloseTrack \/ CloseContainer
           \/ TakeSeek \/ AcknowledgeSeek
           \/ \E e \in Epoch : SeekAnswered(e) \/ SeekTimeout(e)
  <2>1. /\ UNCHANGED <<epoch, uplink_generation, uplink, accepted, worker, native_lock,
                       position>>
        /\ server' = server
        /\ pump' = pump \/ pump' = Cancel(pump)
        /\ closing' = closing \/ closing = "no" \/ closing' \notin {"no", "teardown"}
    <3>1. CASE ReadControl \/ TakeSeek \/ AcknowledgeSeek
      BY <3>1 DEF ReadControl, TakeSeek, AcknowledgeSeek
    <3>2. CASE Teardown \/ BeginClose \/ CloseTrack \/ CloseContainer
      BY <3>2 DEF Teardown, BeginClose, CloseTrack, CloseContainer
    <3>3. ASSUME NEW e \in Epoch, SeekAnswered(e) \/ SeekTimeout(e)
          PROVE  /\ UNCHANGED <<epoch, uplink_generation, uplink, accepted, worker, native_lock,
                                position>>
                 /\ server' = server /\ closing' = closing
                 /\ pump' = pump \/ pump' = Cancel(pump)
      BY <3>3 DEF SeekAnswered, SeekTimeout
    <3> QED
      BY <1>6, <3>1, <3>2, <3>3
  <2> QED
    BY <1>3, <2>1
<1>7. CASE RunUplink
  <2> SUFFICES ASSUME NEW f \in Epoch, Sends(f)'
               PROVE  ReadsOf(f)'
    BY DEF Reads
  <2>1. UNCHANGED <<epoch, uplink_generation, closing, server, pump, worker, native_lock,
                    position>>
    BY <1>7 DEF RunUplink
  <2>2. Sends(f) /\ f = epoch
    BY <2>1 DEF Sends, Current, Live
  <2>3. Coming(f)' = Coming(f)
    BY <1>7, <2>1, <2>2, ComingServed DEF Coming
  <2> QED
    BY <2>1, <2>2, <2>3, ReadsOfSame DEF Reads
<1>8. ASSUME NEW e \in Epoch, StartUplink(e) PROVE Reads'
  <2>1. CASE ~(e = epoch /\ Live)
    <3>1. /\ UNCHANGED <<epoch, uplink_generation, uplink, accepted, worker, native_lock,
                         position>>
          /\ server' = server /\ closing' = closing /\ pump' = pump
      BY <1>8, <2>1 DEF StartUplink
    <3> QED
      BY <1>3, <3>1
  <2>2. CASE e = epoch /\ Live
    <3> SUFFICES ASSUME NEW f \in Epoch, Sends(f)'
                 PROVE  ReadsOf(f)'
      BY DEF Reads
    <3>1. UNCHANGED <<epoch, uplink, accepted, worker, native_lock, position>>
      BY <1>8 DEF StartUplink
    <3>2. f = e
      BY <2>2, <3>1 DEF Sends, Current
    <3>3. pump[e].pc = "none" /\ e # 0
      BY <1>8 DEF StartUplink, SeekInv
    <3>4. /\ pump'[e].pc = "created" /\ pump'[e].batch = <<>>
          /\ worker'[e].pc = "idle" /\ ~worker'[e].sought
      BY <1>8, <2>2, <3>1, <3>3, StartEffect DEF WorkerInv
    <3>5. Coming(e) = Target[e]
      <4>1. uplink # <<>> => uplink[Len(uplink)].epoch # e
        <5>1. uplink # <<>> => Len(uplink) \in DOMAIN uplink
          BY Numbers
        <5> QED
          BY <3>3, <5>1 DEF FlushInv
      <4>2. accepted.epoch = e => Len(accepted.data) = 0
        <5>1. accepted.epoch = e => accepted.data = <<>>
          BY <3>3 DEF UnderWay
        <5> QED
          BY <5>1
      <4>3. Target[e] \in Nat
        BY Numbers
      <4> QED
        BY <4>1, <4>2, <4>3 DEF Coming
    <3>6. Coming(e)' = Target[e]
      BY <3>1, <3>5, ComingUnchanged
    <3> QED
      BY <3>2, <3>4, <3>6 DEF ReadsOf
  <2> QED
    BY <2>1, <2>2
<1>9. CASE UNCHANGED vars
  <2>1. /\ UNCHANGED <<epoch, uplink_generation, uplink, accepted, worker, native_lock,
                       position>>
        /\ server' = server /\ closing' = closing /\ pump' = pump
    BY <1>9 DEF vars
  <2> QED
    BY <1>3, <2>1
<1> QED
  BY <1>1, <1>2, <1>4, <1>5, <1>6, <1>7, <1>8, <1>9 DEF Next, Proceed, SeekStep, ServerStep

-----------------------------------------------------------------------------
(* The theorems.                                                           *)

LEMMA InitialInv == Init => UplinkInv
<1> SUFFICES ASSUME Init PROVE UplinkInv
  OBVIOUS
<1>0. TypeOK
  BY InitialTypes
<1>1. /\ epoch = 0 /\ pending = {} /\ closing = "no" /\ native_lock = None
      /\ position = 1 /\ container = "open" /\ control_in = <<>> /\ control_out = <<>>
      /\ uplink = <<>> /\ session_epoch = 0 /\ pipeline_epoch = 0 /\ server = "open"
      /\ accepted.epoch = 0 /\ accepted.data = <<>>
      /\ \A e \in Epoch : /\ seeks[e] = "none" /\ worker[e].pc = "idle"
                          /\ worker[e].sought <=> e = 0
  BY DEF Init
<1>2. /\ DOMAIN control_in = {} /\ DOMAIN control_out = {} /\ DOMAIN uplink = {}
      /\ Len(accepted.data) = 0 /\ DOMAIN accepted.data = {}
  BY <1>1
<1>3. PICK resumed \in BOOLEAN :
        LET g == IF resumed THEN 0 ELSE 1
        IN /\ uplink_task = IF resumed THEN None ELSE 0
           /\ uplink_generation = g /\ iter_gen = g
           /\ pump = [e \in Epoch |->
                        [pc |-> IF e = 0 /\ ~resumed THEN "created" ELSE "none",
                         gen |-> IF e = 0 THEN g ELSE 0,
                         batch |-> <<>>]]
  BY DEF Init
<1>4. /\ \A e \in Epoch : /\ pump[e].pc = IF e = 0 /\ ~resumed THEN "created" ELSE "none"
                          /\ pump[e].gen = IF e = 0 /\ ~resumed THEN 1 ELSE 0
                          /\ pump[e].batch = <<>>
      /\ uplink_task = IF resumed THEN None ELSE 0
      /\ uplink_generation = IF resumed THEN 0 ELSE 1
      /\ iter_gen = uplink_generation
  BY <1>3
<1>5. Epoch \subseteq Nat /\ 0 \in Epoch /\ Target[0] = 1 /\ None \notin Epoch
  BY Constants DEF Epoch
<1>6. SeekInv
  BY <1>1, <1>4, <1>5 DEF SeekInv
<1>7. GenerationInv
  <2>1. CASE resumed
    BY <1>4, <1>5, <2>1 DEF GenerationInv
  <2>2. CASE ~resumed
    <3>1. /\ uplink_task = 0 /\ uplink_generation = 1
          /\ \A e \in Epoch : /\ pump[e].pc # "none" <=> e = 0
                              /\ pump[e].gen = IF e = 0 THEN 1 ELSE 0
      BY <1>4, <2>2
    <3> QED
      BY <1>5, <3>1 DEF GenerationInv
  <2> QED
    BY <2>1, <2>2
<1>8. FlushInv
  BY <1>1, <1>2, <1>4, <1>5 DEF FlushInv
<1>9. WorkerInv
  BY <1>1, <1>4, <1>5 DEF WorkerInv
<1>10. InOrder /\ UnderWay
  BY <1>1, <1>2, <1>4, <1>5 DEF InOrder, UnderWay
<1>11. Reads
  <2> SUFFICES ASSUME NEW e \in Epoch, Sends(e)
               PROVE  ReadsOf(e)
    BY DEF Reads
  <2>1. e = 0
    BY <1>1 DEF Sends, Current
  <2>2. Coming(0) = 1
    BY <1>1, <1>2, <1>5 DEF Coming
  <2>3. pump[0].pc = "created"
    BY <1>4, <1>5, <2>1 DEF Sends
  <2> QED
    BY <1>1, <1>4, <1>5, <2>1, <2>2, <2>3 DEF ReadsOf
<1> QED
  BY <1>0, <1>6, <1>7, <1>8, <1>9, <1>10, <1>11 DEF UplinkInv

LEMMA TypesKept ==
  ASSUME TypeOK, SeekInv, [Next]_vars
  PROVE  TypeOK'
<1>1. CASE UNCHANGED vars
  BY <1>1 DEF vars, clientVars, demuxVars, controlVars, serverVars, TypeOK
<1>2. ASSUME NEW e \in Epoch, PumpStep(e) PROVE TypeOK'
  BY <1>2, PumpTypes
<1>3. ASSUME NEW e \in Epoch, WorkerStep(e) \/ WorkerFails(e) PROVE TypeOK'
  BY <1>3, WorkerTypes
<1>4. CASE ServerStep \/ ServerCloses
  BY <1>4, ServerTypes
<1>5. CASE \/ Seek \/ ReadControl \/ Disconnect \/ Teardown
           \/ BeginClose \/ CloseTrack \/ CloseContainer
           \/ \E e \in Epoch : SeekStep(e) \/ SeekTimeout(e)
  BY <1>5, ClientTypes
<1> QED
  BY <1>1, <1>2, <1>3, <1>4, <1>5 DEF Next, Proceed

LEMMA InvKept == UplinkInv /\ [Next]_vars => UplinkInv'
<1> SUFFICES ASSUME UplinkInv, [Next]_vars
             PROVE  UplinkInv'
  OBVIOUS
<1> USE DEF UplinkInv
<1>1. TypeOK'
  BY TypesKept
<1>2. GenerationInv' /\ SeekInv'
  BY <1>1, GenerationKept, SeekKept
<1>3. FlushInv' /\ WorkerInv'
  BY <1>1, FlushKept, WorkerKept
<1>4. UnderWay' /\ InOrder'
  BY <1>1, StreamKept
<1>5. Reads'
  BY <1>1, ReadsKept
<1> QED
  BY <1>1, <1>2, <1>3, <1>4, <1>5

(* Every conjunct of the inductive invariant holds for ever.               *)
THEOREM UplinkInvariant == Spec => []UplinkInv
BY InitialInv, InvKept, PTL DEF Spec

(* The types hold for every number of seeks and failures: the generations  *)
(* of seek() and start_uplink() stay within one more than the seeks.       *)
THEOREM TypeCorrect == Spec => []TypeOK
<1>1. UplinkInv => TypeOK
  BY DEF UplinkInv
<1> QED
  BY <1>1, UplinkInvariant, PTL

(* No packet is sent for an epoch to which the server has not flushed its  *)
(* pipeline: the pump of an epoch is made by the acknowledgement of its    *)
(* own seek, whatever replies of older seeks are under way                 *)
(* (_request, seek, start_uplink).                                         *)
THEOREM FlushedFirst == Spec => []AcknowledgedFirst
<1>1. UplinkInv => AcknowledgedFirst
  BY Numbers DEF UplinkInv, FlushInv, AcknowledgedFirst
<1> QED
  BY <1>1, UplinkInvariant, PTL

(* The container is closed under no native call: a worker that a cancelled *)
(* pump left behind is either in its call, and the close waits for it, or  *)
(* finds itself superseded (VideoTrack.close).                             *)
THEOREM ContainerClosed == Spec => []ContainerSafe
<1>1. UplinkInv => ContainerSafe
  BY DEF UplinkInv, WorkerInv, ContainerSafe
<1> QED
  BY <1>1, UplinkInvariant, PTL

(* What the server feeds its pipeline only grows, packet by packet, or     *)
(* begins anew with a newer epoch; it never goes back to an older one      *)
(* (_run_uplink).                                                          *)
StreamGrows ==
  \/ /\ accepted'.epoch = accepted.epoch
     /\ Len(accepted'.data) = Len(accepted.data) + 1
     /\ \A i \in 1..Len(accepted.data) : accepted'.data[i] = accepted.data[i]
  \/ accepted'.epoch > accepted.epoch /\ Len(accepted'.data) = 1

LEMMA Served ==
  ASSUME UplinkInv, UplinkInv', [Next]_vars
  PROVE  \/ UNCHANGED accepted
         \/ UNCHANGED epoch /\ StreamGrows
<1> USE DEF clientVars, serverVars
<1>1. CASE RunUplink
  <2>1. epoch' = epoch
    BY <1>1 DEF RunUplink
  <2>2. accepted.epoch \in Nat /\ Head(uplink).epoch \in Nat /\ accepted.epoch <= Head(uplink).epoch
    <3>1. uplink # <<>> /\ uplink \in Seq(PacketSet)
      BY <1>1, Connection DEF RunUplink, UplinkInv
    <3>2. Head(uplink) = uplink[1] /\ 1 \in DOMAIN uplink /\ 1 \in 1..Len(uplink)
      BY <3>1
    <3> QED
      BY <3>2, Numbers DEF UplinkInv, UnderWay
  <2>3. \/ accepted' = accepted
        \/ /\ accepted'.epoch = accepted.epoch
           /\ Len(accepted'.data) = Len(accepted.data) + 1
           /\ \A i \in 1..Len(accepted.data) : accepted'.data[i] = accepted.data[i]
        \/ /\ Head(uplink).epoch # accepted.epoch
           /\ accepted'.epoch = Head(uplink).epoch /\ Len(accepted'.data) = 1
    BY <1>1, AcceptedGrows DEF UplinkInv
  <2> QED
    BY <2>1, <2>2, <2>3 DEF StreamGrows
<1>2. ASSUME NEW e \in Epoch, SeekStep(e) \/ WorkerStep(e) \/ PumpStep(e)
                              \/ SeekTimeout(e) \/ WorkerFails(e)
      PROVE  UNCHANGED accepted
  <2>1. CASE SeekStep(e) \/ SeekTimeout(e)
    BY <2>1 DEF SeekStep, SeekAnswered, StartUplink, SeekTimeout
  <2>2. CASE WorkerStep(e) \/ WorkerFails(e)
    BY <2>2 DEF WorkerStep, WorkerEnter, WorkerLeave, WorkerFails
  <2>3. CASE PumpStep(e)
    BY <2>3 DEF PumpStep, PumpReads, PumpSends, PumpEnds, PumpFails, PumpCancelled
  <2> QED
    BY <1>2, <2>1, <2>2, <2>3
<1>3. CASE \/ ReadControl \/ TakeSeek \/ AcknowledgeSeek \/ BeginClose \/ CloseTrack
           \/ CloseContainer \/ Seek \/ Disconnect \/ ServerCloses \/ Teardown
           \/ UNCHANGED vars
  BY <1>3 DEF ReadControl, TakeSeek, AcknowledgeSeek, BeginClose, CloseTrack,
              CloseContainer, Seek, Disconnect, ServerCloses, Teardown, vars
<1> QED
  BY <1>1, <1>2, <1>3 DEF Next, Proceed, ServerStep

(* The packets of a stream as the abstract specification sees them.        *)
LEMMA StreamBegins ==
  ASSUME NEW e \in Epoch, NEW m \in Nat, NEW D, DOMAIN D = 1..m, m >= 1,
         D[1] = 0, \A k \in 2..m : D[k] = Target[e] + k - 2 /\ D[k] <= Length
  PROVE  Promise!BeginsStream(e, D)
<1> USE DEF Promise!Position, Promise!From
<1>1. PICK T \in Nat : T = Target[e] /\ T >= 1 /\ Length \in Nat
  BY Constants
<1>2. \A k \in 1..m : IF k = 1 THEN D[k] = 0 ELSE D[k] \in 1..Length
  <2>1. ASSUME NEW k \in 1..m, k # 1
        PROVE  D[k] \in 1..Length
    <3>1. k \in 2..m
      BY <2>1
    <3> QED
      BY <1>1, <3>1
  <2> QED
    BY <2>1
<1>3. Promise!InOrder(e, {}, D)
  BY DEF Promise!InOrder
<1>4. Promise!InOrder(e, Promise!Video, D)
  <2> SUFFICES ASSUME NEW k \in 1..m, D[k] \in 1..Length
               PROVE  /\ D[k] >= Target[e]
                      /\ {D[j] : j \in 1..k - 1} \cap (1..Length)
                           = {p \in 1..Length : p >= Target[e] /\ p < D[k]}
    BY DEF Promise!InOrder, Promise!Video
  <2>1. k \in 2..m /\ D[k] = Target[e] + k - 2
    <3>1. k # 1
      OBVIOUS
    <3>2. k \in 2..m
      BY <3>1
    <3> QED
      BY <3>2
  <2>2. ASSUME NEW j \in 1..k - 1, D[j] \in 1..Length
        PROVE  D[j] >= Target[e] /\ D[j] < D[k]
    <3>1. j # 1
      BY <2>2
    <3>2. j \in 2..m
      BY <2>1, <2>2, <3>1
    <3>3. D[j] = Target[e] + j - 2
      BY <3>2
    <3> QED
      BY <1>1, <2>1, <2>2, <3>2, <3>3
  <2>3. ASSUME NEW p \in 1..Length, p >= Target[e], p < D[k]
        PROVE  \E j \in 1..k - 1 : D[j] = p
    <3>0. p < T + k - 2 /\ p >= T
      BY <1>1, <2>1, <2>3
    <3>1. PICK j \in 2..m : T + j - 2 = p /\ j \in 1..k - 1
      <4>1. p - T + 2 \in 2..m /\ T + (p - T + 2) - 2 = p /\ p - T + 2 \in 1..k - 1
        BY <2>1, <3>0
      <4> QED
        BY <4>1
    <3>2. D[j] = T + j - 2
      BY <1>1
    <3> QED
      BY <3>1, <3>2
  <2>4. D[k] >= Target[e]
    BY <1>1, <2>1
  <2> QED
    BY <2>2, <2>3, <2>4
<1> QED
  BY <1>2, <1>3, <1>4 DEF Promise!BeginsStream, Promise!Header

(* The header and a sequence after it.                                     *)
LEMMA Headed ==
  ASSUME NEW S, NEW d \in Seq(S), NEW h
  PROVE  /\ <<h>> \o d # <<>> /\ Len(<<h>> \o d) = Len(d) + 1
         /\ DOMAIN (<<h>> \o d) = 1..Len(d) + 1 /\ (<<h>> \o d)[1] = h
         /\ \A i \in 1..Len(d) : (<<h>> \o d)[i + 1] = d[i]
<1> DEFINE R == S \cup {h}
<1>1. d \in Seq(R) /\ <<h>> \in Seq(R) /\ Len(<<h>>) = 1 /\ <<h>>[1] = h
  <2>1. d \in Seq(R)
    BY SeqMonotonic
  <2> QED
    BY <2>1
<1> HIDE DEF R
<1>2. <<h>> \o d \in Seq(R) /\ Len(<<h>> \o d) = Len(d) + 1 /\ Len(d) \in Nat
  BY <1>1
<1>3. (<<h>> \o d)[1] = h /\ \A i \in 1..Len(d) : (<<h>> \o d)[i + 1] = d[i]
  BY <1>1
<1> QED
  BY <1>2, <1>3

LEMMA Items ==
  ASSUME NEW S, NEW d \in Seq(S)
  PROVE  Len(d) \in Nat /\ DOMAIN d = 1..Len(d) /\ (d # <<>> <=> Len(d) > 0)
         /\ \A i \in 1..Len(d) : d[i] \in S
OBVIOUS

LEMMA FrontOf ==
  ASSUME NEW m \in Nat, m > 0, NEW D, Len(D) = m
  PROVE  DOMAIN Promise!Front(D) = 1..m - 1 /\ \A k \in 1..m - 1 : Promise!Front(D)[k] = D[k]
BY DEF Promise!Front

(* What the server has accepted is the beginning of the stream of its      *)
(* epoch; with EOS it is all of it, and EOS can be its last item only.     *)
HeaderAndItems(e, n, d, D) ==
  /\ \A i \in 1..n : d[i] = Target[e] + i - 1 /\ d[i] \in 1..EOS
  /\ Len(D) = n + 1 /\ DOMAIN D = 1..n + 1 /\ D[1] = 0
  /\ \A i \in 1..n : D[i + 1] = d[i]

LEMMA WholeStream ==
  ASSUME NEW e \in Epoch, NEW n \in Nat, n > 0, NEW d, NEW D, HeaderAndItems(e, n, d, D)
  PROVE  /\ Promise!Last(D) = d[n]
         /\ d[n] = EOS => Promise!Complete(e, D)
         /\ d[n] # EOS => Promise!BeginsStream(e, D) /\ \A i \in 1..n : d[i] # EOS
         /\ \A i \in 1..n - 1 : d[i] # EOS
<1>0. /\ \A i \in 1..n : d[i] = Target[e] + i - 1 /\ d[i] \in 1..EOS
      /\ Len(D) = n + 1 /\ DOMAIN D = 1..n + 1 /\ D[1] = 0
      /\ \A i \in 1..n : D[i + 1] = d[i]
  BY DEF HeaderAndItems
<1>1. PICK T \in Nat : T = Target[e] /\ T >= 1
  BY Constants
<1>2. EOS = Length + 1 /\ Length \in Nat
  BY Constants
<1>3. \A i \in 1..n : d[i] = T + i - 1
  BY <1>0, <1>1
<1>4. T + n - 1 <= EOS /\ d[n] = T + n - 1 /\ n \in 1..n
  <2>1. n \in 1..n
    OBVIOUS
  <2>2. d[n] = T + n - 1 /\ d[n] \in 1..EOS
    BY <1>0, <1>3, <2>1
  <2> QED
    BY <1>2, <2>1, <2>2
<1>5. \A k \in 2..n + 1 : D[k] = T + k - 2
  <2> SUFFICES ASSUME NEW k \in 2..n + 1
               PROVE  D[k] = T + k - 2
    OBVIOUS
  <2>1. PICK i \in 1..n : i = k - 1 /\ i + 1 = k
    OBVIOUS
  <2>2. D[i + 1] = d[i] /\ d[i] = T + i - 1
    BY <1>0, <1>3, <2>1
  <2>3. D[k] = T + i - 1
    BY <2>1, <2>2
  <2> QED
    BY <2>1, <2>3
<1>6. Promise!Last(D) = d[n]
  BY <1>0, <1>4 DEF Promise!Last
<1>7. \A i \in 1..n - 1 : d[i] # EOS
  <2> SUFFICES ASSUME NEW i \in 1..n - 1
               PROVE  d[i] # EOS
    OBVIOUS
  <2>1. d[i] = T + i - 1
    BY <1>3
  <2> QED
    BY <1>2, <1>4, <2>1
<1>8. ASSUME d[n] # EOS
      PROVE  Promise!BeginsStream(e, D) /\ \A i \in 1..n : d[i] # EOS
  <2>1. T + n - 1 <= Length
    BY <1>2, <1>4, <1>8
  <2>2. \A k \in 2..n + 1 : D[k] = Target[e] + k - 2 /\ D[k] <= Length
    BY <1>1, <1>2, <1>5, <2>1
  <2>3. \A i \in 1..n : d[i] # EOS
    BY <1>7, <1>8
  <2> QED
    BY <1>0, <2>2, <2>3, StreamBegins
<1>9. ASSUME d[n] = EOS
      PROVE  Promise!Complete(e, D)
  <2>0. T + n - 1 = Length + 1
    BY <1>2, <1>4, <1>9
  <2> DEFINE F == Promise!Front(D)
  <2>1. DOMAIN F = 1..n /\ \A k \in 1..n : F[k] = D[k]
    BY <1>0, FrontOf
  <2> HIDE DEF F
  <2>2. \A k \in 2..n : F[k] = Target[e] + k - 2 /\ F[k] <= Length
    <3> SUFFICES ASSUME NEW k \in 2..n
                 PROVE  F[k] = Target[e] + k - 2 /\ F[k] <= Length
      OBVIOUS
    <3>1. F[k] = D[k] /\ D[k] = T + k - 2
      BY <1>5, <2>1
    <3> QED
      BY <1>1, <1>2, <2>0, <3>1
  <2>3. Promise!BeginsStream(e, F)
    <3>1. F[1] = 0
      BY <1>0, <2>1
    <3> QED
      BY <2>1, <2>2, <3>1, StreamBegins
  <2>4. Promise!From(e) \subseteq {D[i] : i \in DOMAIN D}
    <3> SUFFICES ASSUME NEW p \in 1..Length, p >= Target[e]
                 PROVE  \E i \in DOMAIN D : D[i] = p
      BY DEF Promise!From, Promise!Position
    <3>1. PICK k \in 2..n + 1 : T + k - 2 = p
      <4>1. p - T + 2 \in 2..n + 1 /\ T + (p - T + 2) - 2 = p
        BY <1>1, <1>2, <2>0
      <4> QED
        BY <4>1
    <3>2. D[k] = T + k - 2 /\ k \in DOMAIN D
      BY <1>0, <1>5
    <3> QED
      BY <3>1, <3>2
  <2>5. Promise!Last(D) = Promise!Trailer
    BY <1>2, <1>6, <1>9 DEF Promise!Trailer
  <2> QED
    BY <2>3, <2>4, <2>5 DEF Promise!Complete, F
<1> QED
  BY <1>6, <1>7, <1>8, <1>9

LEMMA AcceptedStream ==
  ASSUME NEW e \in Epoch, NEW d \in Seq(1..EOS), d # <<>>,
         \A i \in DOMAIN d : d[i] = Target[e] + i - 1,
         NEW D, D = << 0 >> \o d
  PROVE  /\ D # <<>> /\ Len(D) = Len(d) + 1 /\ D[1] = 0
         /\ \A i \in 1..Len(d) : D[i + 1] = d[i]
         /\ Promise!Last(D) = d[Len(d)]
         /\ d[Len(d)] = EOS => Promise!Complete(e, D)
         /\ d[Len(d)] # EOS => Promise!BeginsStream(e, D) /\ \A i \in 1..Len(d) : d[i] # EOS
         /\ \A i \in 1..Len(d) - 1 : d[i] # EOS
<1> DEFINE n == Len(d)
<1>1. n \in Nat /\ DOMAIN d = 1..n /\ n > 0 /\ \A i \in 1..n : d[i] \in 1..EOS
  BY Items, Zenon
<1>2. /\ D # <<>> /\ Len(D) = n + 1 /\ DOMAIN D = 1..n + 1 /\ D[1] = 0
      /\ \A i \in 1..n : D[i + 1] = d[i]
  <2>1. /\ <<0>> \o d # <<>> /\ Len(<<0>> \o d) = n + 1
        /\ DOMAIN (<<0>> \o d) = 1..n + 1 /\ (<<0>> \o d)[1] = 0
        /\ \A i \in 1..n : (<<0>> \o d)[i + 1] = d[i]
    BY Headed
  <2>2. D = <<0>> \o d
    OBVIOUS
  <2> QED
    BY <2>1, <2>2, Zenon
<1>3. \A i \in 1..n : d[i] = Target[e] + i - 1 /\ d[i] \in 1..EOS
  BY <1>1, Zenon
<1> HIDE DEF n
<1>4. Len(D) = n + 1 /\ DOMAIN D = 1..n + 1 /\ D[1] = 0 /\ n \in Nat /\ n > 0
  BY <1>1, <1>2, Zenon
<1>5. \A i \in 1..n : D[i + 1] = d[i]
  BY <1>2, Zenon
<1>6. /\ Promise!Last(D) = d[n]
      /\ d[n] = EOS => Promise!Complete(e, D)
      /\ d[n] # EOS => Promise!BeginsStream(e, D) /\ \A i \in 1..n : d[i] # EOS
      /\ \A i \in 1..n - 1 : d[i] # EOS
  <2>1. HeaderAndItems(e, n, d, D)
    BY <1>3, <1>4, <1>5 DEF HeaderAndItems
  <2> QED
    BY <1>4, <2>1, WholeStream
<1> QED
  BY <1>2, <1>6, Zenon DEF n

LEMMA PromisedInit == Init => Promise!Init
<1> SUFFICES ASSUME Init PROVE Promise!Init
  OBVIOUS
<1>1. epoch = 0 /\ accepted.epoch = 0 /\ accepted.data = <<>>
  BY DEF Init
<1>2. (EOS \in {accepted.data[i] : i \in DOMAIN accepted.data}) = FALSE
  <2>1. DOMAIN accepted.data = {}
    BY <1>1
  <2> QED
    BY <2>1
<1> QED
  BY <1>1, <1>2 DEF Promise!Init

LEMMA PromisedStep ==
  ASSUME UplinkInv, UplinkInv', [Next]_vars
  PROVE  [Promise!Next]_<<epoch,
                          [epoch |-> accepted.epoch,
                           data |-> IF accepted.data = <<>> THEN <<>>
                                    ELSE <<0>> \o accepted.data,
                           eos |-> EOS \in {accepted.data[i] : i \in DOMAIN accepted.data}]>>
<1> DEFINE d == accepted.data
           Data == IF d = <<>> THEN <<>> ELSE <<0>> \o d
           eos == EOS \in {d[i] : i \in DOMAIN d}
<1>1. CASE accepted' = accepted /\ epoch' = epoch
  BY <1>1
<1>2. CASE accepted' = accepted /\ epoch' # epoch
  <2>1. epoch < MaxEpoch /\ epoch' = epoch + 1
    <3>1. Seek
      BY <1>2 DEF Next, Proceed, SeekStep, SeekAnswered, StartUplink, SeekTimeout,
                  WorkerStep, WorkerEnter, WorkerLeave, WorkerFails, PumpStep, PumpReads,
                  PumpSends, PumpEnds, PumpFails, PumpCancelled, ReadControl, ServerStep,
                  TakeSeek, AcknowledgeSeek, RunUplink, BeginClose, CloseTrack,
                  CloseContainer, Disconnect, ServerCloses, Teardown, vars, clientVars
    <3> QED
      BY <3>1 DEF Seek
  <2> QED
    BY <1>2, <2>1 DEF Promise!Next, Promise!Ask
<1>3. CASE epoch' = epoch /\ StreamGrows
  <2> DEFINE D == <<0>> \o d'
  <2>0. /\ accepted.epoch \in Nat /\ accepted'.epoch \in Nat /\ epoch \in Nat
        /\ accepted'.epoch <= epoch /\ accepted'.epoch \in Epoch
    <3>1. TypeOK /\ TypeOK' /\ Epoch \subseteq Nat
      BY Connection DEF UplinkInv
    <3>2. accepted.epoch \in Nat /\ epoch \in Nat
      BY <3>1, Numbers
    <3>3. accepted'.epoch \in Epoch /\ epoch' \in Epoch /\ pipeline_epoch' \in Epoch
          /\ session_epoch' \in Epoch
      BY <3>1, TypePartsNext DEF OtherTypes
    <3>4. /\ accepted'.epoch <= pipeline_epoch' /\ pipeline_epoch' <= session_epoch'
          /\ session_epoch' <= epoch'
      BY DEF UplinkInv, UnderWay, FlushInv
    <3> QED
      <4>1. /\ accepted'.epoch \in Nat /\ epoch' \in Nat /\ pipeline_epoch' \in Nat
            /\ session_epoch' \in Nat
        BY <3>1, <3>3
      <4>2. accepted'.epoch <= epoch'
        BY <3>4, <4>1
      <4> QED
        BY <1>3, <3>2, <3>3, <4>1, <4>2
  <2>1. d \in Seq(1..EOS) /\ d' \in Seq(1..EOS)
    BY TypeParts, TypePartsNext DEF UplinkInv, OtherTypes
  <2>2. /\ Len(d) \in Nat /\ DOMAIN d = 1..Len(d) /\ (d # <<>> <=> Len(d) > 0)
        /\ \A i \in 1..Len(d) : d[i] \in 1..EOS
        /\ Len(d') \in Nat /\ DOMAIN d' = 1..Len(d') /\ (d' # <<>> <=> Len(d') > 0)
    BY <2>1, Items, Zenon
  <2>3. /\ \A i \in DOMAIN d : d[i] = Target[accepted.epoch] + i - 1
        /\ \A i \in DOMAIN d' : d'[i] = Target[accepted'.epoch] + i - 1
    BY DEF UplinkInv, InOrder
  <2>4. d' # <<>>
    <3>1. Len(d') = Len(d) + 1 \/ Len(d') = 1
      BY <1>3 DEF StreamGrows
    <3>2. Len(d) \in Nat /\ (d' # <<>> <=> Len(d') > 0)
      BY <2>2
    <3>3. Len(d') > 0
      <4>1. CASE Len(d') = Len(d) + 1
        BY <3>2, <4>1
      <4>2. CASE Len(d') = 1
        BY <4>2
      <4> QED
        BY <3>1, <4>1, <4>2
    <3> QED
      BY <3>2, <3>3
  <2>5. /\ D # <<>> /\ Len(D) = Len(d') + 1 /\ D[1] = 0
        /\ \A i \in 1..Len(d') : D[i + 1] = d'[i]
        /\ Promise!Last(D) = d'[Len(d')]
        /\ d'[Len(d')] = EOS => Promise!Complete(accepted'.epoch, D)
        /\ d'[Len(d')] # EOS => /\ Promise!BeginsStream(accepted'.epoch, D)
                                /\ \A i \in 1..Len(d') : d'[i] # EOS
        /\ \A i \in 1..Len(d') - 1 : d'[i] # EOS
    BY <2>0, <2>1, <2>3, <2>4, AcceptedStream, Zenon
  <2>6. ASSUME accepted'.epoch = accepted.epoch
        PROVE  (\A i \in 1..Len(d) : d[i] # EOS) /\ Promise!IsPrefix(Data, D)
    <3>1. Len(d') = Len(d) + 1 /\ \A i \in 1..Len(d) : d'[i] = d[i]
      BY <1>3, <2>0, <2>6 DEF StreamGrows
    <3>2. \A i \in 1..Len(d) : d[i] # EOS
      <4>1. Len(d') - 1 = Len(d)
        BY <2>2, <3>1
      <4>2. \A i \in 1..Len(d) : d'[i] # EOS
        BY <2>5, <4>1, Zenon
      <4> QED
        BY <3>1, <4>2
    <3>3. CASE d = <<>>
      <4>1. Data = <<>>
        BY <3>3
      <4> QED
        BY <2>2, <2>5, <3>2, <3>3, <4>1 DEF Promise!IsPrefix
    <3>4. CASE d # <<>>
      <4>1. /\ Data = <<0>> \o d
        BY <3>4
      <4>2. Len(Data) = Len(d) + 1 /\ Data[1] = 0 /\ \A i \in 1..Len(d) : Data[i + 1] = d[i]
        <5>1. /\ Len(<<0>> \o d) = Len(d) + 1 /\ (<<0>> \o d)[1] = 0
              /\ \A i \in 1..Len(d) : (<<0>> \o d)[i + 1] = d[i]
          BY <2>1, Headed
        <5> QED
          BY <4>1, <5>1, Zenon
      <4>3. \A k \in 1..Len(Data) : Data[k] = D[k]
        <5> SUFFICES ASSUME NEW k \in 1..Len(d) + 1
                     PROVE  Data[k] = D[k]
          BY <4>2
        <5>1. CASE k = 1
          BY <2>5, <4>2, <5>1
        <5>2. CASE k > 1
          <6>1. PICK i \in 1..Len(d) : i + 1 = k
            BY <2>2, <5>2
          <6>2. Data[i + 1] = d[i] /\ D[i + 1] = d'[i] /\ d'[i] = d[i]
            BY <2>2, <2>5, <3>1, <4>2
          <6> QED
            BY <6>1, <6>2
        <5> QED
          <6>1. k = 1 \/ k > 1
            OBVIOUS
          <6> QED
            BY <5>1, <5>2, <6>1, Zenon
      <4> HIDE DEF Data, D
      <4>4. Len(Data) <= Len(D) /\ Len(Data) \in Nat
        BY <2>2, <2>5, <3>1, <4>2
      <4> QED
        BY <3>2, <4>3, <4>4 DEF Promise!IsPrefix
    <3> QED
      BY <3>3, <3>4
  <2>7. Promise!Deliver
    <3>1. accepted'.epoch \in accepted.epoch .. epoch
      BY <1>3, <2>0 DEF StreamGrows
    <3>2. eos' = (d'[Len(d')] = EOS)
      <4>1. Len(d') \in 1..Len(d')
        BY <2>2, <2>4
      <4>2. d'[Len(d')] = EOS => eos'
        BY <2>2, <4>1
      <4>3. d'[Len(d')] # EOS => ~eos'
        BY <2>2, <2>5
      <4> QED
        BY <4>2, <4>3
    <3>3. Data' = D
      BY <2>4
    <3>4. accepted'.epoch = accepted.epoch => ~eos
      BY <2>2, <2>6
    <3> HIDE DEF eos, D, Data
    <3>5. IF Promise!Last(Data') = Promise!Trailer
            THEN Promise!Complete(accepted'.epoch, Data')
            ELSE Promise!BeginsStream(accepted'.epoch, Data') /\ ~eos'
      BY <2>5, <3>2, <3>3, Constants DEF Promise!Trailer
    <3>6. Data' # <<>> /\ (accepted'.epoch = accepted.epoch => Promise!IsPrefix(Data, Data'))
      BY <2>5, <2>6, <3>3
    <3> DEFINE stream == [epoch |-> accepted.epoch, data |-> Data, eos |-> eos]
    <3>7. /\ stream.epoch = accepted.epoch /\ stream.data = Data /\ stream.eos = eos
          /\ stream'.epoch = accepted'.epoch /\ stream'.data = Data' /\ stream'.eos = eos'
      OBVIOUS
    <3> HIDE DEF stream
    <3>8. /\ stream'.epoch \in stream.epoch .. epoch
          /\ stream'.epoch = stream.epoch => /\ ~stream.eos
                                             /\ Promise!IsPrefix(stream.data, stream'.data)
          /\ stream'.data # <<>>
          /\ IF Promise!Last(stream'.data) = Promise!Trailer
               THEN Promise!Complete(stream'.epoch, stream'.data)
               ELSE Promise!BeginsStream(stream'.epoch, stream'.data) /\ ~stream'.eos
      BY <3>1, <3>4, <3>5, <3>6, <3>7, Zenon
    <3> QED
      BY <1>3, <3>8, Zenon DEF Promise!Deliver, stream, Data, eos
  <2> QED
    BY <2>7 DEF Promise!Next
<1> QED
  BY <1>1, <1>2, <1>3, Served

(* What EpochStream promises is what the uplink delivers: the abstract     *)
(* specification is implemented, step by step, under the mapping of        *)
(* Promise, through seeks, superseded pumps and workers, stale packets and *)
(* short batches (_uplink_loop, VideoTrack.packets, _run_uplink).          *)
THEOREM UplinkRefines == Spec => UplinkStreams
<1>1. Init => Promise!Init
  BY PromisedInit
<1>2. UplinkInv /\ UplinkInv' /\ [Next]_vars =>
        [Promise!Next]_<<epoch,
                         [epoch |-> accepted.epoch,
                          data |-> IF accepted.data = <<>> THEN <<>>
                                   ELSE <<0>> \o accepted.data,
                          eos |-> EOS \in {accepted.data[i] : i \in DOMAIN accepted.data}]>>
  BY PromisedStep
<1> QED
  BY <1>1, <1>2, UplinkInvariant, PTL DEF Spec, UplinkStreams, Promise!Spec

=============================================================================
