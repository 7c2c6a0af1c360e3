---------------------------- MODULE DisplayMapper ----------------------------
(***************************************************************************)
(* Display mapping on the server (relay_server/display_mapping.py) and the *)
(* decode stage that owns it (relay_server/pipeline.py): a subprocess per  *)
(* epoch stands in for the decoder. The decode thread writes packets to    *)
(* it, a reader thread of each process hands its frames downstream and     *)
(* with them the auxiliary packets held back for them; a flush and a close *)
(* kill it from threads of their own. A spare process waits for the next   *)
(* epoch.                                                                  *)
(***************************************************************************)
EXTENDS Integers, Sequences, FiniteSets

CONSTANTS Script,       \* the packets of an epoch, in order: "video" or "aux"
          MaxSeeks,     \* bound: seeks, so epochs 0..MaxSeeks
          MaxMappers,   \* bound: subprocesses; beyond it a spawn fails
          MaxCrashes,   \* bound: subprocesses that fail by themselves
          MaxTroubles,  \* bound: seeks, crashes and the close together
          InSize,       \* places of in_q
          HoldMax       \* _HOLD_MAX, items held back

ASSUME MappingAssumption ==
  /\ Script \in Seq({"video", "aux"})
  /\ MaxSeeks \in Nat /\ MaxMappers \in Nat /\ MaxCrashes \in Nat /\ MaxTroubles \in Nat
  /\ InSize \in Nat /\ HoldMax \in Nat

VARIABLES
  inq,      \* in_q: what the source fed, flush commands, the stop
  fed,      \* the source: the epoch it feeds and how far it is
  epoch, pending, closed,  \* Pipeline._epoch, _flush_pending, _closed
  flush,    \* the place of the flush at work
  closing,  \* the place of the close
  decode,   \* the decode thread: its place, the item it handles, why it drains
  current, spare,  \* _mapper_proc, _spare_mapper (0: None)
  mapper,   \* every MapperProcess
  passed,   \* q_dec: all that went downstream
  reports   \* on_error of each mapper's failure: by its reader, by the stage

pipeVars == <<inq, fed, epoch, pending, closed, flush, closing>>
mappingVars == <<pipeVars, decode, current, spare, mapper, passed, reports>>

Mapper == 1..MaxMappers
Epoch == 0..MaxSeeks
Item(kind, e, n) == [kind |-> kind, epoch |-> e, n |-> n]
Items == [kind : {"video", "aux", "eos", "flush", "stop"}, epoch : Epoch,
          n : 0..Len(Script) + 1]
StopItem == Item("stop", 0, 0)

NoMapper == [proc |-> "none", epoch |-> 0, killed |-> FALSE, crashed |-> FALSE,
             finishing |-> FALSE, claimed |-> FALSE, packets |-> <<>>,
             sent |-> 0, out |-> 0, held |-> <<>>, hand |-> <<>>,
             all |-> FALSE, reader |-> "none"]

MapperRecord ==
  [proc : {"none", "alive", "dead"}, epoch : Epoch, killed : BOOLEAN, crashed : BOOLEAN,
   finishing : BOOLEAN, claimed : BOOLEAN, packets : Seq(0..Len(Script) + 1),
   sent : Nat, out : Nat,
   held : Seq([after : Nat, item : Items]), hand : Seq(Items), all : BOOLEAN,
   reader : {"none", "reading", "releasing", "last", "ended"}]

MappingTypeOK ==
  /\ inq \in Seq(Items)
  /\ fed \in [epoch : Epoch, n : 0..Len(Script) + 1]
  /\ epoch \in Epoch /\ pending \in BOOLEAN /\ closed \in BOOLEAN
  /\ flush \in {"idle", "mark", "kill", "drain", "put"}
  /\ closing \in {"open", "stop", "kill", "join", "closed"}
  /\ decode \in [at : {"get", "ensure", "start", "spare", "use", "drain", "failed",
                       "release", "pass", "ending", "ended"}, item : Items]
  /\ current \in 0..MaxMappers /\ spare \in 0..MaxMappers
  /\ mapper \in [Mapper -> MapperRecord]
  /\ \A m \in Mapper : /\ Len(mapper[m].held) <= HoldMax \/ mapper[m].killed
                       /\ Len(mapper[m].hand) <= 1
  /\ passed \in Seq(Items)
  /\ reports \in [Mapper -> 0..1]

MappingInit ==
  /\ inq = <<>> /\ fed = [epoch |-> 0, n |-> 0]
  /\ epoch = 0 /\ pending = FALSE /\ closed = FALSE
  /\ flush = "idle" /\ closing = "open"
  /\ decode = [at |-> "get", item |-> StopItem]
  /\ current = 0 /\ spare = 0
  /\ mapper = [m \in Mapper |-> NoMapper]
  /\ passed = <<>> /\ reports = [m \in Mapper |-> 0]

(* What has come so far between the source and its end.                    *)
Crashes == Cardinality({m \in Mapper : mapper[m].crashed})
Troubles == epoch + Crashes + (IF flush = "mark" THEN 1 ELSE 0) + (IF closing = "open" THEN 0 ELSE 1)

-----------------------------------------------------------------------------
(* MapperProcess, any thread                                               *)

(* kill(): the subprocess ends and its sockets are closed.                 *)
Shot(r) == [r EXCEPT !.killed = TRUE, !.proc = "dead"]
Killed(M, m) ==
  IF m = 0 \/ M[m].killed THEN M ELSE [M EXCEPT ![m] = Shot(M[m])]

Set(m, r) == mapper' = [mapper EXCEPT ![m] = r]

(* close(), on the decode thread: killed, and the reader has ended.        *)
Released(m) ==
  m # 0 => mapper[m].killed /\ mapper[m].reader \in {"none", "ended"}

(* The next subprocess, if there may be one more.                          *)
Unused == {m \in Mapper : mapper[m].proc = "none"
                          /\ \A n \in 1..m - 1 : mapper[n].proc # "none"}
Spawned == [NoMapper EXCEPT !.proc = "alive"]

-----------------------------------------------------------------------------
(* The source, a seek and a close, each on a thread of its own             *)

Feed ==
  /\ fed.n <= Len(Script) /\ Len(inq) < InSize /\ ~closed
  /\ LET n == fed.n + 1 IN
       /\ inq' = Append(inq, Item(IF n > Len(Script) THEN "eos" ELSE Script[n],
                                  fed.epoch, n))
       /\ fed' = [fed EXCEPT !.n = n]
  /\ UNCHANGED <<epoch, pending, closed, flush, closing, decode, current, spare,
                 mapper, passed, reports>>

FlushBegin ==
  /\ flush = "idle" /\ epoch < MaxSeeks /\ closing = "open" /\ Troubles < MaxTroubles
  /\ flush' = "mark" /\ pending' = TRUE
  /\ UNCHANGED <<inq, fed, epoch, closed, closing, decode, current, spare, mapper,
                 passed, reports>>

FlushMark ==
  /\ flush = "mark"
  /\ flush' = "kill" /\ epoch' = epoch + 1
  /\ UNCHANGED <<inq, fed, pending, closed, closing, decode, current, spare, mapper,
                 passed, reports>>

FlushKill ==
  /\ flush = "kill"
  /\ flush' = "drain"
  /\ mapper' = Killed(mapper, current)
  /\ UNCHANGED <<inq, fed, epoch, pending, closed, closing, decode, current, spare,
                 passed, reports>>

FlushDrain ==
  /\ flush = "drain"
  /\ flush' = "put" /\ inq' = <<>>
  /\ UNCHANGED <<fed, epoch, pending, closed, closing, decode, current, spare,
                 mapper, passed, reports>>

(* The source is started again for the new epoch.                          *)
FlushPut ==
  /\ flush = "put"
  /\ flush' = "idle" /\ inq' = Append(inq, Item("flush", epoch, 0))
  /\ fed' = [epoch |-> epoch, n |-> 0]
  /\ UNCHANGED <<epoch, pending, closed, closing, decode, current, spare, mapper,
                 passed, reports>>

CloseBegin ==
  /\ closing = "open" /\ flush = "idle" /\ Troubles < MaxTroubles
  /\ closing' = "stop" /\ closed' = TRUE /\ pending' = TRUE
  /\ UNCHANGED <<inq, fed, epoch, flush, decode, current, spare, mapper, passed, reports>>

CloseStop ==
  /\ closing = "stop"
  /\ closing' = "kill" /\ inq' = <<StopItem>>
  /\ UNCHANGED <<fed, epoch, pending, closed, flush, decode, current, spare, mapper,
                 passed, reports>>

CloseKill ==
  /\ closing = "kill"
  /\ closing' = "join"
  /\ mapper' = Killed(Killed(mapper, current), spare)
  /\ UNCHANGED <<inq, fed, epoch, pending, closed, flush, decode, current, spare,
                 passed, reports>>

CloseJoin ==
  /\ closing = "join" /\ decode.at = "ended"
  /\ closing' = "closed"
  /\ UNCHANGED <<inq, fed, epoch, pending, closed, flush, decode, current, spare,
                 mapper, passed, reports>>

-----------------------------------------------------------------------------
(* The decode thread                                                       *)

DecodeAt(place) == decode.at = place
DecodeGoes(place) == decode' = [decode EXCEPT !.at = place]

Get ==
  /\ DecodeAt("get") /\ inq # <<>>
  /\ inq' = Tail(inq)
  /\ LET i == Head(inq) IN
       decode' = [item |-> i,
                  at |-> IF i.kind = "stop" THEN "ending"
                         ELSE IF i.kind = "flush" THEN "release"
                         ELSE IF i.epoch < epoch THEN "get"
                         ELSE IF i.kind \in {"video", "aux"} THEN "ensure"
                         ELSE IF current = 0 THEN "pass" ELSE "use"]
  /\ UNCHANGED <<fed, epoch, pending, closed, flush, closing, current, spare, mapper,
                 passed, reports>>

(* _ensure_mapper: the epoch's mapper, the spare if it is alive, or a new  *)
(* one. A pipeline that is closed starts none, which ends the stage.       *)
Ensure ==
  /\ DecodeAt("ensure")
  /\ \/ /\ current # 0
        /\ DecodeGoes("use") /\ UNCHANGED <<current, spare, mapper>>
     \/ /\ current = 0 /\ closed
        /\ DecodeGoes("ending") /\ UNCHANGED <<current, spare, mapper>>
     \/ /\ current = 0 /\ ~closed /\ spare # 0 /\ mapper[spare].proc = "alive"
        /\ current' = spare /\ spare' = 0
        /\ Set(spare, [mapper[spare] EXCEPT !.epoch = decode.item.epoch])
        /\ DecodeGoes("start")
     \/ /\ current = 0 /\ ~closed /\ ~(spare # 0 /\ mapper[spare].proc = "alive")
        /\ \E m \in Unused :
             /\ current' = m /\ spare' = 0
             /\ mapper' = [Killed(mapper, spare) EXCEPT
                             ![m] = [Spawned EXCEPT !.epoch = decode.item.epoch]]
        /\ DecodeGoes("start")
  /\ UNCHANGED <<pipeVars, passed, reports>>

(* start(): ffmpeg connects, and a reader is started; or it does not.      *)
StartMapper ==
  /\ DecodeAt("start")
  /\ \/ /\ mapper[current].proc = "alive"
        /\ Set(current, [mapper[current] EXCEPT !.reader = "reading"])
        /\ DecodeGoes("spare")
     \/ /\ mapper[current].proc = "dead"
        /\ DecodeGoes("failed") /\ UNCHANGED mapper
  /\ UNCHANGED <<pipeVars, current, spare, passed, reports>>

StartSpare ==
  /\ DecodeAt("spare")
  /\ \/ \E m \in Unused :
          spare' = m /\ mapper' = [mapper EXCEPT ![m] = Spawned]
     \/ Unused = {} /\ UNCHANGED <<spare, mapper>>
  /\ DecodeGoes("use")
  /\ UNCHANGED <<pipeVars, current, passed, reports>>

(* send(): fails once the mapper is killed; a write to one that crashed    *)
(* may still go into the socket's buffer.                                  *)
Send ==
  /\ DecodeAt("use") /\ decode.item.kind = "video"
  /\ \/ /\ ~mapper[current].killed
        /\ Set(current, [mapper[current] EXCEPT !.packets = Append(@, decode.item.n),
                                                !.sent = decode.item.n])
        /\ DecodeGoes("get")
     \/ /\ mapper[current].proc = "dead"
        /\ DecodeGoes("failed") /\ UNCHANGED mapper
  /\ UNCHANGED <<pipeVars, current, spare, passed, reports>>

(* A bug: it does not wait for room.                                       *)
HoldAnyway ==
  /\ DecodeAt("use") /\ decode.item.kind = "aux"
  /\ Set(current, [mapper[current] EXCEPT !.held =
                     Append(@, [after |-> mapper[current].sent, item |-> decode.item])])
  /\ DecodeGoes("get")
  /\ UNCHANGED <<pipeVars, current, spare, passed, reports>>

(* hold(): waits for room, which a killed mapper no longer asks for.       *)
Hold ==
  /\ DecodeAt("use") /\ decode.item.kind = "aux"
  /\ Len(mapper[current].held) < HoldMax \/ mapper[current].killed
  /\ Set(current, [mapper[current] EXCEPT !.held =
                     Append(@, [after |-> mapper[current].sent, item |-> decode.item])])
  /\ DecodeGoes("get")
  /\ UNCHANGED <<pipeVars, current, spare, passed, reports>>

(* finish(): the input ends, then the reader has to. Writing the trailer   *)
(* fails once the socket is gone.                                          *)
Finish ==
  /\ DecodeAt("use") /\ decode.item.kind = "eos"
  /\ LET ended == [mapper EXCEPT ![current] = [mapper[current] EXCEPT !.finishing = TRUE]] IN
     \/ /\ mapper[current].proc = "dead"
        /\ mapper' = Killed(ended, current) /\ DecodeGoes("failed")
     \/ /\ ~mapper[current].killed
        /\ mapper' = ended /\ DecodeGoes("drain")
  /\ UNCHANGED <<pipeVars, current, spare, passed, reports>>

Drained ==
  /\ DecodeAt("drain")
  /\ mapper[current].reader = "ended" \/ mapper[current].killed
  /\ mapper' = Killed(mapper, current)
  /\ DecodeGoes("release")
  /\ UNCHANGED <<pipeVars, current, spare, passed, reports>>

(* Nothing came out for 30 seconds, and nothing is being handed on.        *)
DrainTimesOut ==
  /\ DecodeAt("drain") /\ mapper[current].reader = "reading"
  /\ mapper[current].crashed \* an ffmpeg that hangs counts as one that crashed
  /\ mapper' = Killed(mapper, current)
  /\ DecodeGoes("failed")
  /\ UNCHANGED <<pipeVars, current, spare, passed, reports>>

(* _abandoned_mapper_ok: a mapper that a seek or a close killed is no      *)
(* failure; one that its reader reported is no second one; else the stage  *)
(* fails.                                                                  *)
Failed ==
  /\ DecodeAt("failed")
  /\ IF pending \/ closed \/ mapper[current].claimed
       THEN /\ DecodeGoes(IF decode.item.kind = "eos" THEN "release" ELSE "get")
            /\ UNCHANGED <<mapper, reports>>
       ELSE /\ Set(current, [mapper[current] EXCEPT !.claimed = TRUE])
            /\ reports' = [reports EXCEPT ![current] = @ + 1]
            /\ DecodeGoes("ending")
  /\ UNCHANGED <<pipeVars, current, spare, passed>>

(* _release_mapper: its close kills it and waits for the reader.           *)
ReleaseKills ==
  /\ decode.at \in {"release", "ending"}
  /\ \/ current # 0 /\ ~mapper[current].killed
     \/ DecodeAt("ending") /\ spare # 0 /\ ~mapper[spare].killed
  /\ mapper' = IF DecodeAt("ending") THEN Killed(Killed(mapper, current), spare)
               ELSE Killed(mapper, current)
  /\ UNCHANGED <<pipeVars, decode, current, spare, passed, reports>>

(* A bug: the flush does not wait for the reader of the old epoch.         *)
ReleaseAtOnce ==
  /\ DecodeAt("release")
  /\ current' = 0 /\ DecodeGoes("pass")
  /\ pending' = (pending /\ decode.item.kind # "flush")
  /\ UNCHANGED <<inq, fed, epoch, closed, flush, closing, spare, mapper, passed, reports>>

ReleaseMapper ==
  /\ DecodeAt("release") /\ Released(current)
  /\ current' = 0 /\ DecodeGoes("pass")
  /\ pending' = (pending /\ decode.item.kind # "flush")
  /\ UNCHANGED <<inq, fed, epoch, closed, flush, closing, spare, mapper, passed, reports>>

(* The flush and the end of the stream go downstream; a closed pipeline    *)
(* takes nothing more.                                                     *)
Pass ==
  /\ DecodeAt("pass")
  /\ passed' = IF closed THEN passed ELSE Append(passed, decode.item)
  /\ DecodeGoes("get")
  /\ UNCHANGED <<pipeVars, current, spare, mapper, reports>>

(* The stage ends, with whatever it still owns (_decode_work).             *)
End ==
  /\ DecodeAt("ending") /\ Released(current) /\ Released(spare)
  /\ current' = 0 /\ spare' = 0
  /\ DecodeGoes("ended")
  /\ UNCHANGED <<pipeVars, mapper, passed, reports>>

-----------------------------------------------------------------------------
(* A reader thread and its ffmpeg                                          *)

Reads(m) == mapper[m].reader = "reading"
ByReader == UNCHANGED <<pipeVars, decode, current, spare>>

(* ffmpeg sends a frame, in presentation order; the reader hands it on,    *)
(* then the items held for it. A kill wakes a read.                        *)
MapFrame(m) ==
  /\ Reads(m) /\ mapper[m].packets # <<>> /\ ~mapper[m].killed
  /\ LET n == Head(mapper[m].packets) IN
       Set(m, [mapper[m] EXCEPT !.packets = Tail(@), !.out = n, !.all = FALSE,
                                !.reader = "releasing",
                                !.hand = <<Item("video", mapper[m].epoch, n)>>])
  /\ ByReader /\ UNCHANGED <<passed, reports>>

(* Nothing came and no packet went for a while: all that is held goes on.  *)
ReaderIdle(m) ==
  /\ Reads(m) /\ mapper[m].held # <<>> /\ ~mapper[m].killed
  /\ Set(m, [mapper[m] EXCEPT !.reader = "releasing", !.all = TRUE])
  /\ ByReader /\ UNCHANGED <<passed, reports>>

(* Downstream takes it; a closed pipeline drops it (_safe_put).            *)
HandOn(m) ==
  /\ mapper[m].hand # <<>>
  /\ passed' = IF closed THEN passed ELSE Append(passed, Head(mapper[m].hand))
  /\ Set(m, [mapper[m] EXCEPT !.hand = <<>>])
  /\ ByReader /\ UNCHANGED reports

Due(m) == mapper[m].held # <<>>
          /\ (mapper[m].all \/ Head(mapper[m].held).after <= mapper[m].out)

(* _release_through: one held item, or all that are due are gone.          *)
ReleaseHeld(m) ==
  /\ mapper[m].reader \in {"releasing", "last"} /\ mapper[m].hand = <<>>
  /\ Set(m, IF Due(m)
              THEN [mapper[m] EXCEPT !.held = Tail(@),
                                     !.hand = <<Head(mapper[m].held).item>>]
              ELSE [mapper[m] EXCEPT !.reader = IF @ = "last" THEN "ended"
                                                ELSE "reading"])
  /\ ByReader /\ UNCHANGED <<passed, reports>>

(* The end of the stream: ffmpeg has mapped everything, or it crashed      *)
(* after its input ended, which looks the same.                            *)
StreamEnds(m) ==
  /\ Reads(m) /\ mapper[m].finishing /\ ~mapper[m].killed
  /\ mapper[m].packets = <<>> \/ mapper[m].crashed
  /\ Set(m, [mapper[m] EXCEPT !.reader = "last", !.all = TRUE])
  /\ ByReader /\ UNCHANGED <<passed, reports>>

(* Killed: the reader ends with an error and says nothing, or with what    *)
(* looks like the end of the stream, and then hands on all that is held.   *)
ReadKilled(m) ==
  /\ Reads(m) /\ mapper[m].killed
  /\ \/ Set(m, [mapper[m] EXCEPT !.reader = "ended"])
     \/ Set(m, [mapper[m] EXCEPT !.reader = "last", !.all = TRUE])
  /\ ByReader /\ UNCHANGED <<passed, reports>>

(* ffmpeg failed in the middle: reported, unless the decode thread has     *)
(* already claimed it, and killed, so the next write fails at once.        *)
ReadFails(m) ==
  /\ Reads(m) /\ mapper[m].crashed /\ ~mapper[m].finishing /\ ~mapper[m].killed
  /\ reports' = IF ~mapper[m].claimed /\ ~closed THEN [reports EXCEPT ![m] = @ + 1]
                ELSE reports
  /\ Set(m, [mapper[m] EXCEPT !.reader = "ended", !.claimed = TRUE, !.killed = TRUE])
  /\ ByReader /\ UNCHANGED passed

MapperCrash(m) ==
  /\ mapper[m].proc = "alive" /\ Crashes < MaxCrashes /\ Troubles < MaxTroubles
  /\ Set(m, [mapper[m] EXCEPT !.proc = "dead", !.crashed = TRUE])
  /\ ByReader /\ UNCHANGED <<passed, reports>>

-----------------------------------------------------------------------------
Decode ==
  \/ Get \/ Ensure \/ StartMapper \/ StartSpare \/ Send \/ Hold \/ Finish
  \/ Drained \/ DrainTimesOut \/ Failed \/ ReleaseKills \/ ReleaseMapper \/ Pass \/ End

Reader(m) ==
  MapFrame(m) \/ ReaderIdle(m) \/ HandOn(m) \/ ReleaseHeld(m) \/ StreamEnds(m)
  \/ ReadKilled(m) \/ ReadFails(m)

Flushing == FlushMark \/ FlushKill \/ FlushDrain \/ FlushPut
Closing == CloseStop \/ CloseKill \/ CloseJoin

MappingNext ==
  \/ Feed \/ FlushBegin \/ Flushing \/ CloseBegin \/ Closing
  \/ Decode
  \/ \E m \in Mapper : Reader(m) \/ MapperCrash(m)

MappingSpec == MappingInit /\ [][MappingNext]_mappingVars

-----------------------------------------------------------------------------
(* One item may go downstream behind another.                              *)
Follows(a, b) ==
  \/ a.epoch < b.epoch
  \/ /\ a.epoch = b.epoch /\ a.kind # "eos" /\ b.kind # "flush"
     /\ a.kind = b.kind => a.n < b.n

(* An epoch goes downstream as the decoder would have sent it: behind its  *)
(* flush and all of the epoch before ("the flush goes downstream after all *)
(* of its frames", _decode_packets), the frames in order, the auxiliary    *)
(* packets in theirs, and nothing behind its end.                          *)
EpochOrdered == \A i, j \in DOMAIN passed : i < j => Follows(passed[i], passed[j])

(* On the end of an epoch nothing of it is missing, unless its mapper      *)
(* crashed ("every frame and held item is delivered on return",            *)
(* MapperProcess.finish).                                                  *)
EosPassed == \E i \in DOMAIN passed : passed[i].kind = "eos" /\ passed[i].epoch = epoch
EpochComplete ==
  /\ EosPassed /\ ~closed /\ \A m \in Mapper : mapper[m].epoch = epoch => ~mapper[m].crashed
  => \A n \in DOMAIN Script : \E i \in DOMAIN passed : passed[i] = Item(Script[n], epoch, n)

(* A failure is reported once, by the reader or by the stage, of a mapper  *)
(* that crashed. Not quite: flush() marks itself before it moves the       *)
(* epoch, and the stage at work on the flush before it takes that mark     *)
(* away; so a mapper that was started behind one seek and killed by the    *)
(* next may be taken for one that failed, but no other.                    *)
Overtaken(m) == 0 < mapper[m].epoch /\ mapper[m].epoch < epoch /\ mapper[m].killed
ReportedOnce ==
  \A m \in Mapper : /\ reports[m] <= 1
                    /\ reports[m] = 1 => mapper[m].crashed \/ Overtaken(m)

(* What an epoch promises to the stages downstream of its mapper.          *)
EpochWhole == EpochOrdered /\ EpochComplete /\ ReportedOnce

(* "A mapper that a seek or close killed fails whatever the decode stage   *)
(* was doing with it: that epoch is over" (_abandoned_mapper_ok), so only  *)
(* a crash fails the session.                                              *)
CrashesReported == \A m \in Mapper : reports[m] = 0 \/ mapper[m].crashed

(* An epoch in play that has not ended, or a close that has not or has     *)
(* left a subprocess behind.                                               *)
EpochAtWork ==
  IF closing = "open" THEN decode.at # "ended" /\ ~EosPassed
  ELSE closing # "closed" \/ \E m \in Mapper : mapper[m].proc = "alive"
=============================================================================
