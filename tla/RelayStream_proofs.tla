-------------------------- MODULE RelayStream_proofs --------------------------
(***************************************************************************)
(* The server's stream, for any file, queue depths, delay of the codecs,   *)
(* number of seeks and failures of the stages: everything keeps its type,  *)
(* and a chunk is marked exactly if it begins a container.                 *)
(*                                                                         *)
(* Whether pl-finish may open a container depends on what comes next to    *)
(* it, and so on everything behind it. The inductive invariant therefore   *)
(* reads the queues and what the stages have in hand as one line, from     *)
(* pl-finish back to the source: in it nothing of the newest epoch comes   *)
(* before a seek's marker or after the end of the epoch, and a container   *)
(* that was ended has a marker before whatever would be muxed next.        *)
(***************************************************************************)
EXTENDS RelayStream, SequenceTheorems, FiniteSetTheorems, TLAPS

-----------------------------------------------------------------------------
(* One sequence after another.                                            *)
s ++ t == s \o t

(* Where what the pipeline carries stands, the oldest first: from pl-finish *)
(* back to what has been fed. What is behind a stage that died is lost.    *)
DecodeDead == decode \in {"leave", "exit"}
InferDead == infer \in {"leave", "exit"}
Inferring == IF infer = "put" THEN <<inferred>> ELSE <<>>
Pacing == IF decode = "pace" THEN <<packet>> ELSE <<>>
DecodeLine == IF DecodeDead THEN <<>> ELSE decoded ++ (Pacing ++ queue["in"])
InferLine == IF InferDead THEN <<>> ELSE Inferring ++ (queue["dec"] ++ DecodeLine)
Line == queue["up"] ++ InferLine

(* What pl-finish would mux in epoch e or later, the end of an epoch and   *)
(* the marker of a seek.                                                   *)
Payload(x) == x.kind \in {"video", "frame", "aux", "eos"}
Fresh(x, e) == Payload(x) /\ ~(x.epoch < e)
HasFresh(s, e) == \E i \in DOMAIN s : Fresh(s[i], e)
HasEnd(s, e) == \E i \in DOMAIN s : Fresh(s[i], e) /\ s[i].kind = "eos"
HasMark(s) == \E i \in DOMAIN s : s[i].kind = "flush"

(* Nothing fresh before a marker nor after the end of its epoch.           *)
Ordered(s, e) ==
  \A i, j \in DOMAIN s : i < j =>
    /\ s[j].kind = "flush" => ~Fresh(s[i], e)
    /\ Fresh(s[i], e) /\ s[i].kind = "eos" => ~Fresh(s[j], e)

(* Nothing fresh but after a marker.                                       *)
Covered(s, e) ==
  \A j \in DOMAIN s : Fresh(s[j], e) => \E i \in DOMAIN s : i < j /\ s[i].kind = "flush"

UpTo(s, e) == \A i \in DOMAIN s : Payload(s[i]) => s[i].epoch <= e

(* More of the epoch is to come.                                           *)
More ==
  /\ ~DecodeDead /\ ~InferDead
  /\ \/ source.epoch = epoch_ /\ source.next <= Trailer
     \/ \E f \in feeds : Fresh(f, epoch_)

(* The container was ended and no other was begun.                         *)
Ended == ~need_discontinuity /\ ~header

(* The epochs agree but in a seek.                                         *)
EpochsAgree ==
  /\ seek = "idle" => epoch = source.epoch /\ epoch_ = source.epoch
  /\ seek \in {"drain", "source"} => epoch = source.epoch + 1 /\ epoch_ = source.epoch
  /\ seek = "flush" => /\ epoch = source.epoch + 1 /\ flush_epoch = epoch
                       /\ epoch_ = IF flush \in {"called", "signal"} THEN source.epoch ELSE epoch
  /\ seek # "flush" => flush = "idle"
  /\ seek # "restart"

FeedsOK ==
  /\ \A f \in feeds : f.epoch <= source.epoch /\ f.kind \in {"video", "aux", "eos"}
  /\ \A f, g \in feeds : f.epoch = source.epoch /\ g.epoch = source.epoch => f = g
  /\ \A f \in feeds : f.epoch = source.epoch /\ f.kind = "eos" => source.next > Trailer

ContainerOK ==
  /\ need_discontinuity /\ header => sink # <<>> /\ Head(sink) = Header
  /\ ~(need_discontinuity /\ header) => sink = <<>>

Marked(chunk) == chunk.discontinuity <=> chunk.data # <<>> /\ Head(chunk.data) = Header
ChunksOK ==
  /\ \A i \in DOMAIN chunks : Marked(chunks[i])
  /\ \A i \in DOMAIN down_q : Marked(down_q[i])

(* The line, and what a container that was ended waits for. Nothing of it  *)
(* is newer than what the source feeds.                                    *)
Awaited == seek = "flush" /\ flush = "idle" /\ ~DecodeDead /\ ~InferDead
LineOK ==
  /\ Ordered(Line, epoch_) /\ UpTo(Line, source.epoch)
  /\ HasEnd(Line, epoch_) => ~More
  /\ Ended => Covered(Line, epoch_)
  /\ Ended /\ (More \/ Awaited) => HasMark(Line)

Served == ~closed /\ EpochsAgree /\ FeedsOK /\ ContainerOK /\ ChunksOK /\ LineOK

-----------------------------------------------------------------------------
(* Types, by who writes what. A stage that has something in hand has it.   *)
QueueTypes ==
  /\ queue \in [QueueName -> Seq(Item)]
  /\ \A q \in QueueName : Len(queue[q]) <= Depth[q]
ControlTypes ==
  /\ epoch_ \in Epoch /\ flush_pending \in BOOLEAN /\ closed \in BOOLEAN
  /\ late \subseteq {"decode", "infer"} /\ buffered \in BOOLEAN
  /\ flush \in {"idle", "called", "signal", "epoch", "drain"} /\ flush_epoch \in Epoch
  /\ close \in {"open", "announced", "drain_in", "stop_in", "drain_dec", "stop_dec",
                "drain_up", "stop_up", "join", "done", "raised"}
DecodeTypes ==
  /\ decode \in {"get", "pace", "put", "leave", "exit"} /\ packet \in Item
  /\ decoder \in Seq(Position) /\ Len(decoder) <= Delay
  /\ discard \in 0..Length
  /\ decoded \in Seq(Item)
  /\ decode = "put" <=> decoded # <<>>
  /\ decode = "pace" => packet.kind = "video"
  /\ \A i \in DOMAIN decoded : decoded[i].kind = "stop" => decoded = <<Stop>>
InferTypes == infer \in {"get", "put", "leave", "exit"} /\ inferred \in Item
FinishTypes ==
  /\ finish \in {"get", "emit", "deliver", "exit"}
  /\ encoder \in Seq(Position) /\ Len(encoder) <= Delay
  /\ header \in BOOLEAN /\ need_discontinuity \in BOOLEAN
  /\ sink \in Seq(0..Trailer) /\ chunks \in Seq(Chunk)
  /\ finish \in {"emit", "deliver"} => chunks # <<>>
SessionTypes ==
  /\ epoch \in Epoch /\ seek \in {"idle", "drain", "source", "flush", "restart"}
  /\ source \in [on : BOOLEAN, epoch : Epoch, next : 1..Length + 2]
  /\ feeds \subseteq Item
  /\ down_q \in Seq(Chunk) /\ Len(down_q) <= DownDepth
  /\ client \in BOOLEAN
  /\ stream \in [epoch : Epoch, data : Seq(0..Trailer), eos : BOOLEAN]
Typed == /\ QueueTypes /\ ControlTypes /\ DecodeTypes /\ InferTypes /\ FinishTypes
         /\ SessionTypes

RelayInv == Typed /\ (close = "open" => Served)


-----------------------------------------------------------------------------
(* Sequences                                                               *)

(* What sequences of a set are made of.                                    *)
LEMMA Members ==
  ASSUME NEW S, NEW s \in Seq(S)
  PROVE  /\ Len(s) \in Nat /\ DOMAIN s = 1..Len(s) /\ (s = <<>> <=> Len(s) = 0)
         /\ \A i \in DOMAIN s : s[i] \in S
         /\ s # <<>> => Head(s) \in S /\ Tail(s) \in Seq(S) /\ Head(s) = s[1]
                        /\ Len(Tail(s)) = Len(s) - 1 /\ 1 \in DOMAIN s
OBVIOUS

(* A sequence of one, and one with an element more.                        *)
LEMMA OneMore ==
  ASSUME NEW S, NEW s \in Seq(S), NEW x \in S
  PROVE  /\ <<x>> \in Seq(S) /\ <<>> \in Seq(S) /\ <<x>> # <<>> /\ Append(s, x) # <<>>
         /\ Append(s, x) \in Seq(S) /\ Append(s, x) = s ++ <<x>> /\ Len(Append(s, x)) = Len(s) + 1
         /\ Head(<<x>>) = x /\ Tail(<<x>>) = <<>>
<1>1. /\ <<x>> \in Seq(S) /\ <<>> \in Seq(S) /\ <<x>> # <<>>
      /\ Append(s, x) \in Seq(S) /\ Len(Append(s, x)) = Len(s) + 1
      /\ Head(<<x>>) = x /\ Tail(<<x>>) = <<>>
  OBVIOUS
<1>2. Append(s, x) # <<>>
  <2>1. Len(s) \in Nat /\ Len(<<>>) = 0  OBVIOUS
  <2> DEFINE a == Append(s, x)
  <2>2. Len(a) = Len(s) + 1  BY <1>1
  <2> HIDE DEF a
  <2>3. a # <<>>  BY <2>1, <2>2
  <2> QED  BY <2>3 DEF a
<1>3. Append(s, x) = s ++ <<x>>  BY AppendIsConcat DEF ++
<1> QED  BY <1>1, <1>2, <1>3

(* A sequence is its first element and the rest.                           *)
LEMMA HeadFirst ==
  ASSUME NEW S, NEW s \in Seq(S), s # <<>>
  PROVE  s = <<Head(s)>> ++ Tail(s)
BY DEF ++

(* Sequences put together.                                                 *)
LEMMA Together ==
  ASSUME NEW S, NEW s \in Seq(S), NEW t \in Seq(S)
  PROVE  /\ s ++ t \in Seq(S) /\ Len(s ++ t) = Len(s) + Len(t)
         /\ DOMAIN (s ++ t) = 1..Len(s) + Len(t) /\ DOMAIN s = 1..Len(s) /\ DOMAIN t = 1..Len(t)
         /\ Len(s) \in Nat /\ Len(t) \in Nat
         /\ \A i \in DOMAIN s : (s ++ t)[i] = s[i] /\ i \in DOMAIN (s ++ t)
         /\ \A i \in DOMAIN t : (s ++ t)[Len(s) + i] = t[i] /\ Len(s) + i \in DOMAIN (s ++ t)
         /\ \A i \in DOMAIN (s ++ t) :
              i \in DOMAIN s \/ (i - Len(s) \in DOMAIN t /\ (s ++ t)[i] = t[i - Len(s)])
         /\ s ++ <<>> = s /\ <<>> ++ s = s /\ (s ++ t = <<>> <=> s = <<>> /\ t = <<>>)
         /\ s # <<>> => Head(s ++ t) = Head(s)
<1> USE DEF ++
<1>1. /\ s ++ t \in Seq(S) /\ Len(s ++ t) = Len(s) + Len(t)
      /\ DOMAIN (s ++ t) = 1..Len(s) + Len(t) /\ DOMAIN s = 1..Len(s) /\ DOMAIN t = 1..Len(t)
      /\ Len(s) \in Nat /\ Len(t) \in Nat
  OBVIOUS
<1>2. /\ \A i \in DOMAIN s : (s ++ t)[i] = s[i] /\ i \in DOMAIN (s ++ t)
      /\ \A i \in DOMAIN t : (s ++ t)[Len(s) + i] = t[i] /\ Len(s) + i \in DOMAIN (s ++ t)
      /\ \A i \in DOMAIN (s ++ t) :
           i \in DOMAIN s \/ (i - Len(s) \in DOMAIN t /\ (s ++ t)[i] = t[i - Len(s)])
  BY <1>1
<1>3. s ++ <<>> = s /\ <<>> ++ s = s  OBVIOUS
<1>4. s ++ t = <<>> <=> s = <<>> /\ t = <<>>  BY ConcatEqualIffEmpty
<1>5. s # <<>> => Head(s ++ t) = Head(s)  OBVIOUS
<1> QED  BY <1>1, <1>2, <1>3, <1>4, <1>5

(* What is said of a part is said of the whole.                            *)
LEMMA Parts ==
  ASSUME NEW S, NEW s \in Seq(S), NEW t \in Seq(S), NEW e
  PROVE  /\ HasFresh(s ++ t, e) <=> HasFresh(s, e) \/ HasFresh(t, e)
         /\ HasEnd(s ++ t, e) <=> HasEnd(s, e) \/ HasEnd(t, e)
         /\ HasMark(s ++ t) <=> HasMark(s) \/ HasMark(t)
         /\ UpTo(s ++ t, e) <=> UpTo(s, e) /\ UpTo(t, e)
<1>1. /\ \A i \in DOMAIN s : (s ++ t)[i] = s[i] /\ i \in DOMAIN (s ++ t)
      /\ \A i \in DOMAIN t : (s ++ t)[Len(s) + i] = t[i] /\ Len(s) + i \in DOMAIN (s ++ t)
      /\ \A i \in DOMAIN (s ++ t) :
           i \in DOMAIN s \/ (i - Len(s) \in DOMAIN t /\ (s ++ t)[i] = t[i - Len(s)])
  BY Together DEF ++
<1>2. HasFresh(s ++ t, e) <=> HasFresh(s, e) \/ HasFresh(t, e)
  <2>1. HasFresh(s ++ t, e) => HasFresh(s, e) \/ HasFresh(t, e)  BY <1>1 DEF HasFresh
  <2>2. HasFresh(s, e) \/ HasFresh(t, e) => HasFresh(s ++ t, e)  BY <1>1 DEF HasFresh
  <2> QED  BY <2>1, <2>2
<1>3. HasEnd(s ++ t, e) <=> HasEnd(s, e) \/ HasEnd(t, e)
  <2>1. HasEnd(s ++ t, e) => HasEnd(s, e) \/ HasEnd(t, e)  BY <1>1 DEF HasEnd
  <2>2. HasEnd(s, e) \/ HasEnd(t, e) => HasEnd(s ++ t, e)  BY <1>1 DEF HasEnd
  <2> QED  BY <2>1, <2>2
<1>4. HasMark(s ++ t) <=> HasMark(s) \/ HasMark(t)
  <2>1. HasMark(s ++ t) => HasMark(s) \/ HasMark(t)  BY <1>1 DEF HasMark
  <2>2. HasMark(s) \/ HasMark(t) => HasMark(s ++ t)  BY <1>1 DEF HasMark
  <2> QED  BY <2>1, <2>2
<1>5. UpTo(s ++ t, e) <=> UpTo(s, e) /\ UpTo(t, e)
  <2>1. UpTo(s ++ t, e) => UpTo(s, e) /\ UpTo(t, e)  BY <1>1 DEF UpTo
  <2>2. UpTo(s, e) /\ UpTo(t, e) => UpTo(s ++ t, e)  BY <1>1 DEF UpTo
  <2> QED  BY <2>1, <2>2
<1> QED  BY <1>2, <1>3, <1>4, <1>5

(* The whole is ordered if its parts are and fit.                          *)
LEMMA OrderedParts ==
  ASSUME NEW S, NEW s \in Seq(S), NEW t \in Seq(S), NEW e
  PROVE  Ordered(s ++ t, e) <=>
           /\ Ordered(s, e) /\ Ordered(t, e)
           /\ HasMark(t) => ~HasFresh(s, e)
           /\ HasEnd(s, e) => ~HasFresh(t, e)
<1> DEFINE Fits(x, y) == /\ y.kind = "flush" => ~Fresh(x, e)
                         /\ Fresh(x, e) /\ x.kind = "eos" => ~Fresh(y, e)
<1>1. /\ \A i \in DOMAIN s : (s ++ t)[i] = s[i] /\ i \in DOMAIN (s ++ t)
      /\ \A i \in DOMAIN t : (s ++ t)[Len(s) + i] = t[i] /\ Len(s) + i \in DOMAIN (s ++ t)
      /\ \A i \in DOMAIN (s ++ t) :
           i \in DOMAIN s \/ (i - Len(s) \in DOMAIN t /\ (s ++ t)[i] = t[i - Len(s)])
      /\ DOMAIN s = 1..Len(s) /\ DOMAIN t = 1..Len(t) /\ Len(s) \in Nat /\ Len(t) \in Nat
      /\ DOMAIN (s ++ t) = 1..Len(s) + Len(t)
  BY Together DEF ++
<1>2. \A r : Ordered(r, e) <=> \A i, j \in DOMAIN r : i < j => Fits(r[i], r[j])
  BY DEF Ordered
<1>3. (HasMark(t) => ~HasFresh(s, e)) /\ (HasEnd(s, e) => ~HasFresh(t, e))
        <=> \A i \in DOMAIN s, j \in DOMAIN t : Fits(s[i], t[j])
  BY DEF HasMark, HasFresh, HasEnd
<1> HIDE DEF Fits
<1>4. ASSUME Ordered(s ++ t, e)
      PROVE  /\ Ordered(s, e) /\ Ordered(t, e)
             /\ \A i \in DOMAIN s, j \in DOMAIN t : Fits(s[i], t[j])
  <2>1. Ordered(s, e)  BY <1>1, <1>2, <1>4
  <2>2. ASSUME NEW i \in DOMAIN t, NEW j \in DOMAIN t, i < j PROVE Fits(t[i], t[j])
    <3>1. Len(s) + i < Len(s) + j  BY <1>1, <2>2
    <3> QED  BY <1>1, <1>2, <1>4, <2>2, <3>1
  <2>3. Ordered(t, e)  BY <1>2, <2>2
  <2>4. ASSUME NEW i \in DOMAIN s, NEW j \in DOMAIN t PROVE Fits(s[i], t[j])
    <3>1. i < Len(s) + j  BY <1>1
    <3> QED  BY <1>1, <1>2, <1>4, <3>1
  <2> QED  BY <2>1, <2>3, <2>4
<1>5. ASSUME Ordered(s, e), Ordered(t, e), \A i \in DOMAIN s, j \in DOMAIN t : Fits(s[i], t[j])
      PROVE  Ordered(s ++ t, e)
  <2> SUFFICES ASSUME NEW i \in DOMAIN (s ++ t), NEW j \in DOMAIN (s ++ t), i < j
               PROVE  Fits((s ++ t)[i], (s ++ t)[j])
    BY <1>2
  <2>1. CASE i \in DOMAIN s /\ j \in DOMAIN s
    <3>1. (s ++ t)[i] = s[i] /\ (s ++ t)[j] = s[j]  BY <1>1, <2>1
    <3>2. Fits(s[i], s[j])  BY <1>2, <1>5, <2>1
    <3> QED  BY <3>1, <3>2
  <2>2. CASE i \in DOMAIN s /\ j \notin DOMAIN s
    <3>1. (s ++ t)[i] = s[i] /\ (s ++ t)[j] = t[j - Len(s)] /\ j - Len(s) \in DOMAIN t
      BY <1>1, <2>2
    <3> QED  BY <1>5, <2>2, <3>1
  <2>3. CASE i \notin DOMAIN s
    <3>1. j \notin DOMAIN s  BY <1>1, <2>3
    <3>2. /\ (s ++ t)[i] = t[i - Len(s)] /\ i - Len(s) \in DOMAIN t
          /\ (s ++ t)[j] = t[j - Len(s)] /\ j - Len(s) \in DOMAIN t
      BY <1>1, <2>3, <3>1
    <3>3. i - Len(s) < j - Len(s)  BY <1>1
    <3>4. Fits(t[i - Len(s)], t[j - Len(s)])  BY <1>2, <1>5, <3>2, <3>3
    <3> QED  BY <3>2, <3>4
  <2> QED  BY <2>1, <2>2, <2>3
<1> QED  BY <1>3, <1>4, <1>5

(* The whole is covered if its first part is and holds a marker, or its    *)
(* second part is too.                                                     *)
LEMMA CoveredParts ==
  ASSUME NEW S, NEW s \in Seq(S), NEW t \in Seq(S), NEW e
  PROVE  Covered(s ++ t, e) <=> Covered(s, e) /\ (HasMark(s) \/ Covered(t, e))
<1>1. /\ \A i \in DOMAIN s : (s ++ t)[i] = s[i] /\ i \in DOMAIN (s ++ t)
      /\ \A i \in DOMAIN t : (s ++ t)[Len(s) + i] = t[i] /\ Len(s) + i \in DOMAIN (s ++ t)
      /\ \A i \in DOMAIN (s ++ t) :
           i \in DOMAIN s \/ (i - Len(s) \in DOMAIN t /\ (s ++ t)[i] = t[i - Len(s)])
      /\ DOMAIN s = 1..Len(s) /\ DOMAIN t = 1..Len(t) /\ Len(s) \in Nat /\ Len(t) \in Nat
      /\ DOMAIN (s ++ t) = 1..Len(s) + Len(t)
  BY Together DEF ++
<1>2. ASSUME Covered(s ++ t, e)
      PROVE  Covered(s, e) /\ (HasMark(s) \/ Covered(t, e))
  <2>1. ASSUME NEW j \in DOMAIN s, Fresh(s[j], e)
        PROVE  \E i \in DOMAIN s : i < j /\ s[i].kind = "flush"
    <3>1. PICK i \in DOMAIN (s ++ t) : i < j /\ (s ++ t)[i].kind = "flush"
      BY <1>1, <1>2, <2>1 DEF Covered
    <3>2. i \in DOMAIN s  BY <1>1, <3>1
    <3> QED  BY <1>1, <3>1, <3>2
  <2>2. ASSUME ~HasMark(s), NEW j \in DOMAIN t, Fresh(t[j], e)
        PROVE  \E i \in DOMAIN t : i < j /\ t[i].kind = "flush"
    <3>1. PICK i \in DOMAIN (s ++ t) : i < Len(s) + j /\ (s ++ t)[i].kind = "flush"
      BY <1>1, <1>2, <2>2 DEF Covered
    <3>2. i \notin DOMAIN s  BY <1>1, <2>2, <3>1 DEF HasMark
    <3>3. i - Len(s) \in DOMAIN t /\ t[i - Len(s)].kind = "flush"  BY <1>1, <3>1, <3>2
    <3>4. i - Len(s) < j  BY <1>1, <3>1
    <3> QED  BY <3>3, <3>4
  <2> QED  BY <2>1, <2>2 DEF Covered
<1>3. ASSUME Covered(s, e), HasMark(s) \/ Covered(t, e)
      PROVE  Covered(s ++ t, e)
  <2> SUFFICES ASSUME NEW j \in DOMAIN (s ++ t), Fresh((s ++ t)[j], e)
               PROVE  \E i \in DOMAIN (s ++ t) : i < j /\ (s ++ t)[i].kind = "flush"
    BY DEF Covered
  <2>1. CASE j \in DOMAIN s
    <3>1. PICK i \in DOMAIN s : i < j /\ s[i].kind = "flush"  BY <1>1, <1>3, <2>1 DEF Covered
    <3> QED  BY <1>1, <3>1
  <2>2. CASE j \notin DOMAIN s /\ HasMark(s)
    <3>1. PICK i \in DOMAIN s : s[i].kind = "flush"  BY <2>2 DEF HasMark
    <3>2. i < j  BY <1>1, <2>2
    <3> QED  BY <1>1, <3>1, <3>2
  <2>3. CASE j \notin DOMAIN s /\ ~HasMark(s)
    <3>1. Covered(t, e) /\ j - Len(s) \in DOMAIN t /\ Fresh(t[j - Len(s)], e)
      BY <1>1, <1>3, <2>3
    <3>2. PICK i \in DOMAIN t : i < j - Len(s) /\ t[i].kind = "flush"  BY <3>1 DEF Covered
    <3>3. Len(s) + i < j  BY <1>1, <3>2
    <3> QED  BY <1>1, <3>2, <3>3
  <2> QED  BY <2>1, <2>2, <2>3
<1> QED  BY <1>2, <1>3

(* What is said of one element, of none, and where nothing is fresh.       *)
LEMMA Units ==
  ASSUME NEW x, NEW e
  PROVE  /\ HasFresh(<<x>>, e) <=> Fresh(x, e)
         /\ HasEnd(<<x>>, e) <=> Fresh(x, e) /\ x.kind = "eos"
         /\ HasMark(<<x>>) <=> x.kind = "flush"
         /\ UpTo(<<x>>, e) <=> (Payload(x) => x.epoch <= e)
         /\ Ordered(<<x>>, e)
         /\ Covered(<<x>>, e) <=> ~Fresh(x, e)
         /\ ~HasFresh(<<>>, e) /\ ~HasMark(<<>>) /\ UpTo(<<>>, e)
<1>1. DOMAIN <<x>> = {1} /\ <<x>>[1] = x /\ DOMAIN <<>> = {}  OBVIOUS
<1>2. /\ HasFresh(<<x>>, e) <=> Fresh(x, e)
      /\ HasEnd(<<x>>, e) <=> Fresh(x, e) /\ x.kind = "eos"
      /\ HasMark(<<x>>) <=> x.kind = "flush"
      /\ UpTo(<<x>>, e) <=> (Payload(x) => x.epoch <= e)
  BY <1>1 DEF HasFresh, HasEnd, HasMark, UpTo
<1>3. Ordered(<<x>>, e)  BY <1>1 DEF Ordered
<1>4. Covered(<<x>>, e) <=> ~Fresh(x, e)  BY <1>1 DEF Covered
<1>5. ~HasFresh(<<>>, e) /\ ~HasMark(<<>>) /\ UpTo(<<>>, e)
  BY <1>1 DEF HasFresh, HasMark, UpTo
<1> QED  BY <1>2, <1>3, <1>4, <1>5

(* Where nothing is fresh, nothing is out of order.                        *)
LEMMA NoneFresh ==
  ASSUME NEW s, NEW e, ~HasFresh(s, e)
  PROVE  Ordered(s, e) /\ Covered(s, e) /\ ~HasEnd(s, e)
BY DEF HasFresh, Ordered, Covered, HasEnd

-----------------------------------------------------------------------------
(* Types                                                                   *)

(* The bounds of the model.                                                *)
LEMMA Bounds ==
  /\ Length \in Nat /\ Length >= 1 /\ MaxEpoch \in Nat /\ Delay \in Nat
  /\ Trailer = Length + 1 /\ Trailer \in Nat
  /\ \A e \in Epoch : Target[e] \in Position
  /\ Position \subseteq 0..Trailer /\ Trailer \in 0..Trailer /\ 0 \in 0..Trailer
  /\ 0 \in Epoch /\ Epoch \subseteq Nat /\ Auxiliary \subseteq Position
BY FileAssumption, RelayAssumption DEF Position, Epoch, Trailer

(* What an item is.                                                        *)
LEMMA Items ==
  /\ Stop \in Item /\ Stop.kind = "stop"
  /\ \A x \in Item : /\ x.epoch \in Epoch
                     /\ x.kind \in {"video", "aux", "frame"} => x.pos \in Position
                     /\ x.kind \in {"video", "aux", "frame", "eos", "flush", "stop"}
                     /\ Payload(x) <=> x.kind \notin {"flush", "stop"}
  /\ \A e \in Epoch : /\ \A p \in Position, k \in {"video", "aux", "frame"} :
                           [kind |-> k, epoch |-> e, pos |-> p] \in Item
                      /\ \A k \in {"eos", "flush", "stop"} :
                           [kind |-> k, epoch |-> e, pos |-> 0] \in Item
<1>1. 0 \in Epoch  BY Bounds
<1>2. Stop \in Item /\ Stop.kind = "stop"  BY <1>1 DEF Stop, Item
<1>3. \A x \in Item : /\ x.epoch \in Epoch
                      /\ x.kind \in {"video", "aux", "frame"} => x.pos \in Position
                      /\ x.kind \in {"video", "aux", "frame", "eos", "flush", "stop"}
                      /\ Payload(x) <=> x.kind \notin {"flush", "stop"}
  BY DEF Item, Payload
<1>4. \A e \in Epoch : /\ \A p \in Position, k \in {"video", "aux", "frame"} :
                            [kind |-> k, epoch |-> e, pos |-> p] \in Item
                       /\ \A k \in {"eos", "flush", "stop"} :
                            [kind |-> k, epoch |-> e, pos |-> 0] \in Item
  BY DEF Item
<1> QED  BY <1>2, <1>3, <1>4

(* A put, a get, and a queue that is emptied.                              *)
LEMMA QueueOps ==
  ASSUME QueueTypes, NEW q \in QueueName
  PROVE  /\ queue[q] \in Seq(Item)
         /\ \A x \in Item : Room(q) /\ Put(q, x) =>
              /\ QueueTypes' /\ queue'[q] = queue[q] ++ <<x>>
              /\ \A r \in QueueName \ {q} : queue'[r] = queue[r]
         /\ queue[q] # <<>> /\ queue' = [queue EXCEPT ![q] = Tail(@)] =>
              /\ QueueTypes' /\ Head(queue[q]) \in Item /\ queue'[q] \in Seq(Item)
              /\ queue[q] = <<Head(queue[q])>> ++ queue'[q]
              /\ \A r \in QueueName \ {q} : queue'[r] = queue[r]
         /\ queue' = [queue EXCEPT ![q] = <<>>] =>
              /\ QueueTypes' /\ queue'[q] = <<>>
              /\ \A r \in QueueName \ {q} : queue'[r] = queue[r]
         /\ UNCHANGED queue => QueueTypes'
<1> DEFINE S == Seq(Item)
<1>1. queue \in [QueueName -> S] /\ queue[q] \in S  BY DEF QueueTypes
<1>2. \A r \in QueueName : Len(queue[r]) <= Depth[r] /\ Depth[r] \in Int
  <2>1. \A r \in QueueName : Depth[r] \in Int  BY RelayAssumption DEF Depth, QueueName
  <2> QED  BY <2>1 DEF QueueTypes
<1>3. QueueTypes' <=> /\ queue' \in [QueueName -> S]
                      /\ \A r \in QueueName : Len(queue'[r]) <= Depth[r]
  BY DEF QueueTypes
<1>4. ASSUME NEW x \in Item, Room(q), Put(q, x)
      PROVE  /\ QueueTypes' /\ queue'[q] = queue[q] ++ <<x>>
             /\ \A r \in QueueName \ {q} : queue'[r] = queue[r]
  <2>1. /\ Append(queue[q], x) \in S /\ Append(queue[q], x) = queue[q] ++ <<x>>
        /\ Len(Append(queue[q], x)) = Len(queue[q]) + 1 /\ Len(queue[q]) \in Nat
    BY <1>1, OneMore
  <2> HIDE DEF S
  <2>2. /\ queue'[q] = Append(queue[q], x) /\ queue' \in [QueueName -> S]
        /\ \A r \in QueueName \ {q} : queue'[r] = queue[r]
    BY <1>1, <1>4, <2>1 DEF Put
  <2>3. Len(Append(queue[q], x)) <= Depth[q]  BY <1>2, <1>4, <2>1 DEF Room
  <2>4. \A r \in QueueName : Len(queue'[r]) <= Depth[r]  BY <1>2, <2>2, <2>3
  <2> QED  BY <1>3, <2>1, <2>2, <2>4
<1>5. ASSUME queue[q] # <<>>, queue' = [queue EXCEPT ![q] = Tail(@)]
      PROVE  /\ QueueTypes' /\ Head(queue[q]) \in Item /\ queue'[q] \in S
             /\ queue[q] = <<Head(queue[q])>> ++ queue'[q]
             /\ \A r \in QueueName \ {q} : queue'[r] = queue[r]
  <2>1. /\ Tail(queue[q]) \in S /\ Head(queue[q]) \in Item
        /\ Len(Tail(queue[q])) = Len(queue[q]) - 1 /\ Len(queue[q]) \in Nat
    BY <1>1, <1>5, Members
  <2>2. queue[q] = <<Head(queue[q])>> ++ Tail(queue[q])  BY <1>1, <1>5, HeadFirst
  <2> HIDE DEF S
  <2>3. /\ queue'[q] = Tail(queue[q]) /\ queue' \in [QueueName -> S]
        /\ \A r \in QueueName \ {q} : queue'[r] = queue[r]
    BY <1>1, <1>5, <2>1
  <2>4. Len(Tail(queue[q])) <= Depth[q]  BY <1>2, <2>1
  <2>5. \A r \in QueueName : Len(queue'[r]) <= Depth[r]  BY <1>2, <2>3, <2>4
  <2> QED  BY <1>3, <2>1, <2>2, <2>3, <2>5
<1>6. ASSUME queue' = [queue EXCEPT ![q] = <<>>]
      PROVE  /\ QueueTypes' /\ queue'[q] = <<>>
             /\ \A r \in QueueName \ {q} : queue'[r] = queue[r]
  <2>1. <<>> \in S /\ Len(<<>>) = 0  OBVIOUS
  <2>2. Depth[q] >= 0  BY RelayAssumption DEF Depth, QueueName
  <2> HIDE DEF S
  <2>3. /\ queue'[q] = <<>> /\ queue' \in [QueueName -> S]
        /\ \A r \in QueueName \ {q} : queue'[r] = queue[r]
    BY <1>1, <1>6, <2>1
  <2>4. \A r \in QueueName : Len(queue'[r]) <= Depth[r]  BY <1>2, <2>1, <2>2, <2>3
  <2> QED  BY <1>3, <2>3, <2>4
<1>7. UNCHANGED queue => QueueTypes'  BY DEF QueueTypes
<1> QED  BY <1>1, <1>4, <1>5, <1>6, <1>7

(* What a codec that is given one frame more releases, and what it keeps.  *)
LEMMA Codec ==
  ASSUME NEW held \in Seq(Position)
  PROVE  /\ Released(held) \in Seq(Position) /\ Kept(held) \in Seq(Position)
         /\ Len(Kept(held)) <= Delay
<1>1. Len(held) \in Nat /\ Delay \in Nat  BY Bounds
<1>2. CASE Len(held) <= Delay
  <2>1. Released(held) = <<>>  BY <1>1, <1>2, SubSeqProperties DEF Released
  <2>2. Kept(held) = SubSeq(held, 1, Len(held))  BY <2>1 DEF Kept
  <2>3. SubSeq(held, 1, Len(held)) = held  OBVIOUS
  <2> QED  BY <1>2, <2>1, <2>2, <2>3
<1>3. CASE Len(held) > Delay
  <2>1. Released(held) \in Seq(Position) /\ Len(Released(held)) = Len(held) - Delay
    BY <1>1, <1>3, SubSeqProperties DEF Released
  <2>2. Kept(held) \in Seq(Position) /\ Len(Kept(held)) = Len(held) - (Len(held) - Delay)
    <3> DEFINE a == Len(held) - Delay + 1
    <3>1. a \in 1..Len(held) + 1 /\ Kept(held) = SubSeq(held, a, Len(held))  BY <1>1, <1>3, <2>1 DEF Kept
    <3>2. SubSeq(held, a, Len(held)) \in Seq(Position)
          /\ Len(SubSeq(held, a, Len(held))) = IF a <= Len(held) THEN Len(held) - a + 1 ELSE 0
      <4> HIDE DEF a
      <4> QED  BY <1>1, <3>1, SubSeqProperties
    <3> QED  BY <1>1, <1>3, <3>1, <3>2
  <2> QED  BY <1>1, <2>1, <2>2
<1> QED  BY <1>1, <1>2, <1>3

Frames(s, e) == \A i \in DOMAIN s : s[i].kind = "frame" /\ s[i].epoch = e

(* What the decoder puts in hand: frames of the packet's epoch, and what   *)
(* follows them.                                                           *)
LEMMA Decoding ==
  ASSUME NEW positions \in Seq(Position), NEW e \in Epoch, NEW more \in Seq(Item),
         discard \in 0..Length, PutDecoded(positions, e, more)
  PROVE  /\ discard' \in 0..Length
         /\ decode' = IF decoded' = <<>> THEN "get" ELSE "put"
         /\ \E frames \in Seq(Item) : Frames(frames, e) /\ decoded' = frames ++ more
<1> DEFINE early == {i \in DOMAIN positions : \A j \in 1..i : positions[j] < discard}
           n == Cardinality(early) + 1
           shown == SubSeq(positions, n, Len(positions))
           frames == [i \in DOMAIN shown |-> Frame(e, shown[i])]
<1>1. n \in 1..Len(positions) + 1
  <2>1. DOMAIN positions = 1..Len(positions) /\ Len(positions) \in Nat  OBVIOUS
  <2>2. /\ IsFiniteSet(1..Len(positions)) /\ Cardinality(1..Len(positions)) = Len(positions)
    <3>1. \A m \in Nat : IsFiniteSet(1..m) /\ Cardinality(1..m) = m  BY FS_Interval
    <3> QED  BY <2>1, <3>1
  <2>3. early \subseteq 1..Len(positions)  BY <2>1
  <2>4. IsFiniteSet(early) /\ Cardinality(early) <= Len(positions)
    <3> HIDE DEF early
    <3> QED  BY <2>2, <2>3, FS_Subset
  <2>5. Cardinality(early) \in Nat  BY <2>4, FS_CardinalityType
  <2> QED  BY <2>1, <2>4, <2>5
<1>2. shown \in Seq(Position)
  <2> HIDE DEF n
  <2> QED  BY <1>1, SubSeqProperties
<1>3. frames \in Seq(Item) /\ Frames(frames, e)
  <2> HIDE DEF shown
  <2>1. DOMAIN shown = 1..Len(shown) /\ Len(shown) \in Nat /\ \A i \in DOMAIN shown : shown[i] \in Position
    BY <1>2
  <2>2. \A i \in DOMAIN shown : Frame(e, shown[i]) \in Item  BY <2>1, Items DEF Frame
  <2>3. frames \in [1..Len(shown) -> Item]  BY <2>1, <2>2
  <2>4. frames \in Seq(Item)  BY <2>1, <2>3
  <2>5. Frames(frames, e)  BY DEF Frames, Frame
  <2> QED  BY <2>4, <2>5
<1>4. /\ discard' = IF shown = <<>> THEN discard ELSE 0
      /\ decoded' = frames ++ more
      /\ decode' = IF frames ++ more = <<>> THEN "get" ELSE "put"
  BY DEF PutDecoded, ++
<1>5. discard' \in 0..Length  BY <1>4, Bounds
<1> HIDE DEF frames
<1> QED  BY <1>3, <1>4, <1>5

(* What is muxed is positions, the header and the trailer.                 *)
LEMMA Muxing ==
  ASSUME FinishTypes, NEW data \in Seq(0..Trailer)
  PROVE  /\ Muxed(data) \in Seq(0..Trailer)
         /\ Muxed(data) = <<>> <=> sink = <<>> /\ data = <<>>
         /\ sink # <<>> => Head(Muxed(data)) = Head(sink)
         /\ sink = <<>> /\ data # <<>> => Head(Muxed(data)) = IF header THEN Head(data) ELSE Header
<1> DEFINE S == Seq(0..Trailer)
           h == IF header \/ data = <<>> THEN <<>> ELSE <<Header>>
<1>1. Header \in 0..Trailer  BY Bounds DEF Header
<1>2. h \in Seq(0..Trailer) /\ sink \in Seq(0..Trailer)
  <2>1. <<>> \in Seq(0..Trailer) /\ <<Header>> \in Seq(0..Trailer)  BY <1>1
  <2>2. h = <<>> \/ h = <<Header>>  OBVIOUS
  <2> QED  BY <2>1, <2>2 DEF FinishTypes
<1>3. Muxed(data) = (sink ++ h) ++ data \/ Muxed(data) = sink ++ (h ++ data)  BY DEF Muxed, ++
<1>4. Muxed(data) = sink ++ (h ++ data)
  <2>1. \A a, b, c \in Seq(0..Trailer) : (a ++ b) ++ c = a ++ (b ++ c)
    BY ConcatAssociative DEF ++
  <2>2. data \in Seq(0..Trailer)  OBVIOUS
  <2> HIDE DEF h
  <2>3. (sink ++ h) ++ data = sink ++ (h ++ data)  BY <1>2, <2>1, <2>2
  <2> QED  BY <1>3, <2>3
<1>5. /\ h ++ data \in Seq(0..Trailer) /\ (h ++ data = <<>> <=> h = <<>> /\ data = <<>>)
      /\ h # <<>> => Head(h ++ data) = Head(h)
      /\ <<>> ++ data = data
  <2> HIDE DEF h
  <2> QED  BY <1>2, Together
<1>6. /\ sink ++ (h ++ data) \in Seq(0..Trailer)
      /\ sink ++ (h ++ data) = <<>> <=> sink = <<>> /\ h ++ data = <<>>
      /\ sink # <<>> => Head(sink ++ (h ++ data)) = Head(sink)
      /\ <<>> ++ (h ++ data) = h ++ data
  <2> HIDE DEF h
  <2> QED  BY <1>2, <1>5, Together DEF ++
<1>7. /\ data = <<>> => h = <<>>
      /\ data # <<>> /\ header => h = <<>>
      /\ data # <<>> /\ ~header => h = <<Header>> /\ h # <<>> /\ Head(h) = Header
  BY <1>1, OneMore
<1>8. h ++ data = <<>> <=> data = <<>>  BY <1>5, <1>7
<1> HIDE DEF h
<1> QED  BY <1>4, <1>5, <1>6, <1>7, <1>8

(* What is shipped is a chunk at most, and what follows it.                *)
LEMMA Shipping ==
  ASSUME FinishTypes, NEW e \in Epoch, NEW data \in Seq(0..Trailer), NEW more \in Seq(Chunk),
         Ship(e, data, more)
  PROVE  /\ need_discontinuity' \in BOOLEAN /\ sink' = <<>> /\ chunks' \in Seq(Chunk)
         /\ need_discontinuity' = (need_discontinuity /\ data = <<>>)
         /\ finish' \in {"get", "emit"} /\ (finish' = "emit" => chunks' # <<>>)
         /\ \A P \in SUBSET Chunk :
              /\ \A i \in DOMAIN more : more[i] \in P
              /\ data # <<>> => [epoch |-> e, data |-> data, discontinuity |-> need_discontinuity,
                                 eos |-> FALSE] \in P
              => \A i \in DOMAIN chunks' : chunks'[i] \in P
<1> DEFINE c == [epoch |-> e, data |-> data, discontinuity |-> need_discontinuity, eos |-> FALSE]
           s == IF data = <<>> THEN <<>> ELSE <<c>>
<1>1. c \in Chunk  BY DEF FinishTypes, Chunk
<1>2. s \in Seq(Chunk)  BY <1>1
<1>3. /\ chunks' = s ++ more
      /\ need_discontinuity' = (need_discontinuity /\ data = <<>>)
      /\ sink' = <<>>
      /\ finish' = IF chunks' = <<>> THEN "get" ELSE "emit"
  BY DEF Ship, ++
<1>4. need_discontinuity' \in BOOLEAN  BY <1>3
<1>5. /\ s ++ more \in Seq(Chunk)
      /\ \A i \in DOMAIN (s ++ more) :
           \/ i \in DOMAIN s /\ (s ++ more)[i] = s[i]
           \/ i - Len(s) \in DOMAIN more /\ (s ++ more)[i] = more[i - Len(s)]
  <2> HIDE DEF s
  <2> QED  BY <1>2, Together
<1>6. \A i \in DOMAIN s : data # <<>> /\ s[i] = c
  <2>1. DOMAIN <<>> = {} /\ DOMAIN <<c>> = {1} /\ <<c>>[1] = c  OBVIOUS
  <2>2. IF data = <<>> THEN s = <<>> ELSE s = <<c>>  OBVIOUS
  <2> HIDE DEF s, c
  <2> QED  BY <2>1, <2>2
<1>7. ASSUME NEW P \in SUBSET Chunk, \A i \in DOMAIN more : more[i] \in P, data # <<>> => c \in P
      PROVE  \A i \in DOMAIN (s ++ more) : (s ++ more)[i] \in P
  <2> HIDE DEF s, c
  <2> QED  BY <1>5, <1>6, <1>7
<1> HIDE DEF s, c
<1>8. \A P \in SUBSET Chunk :
        /\ \A i \in DOMAIN more : more[i] \in P
        /\ data # <<>> => c \in P
        => \A i \in DOMAIN chunks' : chunks'[i] \in P
  BY <1>3, <1>7
<1> QED  BY <1>3, <1>4, <1>5, <1>8 DEF c

(* What is not written keeps its type.                                     *)
LEMMA Unwritten ==
  ASSUME Typed
  PROVE  /\ UNCHANGED queue => QueueTypes'
         /\ UNCHANGED <<epoch_, flush_pending, closed, late, buffered, flush, flush_epoch, close>>
              => ControlTypes'
         /\ UNCHANGED decodeVars => DecodeTypes'
         /\ UNCHANGED inferVars => InferTypes'
         /\ UNCHANGED finishVars => FinishTypes'
         /\ UNCHANGED sessionVars => SessionTypes'
<1>1. UNCHANGED queue => QueueTypes'  BY DEF Typed, QueueTypes
<1>2. UNCHANGED <<epoch_, flush_pending, closed, late, buffered, flush, flush_epoch, close>>
        => ControlTypes'
  BY DEF Typed, ControlTypes
<1>3. UNCHANGED decodeVars => DecodeTypes'  BY DEF Typed, DecodeTypes, decodeVars
<1>4. UNCHANGED inferVars => InferTypes'  BY DEF Typed, InferTypes, inferVars
<1>5. UNCHANGED finishVars => FinishTypes'  BY DEF Typed, FinishTypes, finishVars
<1>6. UNCHANGED sessionVars => SessionTypes'  BY DEF Typed, SessionTypes, sessionVars
<1> QED  BY <1>1, <1>2, <1>3, <1>4, <1>5, <1>6

(* An item that a stage takes from its queue.                              *)
LEMMA Taken ==
  ASSUME Typed, NEW q \in QueueName, queue[q] # <<>>, queue' = [queue EXCEPT ![q] = Tail(@)]
  PROVE  QueueTypes' /\ Head(queue[q]) \in Item
BY QueueOps DEF Typed

(* What pl-decode does.                                                    *)
LEMMA DecodeTyped ==
  ASSUME Typed, DecodeStep, UNCHANGED sessionVars
  PROVE  Typed'
<1> USE DEF Typed
<1> DEFINE x == Head(queue["in"])
<1>1. "in" \in QueueName /\ "dec" \in QueueName  BY DEF QueueName
<1>2. SessionTypes'  BY Unwritten
<1>3. ASSUME NEW kind, DecodeGet(kind)
      PROVE  /\ QueueTypes' /\ x \in Item /\ x.kind = kind
             /\ decode = "get" /\ decoded = <<>>
  <2>1. queue["in"] # <<>> /\ queue' = [queue EXCEPT !["in"] = Tail(@)] /\ x.kind = kind
        /\ decode = "get"
    BY <1>3 DEF DecodeGet
  <2>2. QueueTypes' /\ x \in Item  BY <1>1, <2>1, Taken
  <2> QED  BY <2>1, <2>2 DEF DecodeTypes
<1>4. ASSUME NEW y \in Item
      PROVE  /\ <<y>> \in Seq(Item) /\ <<y>> # <<>>
             /\ (\A i \in DOMAIN <<y>> : <<y>>[i].kind = "stop" => <<y>> = <<Stop>>)
                  <=> (y.kind = "stop" => y = Stop)
  <2>1. DOMAIN <<y>> = {1} /\ <<y>>[1] = y  OBVIOUS
  <2>2. Head(<<y>>) = y /\ Head(<<Stop>>) = Stop  OBVIOUS
  <2> QED  BY <2>1, <2>2, OneMore
<1>5. ASSUME NEW p \in Seq(Position), NEW e \in Epoch, NEW more \in Seq(Item),
             PutDecoded(p, e, more), \A i \in DOMAIN more : more[i].kind # "stop",
             packet' \in Item, decoder' \in Seq(Position), Len(decoder') <= Delay
      PROVE  DecodeTypes'
  <2>1. discard \in 0..Length  BY DEF DecodeTypes
  <2>2. /\ discard' \in 0..Length
        /\ decode' = IF decoded' = <<>> THEN "get" ELSE "put"
        /\ \E frames \in Seq(Item) : Frames(frames, e) /\ decoded' = frames ++ more
    BY <1>5, <2>1, Decoding
  <2>3. PICK frames \in Seq(Item) : Frames(frames, e) /\ decoded' = frames ++ more  BY <2>2
  <2>4. decoded' \in Seq(Item)  BY <2>3, Together
  <2>5. \A i \in DOMAIN decoded' : decoded'[i].kind # "stop"
    <3>1. \A i \in DOMAIN (frames ++ more) :
            \/ i \in DOMAIN frames /\ (frames ++ more)[i] = frames[i]
            \/ i - Len(frames) \in DOMAIN more /\ (frames ++ more)[i] = more[i - Len(frames)]
      BY Together DEF ++
    <3> QED  BY <1>5, <2>3, <3>1 DEF Frames
  <2> QED  BY <1>5, <2>2, <2>4, <2>5 DEF DecodeTypes
<1>6. ASSUME NEW y \in Item, y.kind = "video", DecodePacket(y)
      PROVE  DecodeTypes'
  <2> DEFINE held == Append(decoder, y.pos)
  <2>1. y.pos \in Position /\ y.epoch \in Epoch /\ Stop \in Item  BY <1>6, Items
  <2>2. held \in Seq(Position)  BY <2>1 DEF DecodeTypes
  <2>3. Released(held) \in Seq(Position) /\ Kept(held) \in Seq(Position) /\ Len(Kept(held)) <= Delay
    BY <2>2, Codec
  <2>4. decoder' = Kept(held) /\ PutDecoded(Released(held), y.epoch, <<>>) /\ packet' = Stop
    BY <1>6 DEF DecodePacket
  <2>5. <<>> \in Seq(Item) /\ DOMAIN <<>> = {}  OBVIOUS
  <2> QED  BY <1>5, <2>1, <2>3, <2>4, <2>5
<1>7. ASSUME DecodeDrop PROVE QueueTypes' /\ DecodeTypes' /\ ControlTypes' /\ InferTypes' /\ FinishTypes'
  <2>1. /\ QueueTypes' /\ UNCHANGED decodeVars
        /\ UNCHANGED <<epoch_, flush_pending, closed, late, buffered, flush, flush_epoch, close>>
        /\ UNCHANGED <<inferVars, finishVars>>
    BY <1>3, <1>7 DEF DecodeDrop, flushVars
  <2> QED  BY <2>1, Unwritten
<1>8. ASSUME DecodeAux \/ DecodeStop \/ DecodeFlush
      PROVE  QueueTypes' /\ DecodeTypes' /\ ControlTypes' /\ InferTypes' /\ FinishTypes'
  <2>1. \E kind \in {"aux", "stop", "flush"} : DecodeGet(kind)
    BY <1>8 DEF DecodeAux, DecodeStop, DecodeFlush
  <2>2. QueueTypes' /\ x \in Item  BY <1>3, <2>1
  <2>3. DecodeTypes'
    <3>1. /\ decode' = "put" /\ packet' = packet
          /\ (decoded' = <<x>> /\ x.kind # "stop") \/ decoded' = <<Stop>>
          /\ decoder' \in {decoder, <<>>} /\ discard' \in {discard, Target[x.epoch]}
      BY <1>3, <1>8 DEF DecodeAux, DecodeStop, DecodeFlush
    <3>2. Target[x.epoch] \in 0..Length
      <4>1. x.epoch \in Epoch  BY <2>2, Items
      <4>2. Target[x.epoch] \in Position  BY <4>1, Bounds
      <4> QED  BY <4>2, Bounds DEF Position
    <3>3. <<>> \in Seq(Position) /\ Len(<<>>) <= Delay  BY Bounds
    <3>4. /\ decoded' \in Seq(Item) /\ decoded' # <<>>
          /\ \A i \in DOMAIN decoded' : decoded'[i].kind = "stop" => decoded' = <<Stop>>
      <4>1. CASE decoded' = <<x>> /\ x.kind # "stop"  BY <1>4, <2>2, <4>1
      <4>2. CASE decoded' = <<Stop>>  BY <1>4, <4>2, Items
      <4> QED  BY <3>1, <4>1, <4>2
    <3> QED  BY <3>1, <3>2, <3>3, <3>4 DEF DecodeTypes
  <2>4. ControlTypes'
    BY <1>8 DEF DecodeAux, DecodeStop, DecodeFlush, ControlTypes, flushVars
  <2>5. UNCHANGED <<inferVars, finishVars>>
    BY <1>8 DEF DecodeAux, DecodeStop, DecodeFlush
  <2> QED  BY <2>2, <2>3, <2>4, <2>5, Unwritten
<1>9. ASSUME DecodeEos
      PROVE  QueueTypes' /\ DecodeTypes' /\ ControlTypes' /\ InferTypes' /\ FinishTypes'
  <2>1. QueueTypes' /\ x \in Item /\ x.kind = "eos"  BY <1>3, <1>9 DEF DecodeEos
  <2>2. /\ decoder' = <<>> /\ PutDecoded(decoder, x.epoch, <<x>>) /\ packet' = packet
        /\ UNCHANGED <<epoch_, flush_pending, closed, late, buffered, flush, flush_epoch, close>>
        /\ UNCHANGED <<inferVars, finishVars>>
    BY <1>9 DEF DecodeEos, flushVars
  <2>3. <<>> \in Seq(Position) /\ Len(<<>>) <= Delay  BY Bounds
  <2>4. \A i \in DOMAIN <<x>> : <<x>>[i].kind # "stop"
    <3>1. DOMAIN <<x>> = {1} /\ <<x>>[1] = x  OBVIOUS
    <3> QED  BY <2>1, <3>1
  <2>5. x.epoch \in Epoch /\ <<x>> \in Seq(Item)  BY <1>4, <2>1, Items
  <2>6. DecodeTypes'
    <3>1. packet' \in Item /\ decoder \in Seq(Position)  BY <2>2 DEF DecodeTypes
    <3> HIDE DEF x
    <3> QED  BY <1>5, <2>2, <2>3, <2>4, <2>5, <3>1
  <2> QED  BY <2>1, <2>2, <2>6, Unwritten
<1>10. ASSUME DecodeVideo
       PROVE  QueueTypes' /\ DecodeTypes' /\ ControlTypes' /\ InferTypes' /\ FinishTypes'
  <2>1. QueueTypes' /\ x \in Item /\ x.kind = "video" /\ decoded = <<>>
    BY <1>3, <1>10 DEF DecodeVideo
  <2>2. /\ UNCHANGED <<epoch_, flush_pending, closed, late, buffered, flush, flush_epoch, close>>
        /\ UNCHANGED <<inferVars, finishVars>>
    BY <1>10 DEF DecodeVideo, flushVars
  <2>3. DecodeTypes'
    <3>1. CASE buffered
      <4>1. /\ decode' = "pace" /\ packet' = x /\ UNCHANGED <<decoder, discard, decoded>>
        BY <1>10, <3>1 DEF DecodeVideo
      <4> HIDE DEF x
      <4> QED  BY <2>1, <4>1 DEF DecodeTypes
    <3>2. CASE ~buffered
      <4>1. DecodePacket(x)  BY <1>10, <3>2 DEF DecodeVideo
      <4> QED  BY <1>6, <2>1, <4>1
    <3> QED  BY <3>1, <3>2
  <2> QED  BY <2>1, <2>2, <2>3, Unwritten
<1>11. ASSUME DecodePaced
       PROVE  QueueTypes' /\ DecodeTypes' /\ ControlTypes' /\ InferTypes' /\ FinishTypes'
  <2>1. packet \in Item /\ packet.kind = "video" /\ DecodePacket(packet)
    BY <1>11 DEF DecodePaced, DecodeTypes
  <2>2. /\ UNCHANGED <<epoch_, flush_pending, closed, late, buffered, flush, flush_epoch, close>>
        /\ UNCHANGED <<queue, inferVars, finishVars>>
    BY <1>11 DEF DecodePaced, flushVars, queueVars
  <2> QED  BY <1>6, <2>1, <2>2, Unwritten
<1>12. ASSUME DecodePut
       PROVE  QueueTypes' /\ DecodeTypes' /\ ControlTypes' /\ InferTypes' /\ FinishTypes'
  <2> DEFINE h == Head(decoded)
  <2>1. /\ decode = "put" /\ PassOn("decode", "dec", h) /\ decoded' = Tail(decoded)
        /\ decode' = IF h = Stop THEN "leave" ELSE IF Tail(decoded) = <<>> THEN "get" ELSE "put"
        /\ UNCHANGED <<epoch_, flush_pending, closed, buffered, flush, flush_epoch, close>>
        /\ UNCHANGED <<packet, decoder, discard, inferVars, finishVars>>
    BY <1>12 DEF DecodePut, flushVars
  <2>2. decoded \in Seq(Item) /\ decoded # <<>>  BY <2>1 DEF DecodeTypes
  <2>3. /\ h \in Item /\ Tail(decoded) \in Seq(Item) /\ h = decoded[1] /\ 1 \in DOMAIN decoded
        /\ \A i \in DOMAIN Tail(decoded) : Tail(decoded)[i] = decoded[i + 1] /\ i + 1 \in DOMAIN decoded
    BY <2>2
  <2>4. QueueTypes'
    <3>1. (Room("dec") /\ Put("dec", h)) \/ UNCHANGED queue
      BY <2>1 DEF PassOn, SafePut
    <3> HIDE DEF h
    <3> QED  BY <1>1, <2>3, <3>1, QueueOps
  <2>5. ControlTypes'  BY <2>1 DEF PassOn, ControlTypes
  <2>6. DecodeTypes'
    <3>1. CASE h = Stop
      <4>1. decoded = <<Stop>>  BY <2>3, <3>1, Items DEF DecodeTypes
      <4>2. Tail(decoded) = <<>>  BY <4>1
      <4>3. decoded' = <<>> /\ decode' = "leave"  BY <2>1, <3>1, <4>2
      <4> QED  BY <2>1, <2>3, <4>2, <4>3 DEF DecodeTypes
    <3>2. CASE h # Stop
      <4>1. \A i \in DOMAIN decoded : decoded[i].kind # "stop"
        <5>1. decoded # <<Stop>>  BY <2>3, <3>2
        <5> QED  BY <5>1 DEF DecodeTypes
      <4>2. \A i \in DOMAIN Tail(decoded) : Tail(decoded)[i].kind # "stop"  BY <2>3, <4>1
      <4>3. decode' = IF Tail(decoded) = <<>> THEN "get" ELSE "put"  BY <2>1, <3>2
      <4> HIDE DEF h
      <4> QED  BY <2>1, <2>3, <4>2, <4>3 DEF DecodeTypes
    <3> QED  BY <3>1, <3>2
  <2> QED  BY <2>1, <2>4, <2>5, <2>6, Unwritten
<1>13. ASSUME DecodeLeave
       PROVE  QueueTypes' /\ DecodeTypes' /\ ControlTypes' /\ InferTypes' /\ FinishTypes'
  <2>1. /\ decode = "leave" /\ decode' = "exit" /\ LastStop("dec")
        /\ UNCHANGED <<epoch_, flush_pending, closed, late, buffered, flush, flush_epoch, close>>
        /\ UNCHANGED <<packet, decoder, discard, decoded, inferVars, finishVars>>
    BY <1>13 DEF DecodeLeave, flushVars
  <2>2. QueueTypes'
    <3>1. (Room("dec") /\ Put("dec", Stop)) \/ UNCHANGED queue  BY <2>1 DEF LastStop
    <3> QED  BY <1>1, <3>1, QueueOps, Items
  <2>3. DecodeTypes'  BY <2>1 DEF DecodeTypes
  <2> QED  BY <2>1, <2>2, <2>3, Unwritten
<1> HIDE DEF Typed
<1>14. QueueTypes' /\ DecodeTypes' /\ ControlTypes' /\ InferTypes' /\ FinishTypes'
  BY <1>7, <1>8, <1>9, <1>10, <1>11, <1>12, <1>13 DEF DecodeStep
<1> QED  BY <1>2, <1>14 DEF Typed

(* What pl-infer does.                                                     *)
LEMMA InferTyped ==
  ASSUME Typed, InferStep, UNCHANGED sessionVars
  PROVE  Typed'
<1>1. "dec" \in QueueName /\ "up" \in QueueName  BY DEF QueueName
<1>2. QueueTypes /\ InferTypes /\ ControlTypes  BY DEF Typed
<1>3. SessionTypes'  BY Unwritten
<1>4. ASSUME InferGet
      PROVE  QueueTypes' /\ DecodeTypes' /\ ControlTypes' /\ InferTypes' /\ FinishTypes'
  <2>1. queue["dec"] # <<>> /\ queue' = [queue EXCEPT !["dec"] = Tail(@)]  BY <1>4 DEF InferGet
  <2>2. QueueTypes' /\ Head(queue["dec"]) \in Item  BY <1>1, <2>1, Taken
  <2>3. /\ UNCHANGED inferVars \/ (infer' = "put" /\ inferred' = Head(queue["dec"]))
        /\ UNCHANGED <<epoch_, flush_pending, closed, late, buffered, flush, flush_epoch, close>>
        /\ UNCHANGED <<decodeVars, finishVars>>
    BY <1>4 DEF InferGet, flushVars
  <2>4. InferTypes'  BY <1>2, <2>2, <2>3 DEF InferTypes, inferVars
  <2> QED  BY <2>2, <2>3, <2>4, Unwritten
<1>5. ASSUME InferPut
      PROVE  QueueTypes' /\ DecodeTypes' /\ ControlTypes' /\ InferTypes' /\ FinishTypes'
  <2>1. /\ PassOn("infer", "up", inferred) /\ inferred' = Stop
        /\ infer' = IF inferred = Stop THEN "leave" ELSE "get"
        /\ UNCHANGED <<epoch_, flush_pending, closed, buffered, flush, flush_epoch, close>>
        /\ UNCHANGED <<decodeVars, finishVars>>
    BY <1>5 DEF InferPut, flushVars
  <2>2. (Room("up") /\ Put("up", inferred)) \/ UNCHANGED queue  BY <2>1 DEF PassOn, SafePut
  <2>3. QueueTypes'  BY <1>1, <1>2, <2>2, QueueOps DEF InferTypes
  <2>4. ControlTypes'  BY <1>2, <2>1 DEF PassOn, ControlTypes
  <2>5. InferTypes'  BY <2>1, Items DEF InferTypes
  <2> QED  BY <2>1, <2>3, <2>4, <2>5, Unwritten
<1>6. ASSUME InferLeave
      PROVE  QueueTypes' /\ DecodeTypes' /\ ControlTypes' /\ InferTypes' /\ FinishTypes'
  <2>1. /\ infer' = "exit" /\ inferred' = inferred /\ LastStop("up")
        /\ UNCHANGED <<epoch_, flush_pending, closed, late, buffered, flush, flush_epoch, close>>
        /\ UNCHANGED <<decodeVars, finishVars>>
    BY <1>6 DEF InferLeave, flushVars
  <2>2. QueueTypes'
    <3>1. (Room("up") /\ Put("up", Stop)) \/ UNCHANGED queue  BY <2>1 DEF LastStop
    <3> QED  BY <1>1, <1>2, <3>1, QueueOps, Items
  <2>3. InferTypes'  BY <1>2, <2>1 DEF InferTypes
  <2> QED  BY <2>1, <2>2, <2>3, Unwritten
<1> QED  BY <1>3, <1>4, <1>5, <1>6 DEF InferStep, Typed

(* What pl-finish does.                                                    *)
LEMMA FinishTyped ==
  ASSUME Typed, FinishStep, UNCHANGED sessionVars
  PROVE  Typed'
<1> DEFINE x == Head(queue["up"])
<1>1. "up" \in QueueName  BY DEF QueueName
<1>2. FinishTypes  BY DEF Typed
<1>3. SessionTypes'  BY Unwritten
<1>4. ASSUME NEW kind, FinishGet(kind)
      PROVE  QueueTypes' /\ x \in Item /\ x.kind = kind
  <2>1. queue["up"] # <<>> /\ queue' = [queue EXCEPT !["up"] = Tail(@)] /\ x.kind = kind
    BY <1>4 DEF FinishGet
  <2> QED  BY <1>1, <2>1, Taken
<1>5. <<>> \in Seq(Position) /\ Len(<<>>) <= Delay /\ <<>> \in Seq(0..Trailer) /\ <<>> \in Seq(Chunk)
  <2>1. \A S : <<>> \in Seq(S)  OBVIOUS
  <2>2. Len(<<>>) = 0 /\ Delay \in Nat  BY Bounds
  <2> QED  BY <2>1, <2>2
<1>6. ASSUME NEW p \in Position
      PROVE  /\ Append(encoder, p) \in Seq(Position) /\ <<p>> \in Seq(0..Trailer)
  BY <1>2, <1>6, Bounds DEF FinishTypes
<1>7. ASSUME NEW s \in Seq(Position)
      PROVE  s \in Seq(0..Trailer)
  <2>1. Position \subseteq 0..Trailer  BY Bounds
  <2>2. \A S, T : S \subseteq T /\ s \in Seq(S) => s \in Seq(T)  OBVIOUS
  <2> QED  BY <2>1, <2>2
<1>8. ASSUME NEW e \in Epoch, NEW data \in Seq(0..Trailer), NEW more \in Seq(Chunk), Ship(e, data, more)
      PROVE  /\ need_discontinuity' \in BOOLEAN /\ sink' \in Seq(0..Trailer) /\ chunks' \in Seq(Chunk)
             /\ finish' \in {"get", "emit"} /\ (finish' = "emit" => chunks' # <<>>)
  BY <1>2, <1>5, <1>8, Shipping
<1>9. ASSUME NEW data \in Seq(0..Trailer) PROVE Muxed(data) \in Seq(0..Trailer)
  BY <1>2, Muxing
<1>10. ASSUME FinishDrop \/ FinishStop \/ FinishFlush PROVE QueueTypes' /\ FinishTypes'
  <2>1. \E kind \in {"frame", "aux", "eos", "stop", "flush"} : FinishGet(kind)
    BY <1>10 DEF FinishDrop, FinishStop, FinishFlush
  <2>2. QueueTypes'  BY <1>4, <2>1
  <2>3. /\ finish' \in {finish, "exit"} /\ encoder' \in {encoder, <<>>} /\ header' \in {header, FALSE}
        /\ need_discontinuity' \in {need_discontinuity, TRUE} /\ sink' \in {sink, <<>>}
        /\ chunks' = chunks
    BY <1>10 DEF FinishDrop, FinishStop, FinishFlush, finishVars
  <2>4. FinishTypes'  BY <1>2, <1>5, <2>3 DEF FinishTypes
  <2> QED  BY <2>2, <2>4
<1>11. ASSUME FinishAux PROVE QueueTypes' /\ FinishTypes'
  <2>1. QueueTypes' /\ x \in Item /\ x.kind = "aux"  BY <1>4, <1>11 DEF FinishAux
  <2>2. x.pos \in Position /\ x.epoch \in Epoch  BY <2>1, Items
  <2> DEFINE data == Muxed(<<x.pos>>)
  <2>3. data \in Seq(0..Trailer)  BY <1>6, <1>9, <2>2
  <2>4. /\ header' = TRUE /\ encoder' = encoder
        /\ \/ sink' = data /\ UNCHANGED <<finish, need_discontinuity, chunks>>
           \/ Ship(x.epoch, data, <<>>)
    BY <1>11 DEF FinishAux
  <2> HIDE DEF data, x
  <2>5. /\ need_discontinuity' \in BOOLEAN /\ sink' \in Seq(0..Trailer) /\ chunks' \in Seq(Chunk)
        /\ finish' \in {"get", "emit", "deliver", "exit"}
        /\ finish' \in {"emit", "deliver"} => chunks' # <<>>
    BY <1>2, <1>5, <1>8, <2>2, <2>3, <2>4 DEF FinishTypes
  <2> QED  BY <1>2, <2>1, <2>4, <2>5 DEF FinishTypes
<1>12. ASSUME FinishFrame PROVE QueueTypes' /\ FinishTypes'
  <2>1. QueueTypes' /\ x \in Item /\ x.kind = "frame"  BY <1>4, <1>12 DEF FinishFrame
  <2>2. x.pos \in Position /\ x.epoch \in Epoch  BY <2>1, Items
  <2> DEFINE held == Append(encoder, x.pos)
             data == Muxed(Released(held))
  <2>3. held \in Seq(Position)  BY <1>6, <2>2
  <2>4. Released(held) \in Seq(Position) /\ Kept(held) \in Seq(Position) /\ Len(Kept(held)) <= Delay
    BY <2>3, Codec
  <2>5. data \in Seq(0..Trailer)
    <3> HIDE DEF held
    <3> QED  BY <1>7, <1>9, <2>4
  <2>6. /\ encoder' = Kept(held) /\ header' = (header \/ Released(held) # <<>>)
        /\ Ship(x.epoch, data, <<>>)
    BY <1>12 DEF FinishFrame
  <2> HIDE DEF data, held, x
  <2>7. /\ need_discontinuity' \in BOOLEAN /\ sink' \in Seq(0..Trailer) /\ chunks' \in Seq(Chunk)
        /\ finish' \in {"get", "emit"} /\ (finish' = "emit" => chunks' # <<>>)
    BY <1>5, <1>8, <2>2, <2>5, <2>6
  <2>8. header' \in BOOLEAN  BY <2>6
  <2> QED  BY <2>1, <2>4, <2>6, <2>7, <2>8 DEF FinishTypes
<1>13. ASSUME FinishEos PROVE QueueTypes' /\ FinishTypes'
  <2>1. QueueTypes' /\ x \in Item /\ x.kind = "eos"  BY <1>4, <1>13 DEF FinishEos
  <2>2. x.epoch \in Epoch  BY <2>1, Items
  <2> DEFINE data == Muxed(Append(encoder, Trailer))
             more == <<[epoch |-> x.epoch, data |-> <<>>, discontinuity |-> FALSE, eos |-> TRUE]>>
  <2>3. data \in Seq(0..Trailer)
    <3>1. encoder \in Seq(0..Trailer) /\ Trailer \in 0..Trailer  BY <1>2, <1>7, Bounds DEF FinishTypes
    <3>2. Append(encoder, Trailer) \in Seq(0..Trailer)  BY <3>1
    <3> QED  BY <1>9, <3>2
  <2>4. more \in Seq(Chunk)
    <3>1. [epoch |-> x.epoch, data |-> <<>>, discontinuity |-> FALSE, eos |-> TRUE] \in Chunk
      BY <1>5, <2>2 DEF Chunk
    <3> QED  BY <3>1, OneMore
  <2>5. encoder' = <<>> /\ header' = FALSE /\ Ship(x.epoch, data, more)
    BY <1>13 DEF FinishEos
  <2> HIDE DEF data, more, x
  <2>6. /\ need_discontinuity' \in BOOLEAN /\ sink' \in Seq(0..Trailer) /\ chunks' \in Seq(Chunk)
        /\ finish' \in {"get", "emit"} /\ (finish' = "emit" => chunks' # <<>>)
    BY <1>8, <2>2, <2>3, <2>4, <2>5
  <2> QED  BY <1>5, <2>1, <2>5, <2>6 DEF FinishTypes
<1>14. QueueTypes' /\ FinishTypes'  BY <1>10, <1>11, <1>12, <1>13 DEF FinishStep
<1>15. /\ UNCHANGED <<epoch_, flush_pending, closed, late, buffered, flush, flush_epoch, close>>
       /\ UNCHANGED <<decodeVars, inferVars>>
  BY DEF FinishStep, FinishDrop, FinishStop, FinishFlush, FinishAux, FinishFrame, FinishEos, flushVars
<1> QED  BY <1>3, <1>14, <1>15, Unwritten DEF Typed

(* A stage that raises, a flush and a close.                               *)
LEMMA PipelineTyped ==
  ASSUME Typed, FailStep \/ FlushStep \/ CloseStep, UNCHANGED sessionVars
  PROVE  Typed'
<1>1. QueueTypes /\ ControlTypes /\ DecodeTypes /\ InferTypes /\ FinishTypes /\ SessionTypes
  BY DEF Typed
<1>2. SessionTypes'  BY Unwritten
<1>3. CASE FailStep
  <2>1. UNCHANGED queue /\ UNCHANGED <<epoch_, flush_pending, closed, late, buffered, flush, flush_epoch, close>>
    BY <1>3 DEF FailStep, DecodeFails, InferFails, FinishFails, queueVars, flushVars
  <2>2. DecodeTypes'
    <3>1. CASE UNCHANGED decodeVars  BY <3>1, Unwritten
    <3>2. CASE DecodeFails
      <4>1. decode' = "leave" /\ decoded' = <<>> /\ UNCHANGED <<packet, decoder, discard>>
        BY <3>2 DEF DecodeFails
      <4>2. <<>> \in Seq(Item) /\ DOMAIN <<>> = {}  OBVIOUS
      <4> QED  BY <1>1, <4>1, <4>2 DEF DecodeTypes
    <3> QED  BY <1>3, <3>1, <3>2 DEF FailStep, InferFails, FinishFails
  <2>3. InferTypes'
    BY <1>1, <1>3, Items DEF FailStep, DecodeFails, InferFails, FinishFails, InferTypes, inferVars
  <2>4. FinishTypes'
    <3>1. CASE UNCHANGED finishVars  BY <3>1, Unwritten
    <3>2. CASE FinishFails
      <4>1. finish' = "exit" /\ chunks' = <<>> /\ UNCHANGED <<encoder, header, sink, need_discontinuity>>
        BY <3>2 DEF FinishFails
      <4>2. <<>> \in Seq(Chunk)  OBVIOUS
      <4> QED  BY <1>1, <4>1, <4>2 DEF FinishTypes
    <3> QED  BY <1>3, <3>1, <3>2 DEF FailStep, DecodeFails, InferFails
  <2> QED  BY <1>2, <2>1, <2>2, <2>3, <2>4, Unwritten DEF Typed
<1>4. CASE FlushStep
  <2>1. UNCHANGED <<decodeVars, inferVars, finishVars>>
    BY <1>4 DEF FlushStep, FlushSignal, FlushEpoch, FlushDrain, FlushPut
  <2>2. ControlTypes'
    BY <1>1, <1>4 DEF FlushStep, FlushSignal, FlushEpoch, FlushDrain, FlushPut, ControlTypes
  <2>3. QueueTypes'
    <3> DEFINE mark == [kind |-> "flush", epoch |-> flush_epoch, pos |-> 0]
    <3>1. mark \in Item /\ "in" \in QueueName  BY <1>1, Items DEF ControlTypes, QueueName
    <3>2. \/ UNCHANGED queue
          \/ queue' = [queue EXCEPT !["in"] = <<>>]
          \/ Room("in") /\ Put("in", mark)
      BY <1>4 DEF FlushStep, FlushSignal, FlushEpoch, FlushDrain, FlushPut
    <3> HIDE DEF mark
    <3> QED  BY <1>1, <3>1, <3>2, QueueOps
  <2> QED  BY <1>2, <2>1, <2>2, <2>3, Unwritten DEF Typed
<1>5. CASE CloseStep
  <2>1. UNCHANGED <<decodeVars, inferVars, finishVars>>
    BY <1>5 DEF CloseStep, CloseBegin, CloseJoin, CloseDrain, CloseStop
  <2>2. ControlTypes'
    <3>1. CASE CloseBegin
      <4>1. late' \subseteq {"decode", "infer"}  BY <3>1 DEF CloseBegin
      <4> QED  BY <1>1, <3>1, <4>1 DEF CloseBegin, ControlTypes, flushVars
    <3>2. CASE CloseJoin  BY <1>1, <3>2 DEF CloseJoin, ControlTypes, flushVars, queueVars
    <3>3. ASSUME NEW q \in QueueName, CloseDrain(q) \/ CloseStop(q) PROVE ControlTypes'
      <4>1. close' \in {"stop_in", "stop_dec", "stop_up", "drain_dec", "drain_up", "join", "raised"}
        BY <3>3 DEF CloseDrain, CloseStop, Stopping, NextQueue, QueueName
      <4>2. UNCHANGED <<epoch_, flush_pending, closed, late, buffered, flush, flush_epoch>>
        BY <3>3 DEF CloseDrain, CloseStop, flushVars
      <4> QED  BY <1>1, <4>1, <4>2 DEF ControlTypes
    <3> QED  BY <1>5, <3>1, <3>2, <3>3 DEF CloseStep
  <2>3. QueueTypes'
    <3>1. ASSUME NEW q \in QueueName, CloseDrain(q) \/ CloseStop(q) PROVE QueueTypes'
      <4>1. \/ UNCHANGED queue
            \/ queue' = [queue EXCEPT ![q] = <<>>]
            \/ Room(q) /\ Put(q, Stop)
        <5>1. CloseDrain(q) => queue' = [queue EXCEPT ![q] = <<>>]  BY DEF CloseDrain
        <5>2. CloseStop(q) => (Room(q) /\ Put(q, Stop)) \/ UNCHANGED queue  BY DEF CloseStop
        <5> QED  BY <3>1, <5>1, <5>2
      <4> QED  BY <1>1, <4>1, QueueOps, Items
    <3>2. CloseBegin \/ CloseJoin => UNCHANGED queue  BY DEF CloseBegin, CloseJoin, queueVars
    <3> QED  BY <1>5, <3>1, <3>2, Unwritten DEF CloseStep
  <2> QED  BY <1>2, <2>1, <2>2, <2>3, Unwritten DEF Typed
<1> QED  BY <1>3, <1>4, <1>5

(* What the source task, the feeds and the downlink do.                    *)
LEMMA DownlinkTyped ==
  ASSUME Typed, SourceStep \/ (\E f \in feeds : Feed(f)) \/ EmitStep \/ RunDownlink
  PROVE  Typed'
<1>1. QueueTypes /\ ControlTypes /\ DecodeTypes /\ InferTypes /\ FinishTypes /\ SessionTypes
  BY DEF Typed
<1> DEFINE Sources == [on : BOOLEAN, epoch : Epoch, next : 1..Length + 2]
           Streams == [epoch : Epoch, data : Seq(0..Trailer), eos : BOOLEAN]
<1>2. CASE SourceFeed
  <2>1. PICK p \in Merged(source.epoch) \cup {Trailer} :
          /\ feeds' = feeds \cup {ReadItem(source.epoch, p)}
          /\ source' = [source EXCEPT !.next = p + 1]
    BY <1>2 DEF SourceFeed
  <2>2. p \in 1..Length + 1 /\ (p # Trailer => p \in Position)
    BY <2>1, Bounds DEF Merged, Position
  <2>3. source \in Sources /\ source.epoch \in Epoch  BY <1>1 DEF SessionTypes
  <2>4. p + 1 \in 1..Length + 2  BY <2>2, Bounds
  <2>5. source' \in Sources  BY <2>1, <2>3, <2>4
  <2>6. ReadItem(source.epoch, p) \in Item  BY <2>2, <2>3, Items DEF ReadItem
  <2>7. feeds' \subseteq Item  BY <1>1, <2>1, <2>6 DEF SessionTypes
  <2>8. UNCHANGED <<epoch, seek, down_q, client, stream>> /\ UNCHANGED pipelineVars
    BY <1>2 DEF SourceFeed
  <2>9. SessionTypes'
    <3> HIDE DEF Sources
    <3>1. SessionTypes /\ source' \in Sources /\ feeds' \subseteq Item
          /\ UNCHANGED <<epoch, seek, down_q, client, stream>>
      BY <1>1, <2>5, <2>7, <2>8
    <3> QED  BY <3>1 DEF SessionTypes, Sources
  <2> QED  BY <2>8, <2>9, Unwritten DEF Typed, pipelineVars, queueVars, flushVars
<1>3. CASE SourceEnd
  <2>1. source' = [source EXCEPT !.on = FALSE]
        /\ UNCHANGED <<epoch, seek, feeds, down_q, client, stream>> /\ UNCHANGED pipelineVars
    BY <1>3 DEF SourceEnd
  <2>2. SessionTypes'  BY <1>1, <2>1 DEF SessionTypes
  <2> QED  BY <2>1, <2>2, Unwritten DEF Typed, pipelineVars, queueVars, flushVars
<1>4. ASSUME NEW f \in feeds, Feed(f) PROVE Typed'
  <2>1. /\ (Room("in") /\ Put("in", f)) \/ UNCHANGED queue
        /\ feeds' = feeds \ {f}
        /\ UNCHANGED <<epoch_, flush_pending, closed, late, buffered, flush, flush_epoch, close>>
        /\ UNCHANGED <<decodeVars, inferVars, finishVars>>
        /\ UNCHANGED <<epoch, seek, source, down_q, client, stream>>
    BY <1>4 DEF Feed, flushVars
  <2>2. f \in Item /\ "in" \in QueueName  BY <1>1 DEF SessionTypes, QueueName
  <2>3. QueueTypes'  BY <1>1, <2>1, <2>2, QueueOps
  <2>4. SessionTypes'  BY <1>1, <2>1 DEF SessionTypes
  <2> QED  BY <2>1, <2>3, <2>4, Unwritten DEF Typed
<1>5. ASSUME EmitStep PROVE Typed'
  <2>1. finish \in {"emit", "deliver"}
        /\ UNCHANGED <<queueVars, buffered, decodeVars, inferVars, encoder, header, sink,
                       need_discontinuity, flushVars, close, epoch, seek, source, feeds, client, stream>>
    BY <1>5 DEF EmitStep, EmitCheck, EmitDeliver, sessionVars
  <2>2. chunks \in Seq(Chunk) /\ chunks # <<>>  BY <1>1, <2>1 DEF FinishTypes
  <2>3. Head(chunks) \in Chunk /\ Tail(chunks) \in Seq(Chunk)  BY <2>2, Members
  <2>4. \/ NextChunk
        \/ chunks' = chunks /\ finish' = "deliver"
    BY <1>5 DEF EmitStep, EmitCheck, EmitDeliver
  <2>5. FinishTypes'
    <3>1. chunks' \in Seq(Chunk) /\ finish' \in {"get", "emit", "deliver"}
          /\ (finish' \in {"emit", "deliver"} => chunks' # <<>>)
      BY <2>2, <2>3, <2>4 DEF NextChunk
    <3> QED  BY <1>1, <2>1, <3>1 DEF FinishTypes
  <2>6. \/ UNCHANGED down_q
        \/ Len(down_q) < DownDepth /\ down_q' = Append(down_q, Head(chunks))
    BY <1>5 DEF EmitStep, EmitCheck, EmitDeliver, sessionVars
  <2>7. down_q' \in Seq(Chunk) /\ Len(down_q') <= DownDepth
    <3>1. down_q \in Seq(Chunk) /\ Len(down_q) <= DownDepth /\ DownDepth \in Nat
      BY <1>1, RelayAssumption DEF SessionTypes
    <3>2. Append(down_q, Head(chunks)) \in Seq(Chunk)
          /\ Len(Append(down_q, Head(chunks))) = Len(down_q) + 1 /\ Len(down_q) \in Nat
      BY <2>3, <3>1, OneMore
    <3> QED  BY <2>6, <3>1, <3>2
  <2>8. SessionTypes'  BY <1>1, <2>1, <2>7 DEF SessionTypes
  <2> QED  BY <2>1, <2>5, <2>8, Unwritten DEF Typed, queueVars, flushVars
<1>6. CASE RunDownlink
  <2> DEFINE c == Head(down_q)
  <2>1. /\ down_q # <<>> /\ down_q' = Tail(down_q)
        /\ UNCHANGED <<client, stream>> \/ Write(c)
        /\ UNCHANGED pipelineVars /\ UNCHANGED <<epoch, seek, source, feeds>>
    BY <1>6 DEF RunDownlink
  <2>2. down_q \in Seq(Chunk) /\ Len(down_q) <= DownDepth /\ client \in BOOLEAN /\ stream \in Streams
        /\ DownDepth \in Nat
    BY <1>1, RelayAssumption DEF SessionTypes
  <2>3. c \in Chunk /\ Tail(down_q) \in Seq(Chunk) /\ Len(Tail(down_q)) = Len(down_q) - 1
        /\ Len(down_q) \in Nat
    BY <2>1, <2>2, Members
  <2>4. Len(down_q') <= DownDepth /\ down_q' \in Seq(Chunk)  BY <2>1, <2>2, <2>3
  <2>5. client' \in BOOLEAN /\ stream' \in Streams
    <3>1. CASE UNCHANGED <<client, stream>>  BY <2>2, <3>1
    <3>2. CASE Write(c)
      <4> HIDE DEF c
      <4>1. c.epoch \in Epoch /\ c.eos \in BOOLEAN /\ c.data \in Seq(0..Trailer)  BY <2>3 DEF Chunk
      <4> DEFINE d == IF c.epoch = stream.epoch THEN stream.data ++ c.data ELSE c.data
      <4>2. d \in Seq(0..Trailer)
        <5>1. stream.data \in Seq(0..Trailer)  BY <2>2
        <5>2. stream.data ++ c.data \in Seq(0..Trailer)  BY <4>1, <5>1, Together
        <5> QED  BY <4>1, <5>2
      <4>3. stream' = [epoch |-> c.epoch, eos |-> c.eos, data |-> d] /\ client' \in {client, TRUE}
        BY <3>2 DEF Write, ++
      <4> HIDE DEF d
      <4>4. client' \in BOOLEAN  BY <2>2, <4>3
      <4> QED  BY <4>1, <4>2, <4>3, <4>4
    <3> QED  BY <2>1, <3>1, <3>2
  <2>6. SessionTypes'
    <3> HIDE DEF Streams, c
    <3>1. SessionTypes /\ client' \in BOOLEAN /\ stream' \in Streams /\ Len(down_q') <= DownDepth
          /\ down_q' \in Seq(Chunk) /\ UNCHANGED <<epoch, seek, source, feeds>>
      BY <1>1, <2>1, <2>4, <2>5
    <3> QED  BY <3>1 DEF SessionTypes, Streams
  <2> QED  BY <2>1, <2>6, Unwritten DEF Typed, pipelineVars, queueVars, flushVars
<1> QED  BY <1>2, <1>3, <1>4, <1>5, <1>6 DEF SourceStep

(* What the client, a seek and the announcement of a close do.             *)
LEMMA SessionTyped ==
  ASSUME Typed, ClientStep \/ SeekStep \/ SeekBegin \/ CloseAnnounce
  PROVE  Typed'
<1>1. ControlTypes /\ SessionTypes  BY DEF Typed
<1>2. UNCHANGED <<queue, decodeVars, inferVars, finishVars, stream>>
  BY DEF ClientStep, Play, BufferReport, SeekStep, SeekDrain, SeekFlush, SeekRestart, SeekAborts,
         SeekBegin, CloseAnnounce, pipelineVars, queueVars, sessionVars
<1>3. ControlTypes'
  <2>1. CASE BufferReport
    <3>1. buffered' \in BOOLEAN  BY <1>1, <2>1 DEF BufferReport, SessionTypes
    <3> QED  BY <1>1, <2>1, <3>1 DEF BufferReport, ControlTypes, queueVars, flushVars
  <2>2. CASE SeekDrain  BY <1>1, <2>2 DEF SeekDrain, ControlTypes, queueVars, flushVars
  <2>3. CASE SeekFlush  BY <1>1, <2>3 DEF SeekFlush, ControlTypes, SessionTypes, queueVars, flushVars
  <2>4. CASE CloseAnnounce  BY <1>1, <2>4 DEF CloseAnnounce, ControlTypes, queueVars, flushVars
  <2>5. CASE Play \/ SeekRestart \/ SeekAborts \/ SeekBegin
    BY <2>5, Unwritten DEF Play, SeekRestart, SeekAborts, SeekBegin, pipelineVars, queueVars, flushVars
  <2> QED  BY <2>1, <2>2, <2>3, <2>4, <2>5 DEF ClientStep, SeekStep
<1>4. SessionTypes'
  <2> DEFINE Sources == [on : BOOLEAN, epoch : Epoch, next : 1..Length + 2]
  <2>1. epoch' \in Epoch
    BY <1>1, Bounds DEF SessionTypes, ClientStep, Play, BufferReport, SeekStep, SeekDrain, SeekFlush,
       SeekRestart, SeekAborts, SeekBegin, CloseAnnounce, sessionVars, Epoch
  <2>2. seek' \in {"idle", "drain", "source", "flush", "restart"} /\ feeds' \subseteq Item
        /\ client' \in BOOLEAN
    BY <1>1 DEF SessionTypes, ClientStep, Play, BufferReport, SeekStep, SeekDrain, SeekFlush,
       SeekRestart, SeekAborts, SeekBegin, CloseAnnounce, sessionVars
  <2>3. source' \in Sources
    <3>1. \/ source' = source \/ source' = [source EXCEPT !.on = FALSE]
          \/ source' = [on |-> TRUE, epoch |-> epoch, next |-> 1]
      BY DEF ClientStep, Play, BufferReport, SeekStep, SeekDrain, SeekFlush,
         SeekRestart, SeekAborts, SeekBegin, CloseAnnounce, sessionVars
    <3>2. source \in Sources /\ epoch \in Epoch  BY <1>1 DEF SessionTypes
    <3>3. 1 \in 1..Length + 2  BY Bounds
    <3>4. source' = source => source' \in Sources  BY <3>2
    <3>5. source' = [source EXCEPT !.on = FALSE] => source' \in Sources  BY <3>2
    <3>6. source' = [on |-> TRUE, epoch |-> epoch, next |-> 1] => source' \in Sources  BY <3>2, <3>3
    <3> QED  BY <3>1, <3>4, <3>5, <3>6, Zenon
  <2>4. down_q' \in Seq(Chunk) /\ Len(down_q') <= DownDepth
    <3>1. down_q' = down_q \/ down_q' = <<>>
      BY DEF ClientStep, Play, BufferReport, SeekStep, SeekDrain, SeekFlush,
         SeekRestart, SeekAborts, SeekBegin, CloseAnnounce, sessionVars
    <3>2. <<>> \in Seq(Chunk) /\ Len(<<>>) = 0 /\ DownDepth \in Nat  BY RelayAssumption
    <3>3. down_q \in Seq(Chunk) /\ Len(down_q) <= DownDepth  BY <1>1 DEF SessionTypes
    <3>4. CASE down_q' = down_q  BY <3>3, <3>4
    <3>5. CASE down_q' = <<>>  BY <3>2, <3>5, RelayAssumption
    <3> QED  BY <3>1, <3>4, <3>5
  <2> HIDE DEF Sources
  <2>5. /\ epoch' \in Epoch /\ seek' \in {"idle", "drain", "source", "flush", "restart"}
        /\ feeds' \subseteq Item /\ client' \in BOOLEAN /\ source' \in Sources
        /\ down_q' \in Seq(Chunk) /\ Len(down_q') <= DownDepth /\ stream' = stream
    BY <1>2, <2>1, <2>2, <2>3, <2>4
  <2> QED  BY <1>1, <2>5 DEF SessionTypes, Sources
<1> QED  BY <1>2, <1>3, <1>4, Unwritten DEF Typed

(* Every step keeps the types.                                             *)
LEMMA NextTyped ==
  ASSUME Typed, [Next]_vars
  PROVE  Typed'
<1>1. CASE UNCHANGED vars
  BY <1>1, Unwritten DEF vars, pipelineVars, queueVars, flushVars, Typed
<1>2. CASE GoesOn
  BY <1>2, DecodeTyped, InferTyped, FinishTyped, PipelineTyped, DownlinkTyped, SessionTyped
     DEF GoesOn, PipelineStep
<1>3. CASE FailStep /\ UNCHANGED sessionVars  BY <1>3, PipelineTyped
<1>4. CASE SeekBegin \/ CloseAnnounce  BY <1>4, SessionTyped
<1> QED  BY <1>1, <1>2, <1>3, <1>4 DEF Next

(* It begins so.                                                           *)
LEMMA InitTyped == Init => Typed
<1> SUFFICES ASSUME Init PROVE Typed  OBVIOUS
<1>1. \A S : <<>> \in Seq(S) /\ Len(<<>>) = 0 /\ DOMAIN <<>> = {}  OBVIOUS
<1>2. QueueTypes
  <2>1. queue = [q \in QueueName |-> <<>>]  BY DEF Init, PipelineInit
  <2>2. \A q \in QueueName : Depth[q] >= 0  BY RelayAssumption DEF Depth, QueueName
  <2> QED  BY <1>1, <2>1, <2>2 DEF QueueTypes
<1>3. ControlTypes  BY Bounds DEF Init, PipelineInit, ControlTypes
<1>4. DecodeTypes
  <2>1. 0 \in 0..Length /\ 0 <= Delay  BY Bounds
  <2> QED  BY <1>1, <2>1, Items DEF Init, PipelineInit, DecodeTypes
<1>5. InferTypes  BY Items DEF Init, PipelineInit, InferTypes
<1>6. FinishTypes
  <2>1. /\ finish = "get" /\ encoder = <<>> /\ header = FALSE /\ sink = <<>>
        /\ need_discontinuity = TRUE /\ chunks = <<>>
    BY DEF Init, PipelineInit
  <2>2. 0 <= Delay  BY Bounds
  <2> QED  BY <1>1, <2>1, <2>2 DEF FinishTypes
<1>7. SessionTypes
  <2>1. 1 \in 1..Length + 2 /\ 0 <= DownDepth  BY Bounds, RelayAssumption
  <2> QED  BY <1>1, <2>1, Bounds DEF Init, SessionTypes
<1> QED  BY <1>2, <1>3, <1>4, <1>5, <1>6, <1>7 DEF Typed

-----------------------------------------------------------------------------
(* The line                                                                *)

(* What takes the place of something else in the line without harm.        *)
Stands(t, u, e, k) ==
  /\ Ordered(u, e) /\ (HasFresh(u, e) => HasFresh(t, e)) /\ (HasEnd(u, e) => HasEnd(t, e))
  /\ HasMark(u) <=> HasMark(t)
  /\ (Covered(t, e) => Covered(u, e)) /\ (UpTo(t, k) => UpTo(u, k))

SameEpochs == epoch_' = epoch_ /\ source'.epoch = source.epoch

(* Something takes the place of something else.                            *)
LEMMA LineReplaced ==
  ASSUME LineOK, SameEpochs, NEW a \in Seq(Item), NEW t \in Seq(Item), NEW u \in Seq(Item),
         NEW b \in Seq(Item), Line = a ++ (t ++ b), Line' = a ++ (u ++ b),
         Stands(t, u, epoch_, source.epoch), More' => More, Ended' => Ended, Awaited' => Awaited
  PROVE  LineOK'
<1> DEFINE e == epoch_
           k == source.epoch
<1>1. t ++ b \in Seq(Item) /\ u ++ b \in Seq(Item)  BY Together
<1>2. /\ HasFresh(t ++ b, e) <=> HasFresh(t, e) \/ HasFresh(b, e)
      /\ HasEnd(a ++ (t ++ b), e) <=> HasEnd(a, e) \/ HasEnd(t, e) \/ HasEnd(b, e)
      /\ HasMark(t ++ b) <=> HasMark(t) \/ HasMark(b)
      /\ HasMark(a ++ (t ++ b)) <=> HasMark(a) \/ HasMark(t) \/ HasMark(b)
      /\ UpTo(a ++ (t ++ b), k) <=> UpTo(a, k) /\ UpTo(t, k) /\ UpTo(b, k)
  BY <1>1, Parts
<1>3. /\ HasFresh(u ++ b, e) <=> HasFresh(u, e) \/ HasFresh(b, e)
      /\ HasEnd(a ++ (u ++ b), e) <=> HasEnd(a, e) \/ HasEnd(u, e) \/ HasEnd(b, e)
      /\ HasMark(u ++ b) <=> HasMark(u) \/ HasMark(b)
      /\ HasMark(a ++ (u ++ b)) <=> HasMark(a) \/ HasMark(u) \/ HasMark(b)
      /\ UpTo(a ++ (u ++ b), k) <=> UpTo(a, k) /\ UpTo(u, k) /\ UpTo(b, k)
  BY <1>1, Parts
<1>4. /\ Ordered(t ++ b, e) <=> /\ Ordered(t, e) /\ Ordered(b, e)
                                /\ HasMark(b) => ~HasFresh(t, e)
                                /\ HasEnd(t, e) => ~HasFresh(b, e)
      /\ Ordered(a ++ (t ++ b), e) <=> /\ Ordered(a, e) /\ Ordered(t ++ b, e)
                                       /\ HasMark(t ++ b) => ~HasFresh(a, e)
                                       /\ HasEnd(a, e) => ~HasFresh(t ++ b, e)
  BY <1>1, OrderedParts
<1>5. /\ Ordered(u ++ b, e) <=> /\ Ordered(u, e) /\ Ordered(b, e)
                                /\ HasMark(b) => ~HasFresh(u, e)
                                /\ HasEnd(u, e) => ~HasFresh(b, e)
      /\ Ordered(a ++ (u ++ b), e) <=> /\ Ordered(a, e) /\ Ordered(u ++ b, e)
                                       /\ HasMark(u ++ b) => ~HasFresh(a, e)
                                       /\ HasEnd(a, e) => ~HasFresh(u ++ b, e)
  BY <1>1, OrderedParts
<1>6. /\ Covered(t ++ b, e) <=> Covered(t, e) /\ (HasMark(t) \/ Covered(b, e))
      /\ Covered(a ++ (t ++ b), e) <=> Covered(a, e) /\ (HasMark(a) \/ Covered(t ++ b, e))
      /\ Covered(u ++ b, e) <=> Covered(u, e) /\ (HasMark(u) \/ Covered(b, e))
      /\ Covered(a ++ (u ++ b), e) <=> Covered(a, e) /\ (HasMark(a) \/ Covered(u ++ b, e))
  BY <1>1, CoveredParts
<1>7. Ordered(a ++ (u ++ b), e)
  <2>1. Ordered(a ++ (t ++ b), e)  BY DEF LineOK
  <2> QED  BY <1>2, <1>3, <1>4, <1>5, <2>1 DEF Stands
<1>8. Covered(a ++ (t ++ b), e) => Covered(a ++ (u ++ b), e)  BY <1>6 DEF Stands
<1>9. Ordered(Line', epoch_') /\ UpTo(Line', source'.epoch) /\ (HasEnd(Line', epoch_') => ~More')
  BY <1>2, <1>3, <1>7 DEF LineOK, Stands, SameEpochs
<1>10. (Ended' => Covered(Line', epoch_')) /\ (Ended' /\ (More' \/ Awaited') => HasMark(Line'))
  BY <1>2, <1>3, <1>8 DEF LineOK, Stands, SameEpochs
<1> QED  BY <1>9, <1>10 DEF LineOK

(* Nothing of the line changes.                                            *)
LEMMA LineSame ==
  ASSUME LineOK, SameEpochs, Line' = Line, More' => More, Ended' => Ended, Awaited' => Awaited
  PROVE  LineOK'
BY DEF LineOK, SameEpochs

(* The end of the line is lost, and no more is to come.                    *)
LEMMA LineCut ==
  ASSUME LineOK, SameEpochs, NEW a \in Seq(Item), NEW b \in Seq(Item), Line = a ++ b, Line' = a,
         ~More', ~Awaited', Ended' => Ended
  PROVE  LineOK'
<1>1. /\ Ordered(a ++ b, epoch_) => Ordered(a, epoch_)
      /\ UpTo(a ++ b, source.epoch) => UpTo(a, source.epoch)
      /\ Covered(a ++ b, epoch_) => Covered(a, epoch_)
  BY OrderedParts, Parts, CoveredParts
<1> QED  BY <1>1 DEF LineOK, SameEpochs

(* The head of the line is taken.                                          *)
LEMMA LineTaken ==
  ASSUME LineOK, SameEpochs, NEW x \in Item, Line' \in Seq(Item), Line = <<x>> ++ Line',
         More' => More
  PROVE  /\ Ordered(Line', epoch_') /\ UpTo(Line', source'.epoch)
         /\ HasEnd(Line', epoch_') => ~More'
         /\ Ended => ~Fresh(x, epoch_)
         /\ x.kind = "eos" /\ Fresh(x, epoch_) => Covered(Line', epoch_') /\ ~More'
<1> DEFINE b == Line'
<1>1. <<x>> \in Seq(Item) /\ b \in Seq(Item) /\ Line = <<x>> ++ b  BY OneMore
<1> HIDE DEF b
<1>2. /\ Ordered(Line, epoch_) => Ordered(b, epoch_) /\ (HasEnd(<<x>>, epoch_) => ~HasFresh(b, epoch_))
      /\ UpTo(Line, source.epoch) => UpTo(b, source.epoch)
      /\ Covered(Line, epoch_) => Covered(<<x>>, epoch_)
      /\ HasEnd(Line, epoch_) <=> HasEnd(<<x>>, epoch_) \/ HasEnd(b, epoch_)
  <2>1. Ordered(<<x>> ++ b, epoch_) =>
          Ordered(b, epoch_) /\ (HasEnd(<<x>>, epoch_) => ~HasFresh(b, epoch_))
    BY <1>1, OrderedParts
  <2>2. /\ UpTo(<<x>> ++ b, source.epoch) => UpTo(b, source.epoch)
        /\ HasEnd(<<x>> ++ b, epoch_) <=> HasEnd(<<x>>, epoch_) \/ HasEnd(b, epoch_)
    BY <1>1, Parts
  <2>3. Covered(<<x>> ++ b, epoch_) => Covered(<<x>>, epoch_)  BY <1>1, CoveredParts
  <2> QED  BY <1>1, <2>1, <2>2, <2>3
<1>3. /\ Covered(<<x>>, epoch_) <=> ~Fresh(x, epoch_)
      /\ HasEnd(<<x>>, epoch_) <=> Fresh(x, epoch_) /\ x.kind = "eos"
  BY Units
<1>4. ~HasFresh(b, epoch_) => Covered(b, epoch_)  BY NoneFresh
<1> QED  BY <1>2, <1>3, <1>4 DEF LineOK, SameEpochs, b

(* Something is added at the end of the line.                              *)
LEMMA LineAppended ==
  ASSUME NEW s \in Seq(Item), NEW x \in Item, NEW e, NEW k
  PROVE  /\ Ordered(s ++ <<x>>, e) <=> /\ Ordered(s, e)
                                       /\ x.kind = "flush" => ~HasFresh(s, e)
                                       /\ HasEnd(s, e) => ~Fresh(x, e)
         /\ UpTo(s ++ <<x>>, k) <=> UpTo(s, k) /\ (Payload(x) => x.epoch <= k)
         /\ HasEnd(s ++ <<x>>, e) <=> HasEnd(s, e) \/ (Fresh(x, e) /\ x.kind = "eos")
         /\ HasMark(s ++ <<x>>) <=> HasMark(s) \/ x.kind = "flush"
         /\ Covered(s ++ <<x>>, e) <=> Covered(s, e) /\ (HasMark(s) \/ ~Fresh(x, e))
<1>1. <<x>> \in Seq(Item)  BY OneMore
<1>2. /\ HasFresh(<<x>>, e) <=> Fresh(x, e)
      /\ HasEnd(<<x>>, e) <=> Fresh(x, e) /\ x.kind = "eos"
      /\ HasMark(<<x>>) <=> x.kind = "flush"
      /\ UpTo(<<x>>, k) <=> (Payload(x) => x.epoch <= k)
      /\ Ordered(<<x>>, e)
      /\ Covered(<<x>>, e) <=> ~Fresh(x, e)
  BY Units
<1> QED  BY <1>1, <1>2, OrderedParts, Parts, CoveredParts

(* What is older than an epoch is not fresh in it.                         *)
LEMMA Older ==
  ASSUME NEW s \in Seq(Item), NEW k \in Nat, NEW e \in Nat, UpTo(s, k), k < e
  PROVE  ~HasFresh(s, e)
<1> SUFFICES ASSUME NEW i \in DOMAIN s, Fresh(s[i], e) PROVE FALSE  BY DEF HasFresh
<1>1. s[i] \in Item  BY Members
<1>2. s[i].epoch \in Nat  BY <1>1, Items, Bounds
<1> QED  BY <1>2 DEF UpTo, Fresh

(* An item that is not of the epoch and marks nothing may go.              *)
LEMMA MayGo ==
  ASSUME NEW x \in Item, NEW e, NEW k, ~Fresh(x, e), x.kind # "flush"
  PROVE  Stands(<<x>>, <<>>, e, k)
<1>1. /\ HasMark(<<x>>) <=> x.kind = "flush"
      /\ ~HasFresh(<<>>, e) /\ ~HasMark(<<>>) /\ UpTo(<<>>, k)
  BY Units
<1>2. Ordered(<<>>, e) /\ Covered(<<>>, e) /\ ~HasEnd(<<>>, e)  BY <1>1, NoneFresh
<1> QED  BY <1>1, <1>2 DEF Stands

(* Frames stand for the packet they were decoded from.                     *)
LEMMA FramesStand ==
  ASSUME NEW x \in Item, NEW frames \in Seq(Item), Frames(frames, x.epoch), Payload(x),
         NEW e, NEW k
  PROVE  /\ Fresh(x, e) \/ x.kind # "eos" => Stands(<<x>>, frames, e, k)
         /\ x.kind = "eos" => Stands(<<x>>, frames ++ <<x>>, e, k)
<1>1. <<x>> \in Seq(Item)  BY OneMore
<1>2. /\ HasFresh(<<x>>, e) <=> Fresh(x, e)
      /\ HasEnd(<<x>>, e) <=> Fresh(x, e) /\ x.kind = "eos"
      /\ HasMark(<<x>>) <=> x.kind = "flush"
      /\ UpTo(<<x>>, k) <=> (Payload(x) => x.epoch <= k)
      /\ Ordered(<<x>>, e)
      /\ Covered(<<x>>, e) <=> ~Fresh(x, e)
  BY Units
<1>3. x.kind # "flush"  BY DEF Payload
<1>4. /\ HasFresh(frames, e) => Fresh(x, e)
      /\ ~HasEnd(frames, e) /\ ~HasMark(frames)
      /\ Ordered(frames, e)
      /\ UpTo(<<x>>, k) => UpTo(frames, k)
      /\ ~Fresh(x, e) => Covered(frames, e)
  <2>1. \A i \in DOMAIN frames : /\ frames[i].kind = "frame" /\ frames[i].epoch = x.epoch
                                 /\ Fresh(frames[i], e) => Fresh(x, e)
    BY DEF Frames, Fresh
  <2>2. HasFresh(frames, e) => Fresh(x, e)  BY <2>1 DEF HasFresh
  <2>3. ~HasEnd(frames, e) /\ ~HasMark(frames)  BY <2>1 DEF HasEnd, HasMark
  <2>4. Ordered(frames, e)  BY <2>1 DEF Ordered
  <2>5. UpTo(<<x>>, k) => UpTo(frames, k)  BY <1>2, <2>1 DEF UpTo
  <2>6. ~Fresh(x, e) => Covered(frames, e)  BY <2>1 DEF Covered
  <2> QED  BY <2>2, <2>3, <2>4, <2>5, <2>6
<1>5. Stands(<<x>>, frames, e, k)  BY <1>2, <1>3, <1>4 DEF Stands
<1>6. ASSUME x.kind = "eos" PROVE Stands(<<x>>, frames ++ <<x>>, e, k)
  <2> DEFINE u == frames ++ <<x>>
  <2>1. /\ Ordered(u, e) <=> /\ Ordered(frames, e)
                             /\ x.kind = "flush" => ~HasFresh(frames, e)
                             /\ HasEnd(frames, e) => ~Fresh(x, e)
        /\ UpTo(u, k) <=> UpTo(frames, k) /\ (Payload(x) => x.epoch <= k)
        /\ HasEnd(u, e) <=> HasEnd(frames, e) \/ (Fresh(x, e) /\ x.kind = "eos")
        /\ HasMark(u) <=> HasMark(frames) \/ x.kind = "flush"
        /\ Covered(u, e) <=> Covered(frames, e) /\ (HasMark(frames) \/ ~Fresh(x, e))
    BY LineAppended
  <2>2. HasFresh(u, e) <=> HasFresh(frames, e) \/ HasFresh(<<x>>, e)  BY <1>1, Parts
  <2> HIDE DEF u
  <2>3. Ordered(u, e) /\ (HasFresh(u, e) => Fresh(x, e)) /\ (HasEnd(u, e) => Fresh(x, e))
        /\ ~HasMark(u)
    BY <1>3, <1>4, <2>1, <2>2, <1>2
  <2>4. (~Fresh(x, e) => Covered(u, e)) /\ (UpTo(<<x>>, k) => UpTo(u, k))
    BY <1>2, <1>4, <2>1
  <2> QED  BY <1>2, <1>3, <1>6, <2>3, <2>4 DEF Stands, u
<1> QED  BY <1>5, <1>6

-----------------------------------------------------------------------------
(* An open session                                                         *)

(* What is not written stays as it is.                                     *)
LEMMA Elsewhere ==
  ASSUME Served
  PROVE  /\ UNCHANGED closed => ~closed'
         /\ UNCHANGED <<seek, epoch, source, epoch_, flush, flush_epoch>> => EpochsAgree'
         /\ UNCHANGED <<feeds, source>> => FeedsOK'
         /\ UNCHANGED finishVars => ContainerOK'
         /\ UNCHANGED <<chunks, down_q>> => ChunksOK'
<1>1. UNCHANGED closed => ~closed'  BY DEF Served
<1>2. UNCHANGED <<seek, epoch, source, epoch_, flush, flush_epoch>> => EpochsAgree'
  BY DEF Served, EpochsAgree
<1>3. UNCHANGED <<feeds, source>> => FeedsOK'  BY DEF Served, FeedsOK
<1>4. UNCHANGED finishVars => ContainerOK'  BY DEF Served, ContainerOK, finishVars
<1>5. UNCHANGED <<chunks, down_q>> => ChunksOK'
  <2>1. ChunksOK  BY DEF Served
  <2> QED  BY <2>1 DEF ChunksOK
<1> QED  BY <1>1, <1>2, <1>3, <1>4, <1>5

(* The line is made of items.                                              *)
LEMMA LineItems ==
  ASSUME Typed
  PROVE  /\ queue["in"] \in Seq(Item) /\ queue["dec"] \in Seq(Item) /\ queue["up"] \in Seq(Item)
         /\ Inferring \in Seq(Item) /\ Pacing \in Seq(Item) /\ decoded \in Seq(Item)
         /\ DecodeLine \in Seq(Item) /\ InferLine \in Seq(Item) /\ Line \in Seq(Item)
<1>1. queue["in"] \in Seq(Item) /\ queue["dec"] \in Seq(Item) /\ queue["up"] \in Seq(Item)
  <2>1. queue \in [QueueName -> Seq(Item)] /\ "in" \in QueueName /\ "dec" \in QueueName /\ "up" \in QueueName
    BY DEF Typed, QueueTypes, QueueName
  <2> DEFINE S == Seq(Item)
  <2> HIDE DEF S
  <2>2. queue \in [QueueName -> S]  BY <2>1 DEF S
  <2>3. queue["in"] \in S /\ queue["dec"] \in S /\ queue["up"] \in S  BY <2>1, <2>2
  <2> QED  BY <2>3 DEF S
<1>2. Inferring \in Seq(Item) /\ Pacing \in Seq(Item) /\ decoded \in Seq(Item)
  <2>1. inferred \in Item /\ packet \in Item /\ decoded \in Seq(Item)
    BY DEF Typed, InferTypes, DecodeTypes
  <2>2. <<inferred>> \in Seq(Item) /\ <<packet>> \in Seq(Item) /\ <<>> \in Seq(Item)  BY <2>1
  <2>3. Inferring \in {<<inferred>>, <<>>} /\ Pacing \in {<<packet>>, <<>>}
    BY DEF Inferring, Pacing
  <2> QED  BY <2>1, <2>2, <2>3
<1>3. \A s, t \in Seq(Item) : s ++ t \in Seq(Item)  BY Together
<1>4. <<>> \in Seq(Item)  OBVIOUS
<1>5. DecodeLine \in Seq(Item)  BY <1>1, <1>2, <1>3, <1>4 DEF DecodeLine
<1>6. InferLine \in Seq(Item)  BY <1>1, <1>2, <1>3, <1>4, <1>5 DEF InferLine
<1>7. Line \in Seq(Item)  BY <1>1, <1>3, <1>6 DEF Line
<1> QED  BY <1>1, <1>2, <1>5, <1>6, <1>7

(* Sequences of items put together in either order are the same.           *)
LEMMA Regrouped ==
  /\ \A s, t, u \in Seq(Item) : (s ++ t) ++ u = s ++ (t ++ u)
  /\ \A s \in Seq(Item) : s ++ <<>> = s /\ <<>> ++ s = s
  /\ \A s, t \in Seq(Item) : s ++ t \in Seq(Item)
<1>1. \A s, t, u \in Seq(Item) : (s ++ t) ++ u = s ++ (t ++ u)  BY ConcatAssociative DEF ++
<1>2. \A s \in Seq(Item) : s ++ <<>> = s /\ <<>> ++ s = s  BY Together
<1>3. \A s, t \in Seq(Item) : s ++ t \in Seq(Item)  BY Together
<1> QED  BY <1>1, <1>2, <1>3

(* The same of four, as a stage's line is put together.                    *)
LEMMA Regrouped4 ==
  ASSUME NEW p \in Seq(Item), NEW q \in Seq(Item), NEW r \in Seq(Item), NEW s \in Seq(Item)
  PROVE  p ++ (q ++ (r ++ s)) = (p ++ (q ++ r)) ++ s
<1>1. \A x, y, z \in Seq(Item) : (x ++ y) ++ z = x ++ (y ++ z)  BY Regrouped
<1>2. \A x, y \in Seq(Item) : x ++ y \in Seq(Item)  BY Regrouped
<1>3. p \in Seq(Item) /\ q \in Seq(Item) /\ r \in Seq(Item) /\ s \in Seq(Item)  OBVIOUS
<1>4. q ++ (r ++ s) = (q ++ r) ++ s  BY <1>1, <1>3, Zenon
<1>5. q ++ r \in Seq(Item)  BY <1>2, <1>3, Zenon
<1> DEFINE w == q ++ r
<1>6. w \in Seq(Item)  BY <1>5
<1>7. p ++ (w ++ s) = (p ++ w) ++ s
  <2> HIDE DEF w
  <2> QED  BY <1>1, <1>3, <1>6, ZenonT(40)
<1> QED  BY <1>4, <1>7, Zenon

(* What pl-decode has in hand or has still to take changes.                *)
LEMMA DecodeReplaced ==
  ASSUME Typed, LineOK, NEW t \in Seq(Item), NEW u \in Seq(Item), NEW b \in Seq(Item),
         DecodeLine = t ++ b, DecodeLine' = u ++ b, Stands(t, u, epoch_, source.epoch),
         queue'["up"] = queue["up"], queue'["dec"] = queue["dec"], UNCHANGED inferVars,
         UNCHANGED <<epoch_, source, feeds, seek, flush, header, need_discontinuity>>,
         ~DecodeDead, ~DecodeDead'
  PROVE  LineOK'
<1>1. SameEpochs /\ (More' => More) /\ (Ended' => Ended) /\ (Awaited' => Awaited)
  <2>1. SameEpochs  BY DEF SameEpochs
  <2>2. InferDead' <=> InferDead  BY DEF InferDead, inferVars
  <2>3. More' => More  BY <2>2 DEF More
  <2>4. (Ended' => Ended) /\ (Awaited' => Awaited)  BY <2>2 DEF Ended, Awaited
  <2> QED  BY <2>1, <2>3, <2>4
<1>2. /\ queue["dec"] \in Seq(Item) /\ queue["up"] \in Seq(Item) /\ Inferring \in Seq(Item)
      /\ t ++ b \in Seq(Item) /\ u ++ b \in Seq(Item)
  BY LineItems, Regrouped
<1>3. InferDead' = InferDead /\ Inferring' = Inferring  BY DEF InferDead, Inferring, inferVars
<1>4. CASE InferDead
  <2>1. Line' = Line  BY <1>3, <1>4 DEF Line, InferLine
  <2> QED  BY <1>1, <2>1, LineSame
<1>5. CASE ~InferDead
  <2> DEFINE a == queue["up"] ++ (Inferring ++ queue["dec"])
  <2>1. Line = queue["up"] ++ (Inferring ++ (queue["dec"] ++ (t ++ b)))
    BY <1>5 DEF Line, InferLine
  <2>2. Line' = queue["up"] ++ (Inferring ++ (queue["dec"] ++ (u ++ b)))
    BY <1>3, <1>5 DEF Line, InferLine
  <2>3. \A s \in Seq(Item) : queue["up"] ++ (Inferring ++ (queue["dec"] ++ s)) = a ++ s
    <3> SUFFICES ASSUME NEW s \in Seq(Item)
                 PROVE  queue["up"] ++ (Inferring ++ (queue["dec"] ++ s))
                          = (queue["up"] ++ (Inferring ++ queue["dec"])) ++ s
      OBVIOUS
    <3> DEFINE p == queue["up"]
               q == Inferring
               r == queue["dec"]
    <3>1. p \in Seq(Item) /\ q \in Seq(Item) /\ r \in Seq(Item)  BY <1>2
    <3> HIDE DEF p, q, r
    <3>2. p ++ (q ++ (r ++ s)) = (p ++ (q ++ r)) ++ s  BY <3>1, Regrouped4
    <3> QED  BY <3>2 DEF p, q, r
  <2>4. a \in Seq(Item)  BY <1>2, Regrouped
  <2>5. Line = a ++ (t ++ b) /\ Line' = a ++ (u ++ b)  BY <1>2, <2>1, <2>2, <2>3
  <2> HIDE DEF a
  <2> QED  BY <1>1, <2>4, <2>5, LineReplaced
<1> QED  BY <1>4, <1>5

(* Nothing but the line is touched by a stage that takes, works and passes *)
(* on.                                                                     *)
LEMMA OnlyLine ==
  ASSUME Served, LineOK', UNCHANGED <<closed, epoch_, flushVars, finishVars, sessionVars>>
  PROVE  Served'
<1>1. ~closed' /\ EpochsAgree' /\ FeedsOK' /\ ContainerOK' /\ ChunksOK'
  BY Elsewhere DEF flushVars, finishVars, sessionVars
<1> QED  BY <1>1 DEF Served

(* What pl-decode takes, paces and decodes.                                *)
LEMMA DecodeGetServed ==
  ASSUME Typed, Typed', Served, UNCHANGED sessionVars,
         DecodeDrop \/ DecodeAux \/ DecodeStop \/ DecodeFlush \/ DecodeEos \/ DecodeVideo
  PROVE  Served'
<1> DEFINE x == Head(queue["in"])
           b == queue'["in"]
<1>1. LineOK /\ ~closed  BY DEF Served
<1>2. PICK kind : DecodeGet(kind)
  BY DEF DecodeDrop, DecodeAux, DecodeStop, DecodeFlush, DecodeEos, DecodeVideo
<1>3. /\ decode = "get" /\ queue["in"] # <<>> /\ queue' = [queue EXCEPT !["in"] = Tail(@)]
      /\ x.kind = kind
  BY <1>2 DEF DecodeGet
<1>4. /\ x \in Item /\ b \in Seq(Item) /\ queue["in"] = <<x>> ++ b
      /\ queue'["up"] = queue["up"] /\ queue'["dec"] = queue["dec"]
  BY <1>3, QueueOps DEF Typed, QueueName
<1>5. <<x>> \in Seq(Item) /\ <<>> \in Seq(Item)  BY <1>4, OneMore
<1>6. DecodeLine = <<x>> ++ b /\ ~DecodeDead
  <2>1. decoded = <<>> /\ ~DecodeDead /\ Pacing = <<>>  BY <1>3 DEF Typed, DecodeTypes, DecodeDead, Pacing
  <2>2. DecodeLine = <<>> ++ (<<>> ++ queue["in"])  BY <2>1 DEF DecodeLine
  <2>3. <<x>> ++ b \in Seq(Item)  BY <1>4, <1>5, Regrouped
  <2> HIDE DEF x, b
  <2> QED  BY <1>4, <2>1, <2>2, <2>3, Regrouped
<1>7. UNCHANGED <<closed, epoch_, inferVars, flushVars, finishVars, source, feeds, seek>>
  BY DEF DecodeDrop, DecodeAux, DecodeStop, DecodeFlush, DecodeEos, DecodeVideo, sessionVars
<1>8. ASSUME NEW u \in Seq(Item), decode' \notin {"leave", "exit"},
             decoded' ++ (Pacing' ++ b) = u ++ b, Stands(<<x>>, u, epoch_, source.epoch)
      PROVE  Served'
  <2>1. ~DecodeDead' /\ DecodeLine' = u ++ b  BY <1>8 DEF DecodeDead, DecodeLine
  <2>2. UNCHANGED <<epoch_, source, feeds, seek, flush, header, need_discontinuity>>
    BY <1>7 DEF flushVars, finishVars
  <2>3. LineOK'
    <3>1. UNCHANGED inferVars  BY <1>7
    <3> HIDE DEF x, b
    <3> QED  BY <1>1, <1>4, <1>5, <1>6, <1>8, <2>1, <2>2, <3>1, DecodeReplaced
  <2> QED  BY <1>7, <2>3, OnlyLine
<1>9. <<x>> ++ b \in Seq(Item)  BY <1>4, <1>5, Regrouped
<1>10. CASE DecodeDrop
  <2>1. decode' = "get" /\ decoded' = <<>> /\ Pacing' = <<>>
    BY <1>3, <1>10 DEF DecodeDrop, decodeVars, Pacing, Typed, DecodeTypes
  <2>2. ~Fresh(x, epoch_) /\ x.kind # "flush"
    <3>1. x.epoch < epoch_  BY <1>10 DEF DecodeDrop, Stale
    <3>2. x.kind \in {"aux", "video", "eos"}  BY <1>10 DEF DecodeDrop, DecodeGet
    <3> QED  BY <3>1, <3>2 DEF Fresh
  <2>3. Stands(<<x>>, <<>>, epoch_, source.epoch)  BY <1>4, <2>2, MayGo
  <2>4. decoded' ++ (Pacing' ++ b) = <<>> ++ b  BY <1>4, <2>1, Regrouped
  <2> QED  BY <1>5, <1>8, <2>1, <2>3, <2>4
<1>11. CASE DecodeAux \/ DecodeStop \/ DecodeFlush
  <2>1. decode' = "put" /\ Pacing' = <<>>
    <3>1. decode' = "put"  BY <1>11 DEF DecodeAux, DecodeStop, DecodeFlush
    <3> QED  BY <3>1 DEF Pacing
  <2>2. PICK y \in {x, Stop} : decoded' = <<y>> /\ (y = Stop => x.kind = "stop")
    <3>1. CASE DecodeStop
      <4>1. decoded' = <<Stop>> /\ x.kind = "stop"  BY <3>1 DEF DecodeStop, DecodeGet
      <4> QED  BY <4>1
    <3>2. CASE DecodeAux \/ DecodeFlush
      <4>1. decoded' = <<x>> /\ x.kind \in {"aux", "flush"}
        BY <3>2 DEF DecodeAux, DecodeFlush, DecodeGet
      <4> QED  BY <4>1, Items
    <3> QED  BY <1>11, <3>1, <3>2
  <2>3. y \in Item /\ <<y>> \in Seq(Item)  BY <1>4, <2>2, Items, OneMore
  <2>4. decoded' ++ (Pacing' ++ b) = <<y>> ++ b  BY <1>4, <2>1, <2>2, Regrouped
  <2>5. Stands(<<x>>, <<y>>, epoch_, source.epoch)
    <3>1. CASE y = x  BY <3>1, Units DEF Stands
    <3>2. CASE y = Stop
      <4>1. ~Payload(Stop) /\ ~Fresh(Stop, epoch_) /\ Stop.kind # "flush" /\ x.kind # "flush"
        BY <2>2, <3>2, Items DEF Payload, Fresh
      <4> HIDE DEF x
      <4> QED  BY <3>2, <4>1, Units DEF Stands
    <3> QED  BY <2>2, <3>1, <3>2
  <2> QED  BY <1>8, <2>1, <2>3, <2>4, <2>5
<1>12. CASE DecodeEos
  <2>1. x.kind = "eos" /\ PutDecoded(decoder, x.epoch, <<x>>)  BY <1>12 DEF DecodeEos, DecodeGet
  <2>2. x.epoch \in Epoch /\ decoder \in Seq(Position) /\ discard \in 0..Length /\ Payload(x)
    BY <1>4, <2>1, Items DEF Typed, DecodeTypes
  <2>3. PICK frames \in Seq(Item) : Frames(frames, x.epoch) /\ decoded' = frames ++ <<x>>
    BY <1>5, <2>1, <2>2, Decoding
  <2>4. decode' \notin {"leave", "exit"} /\ Pacing' = <<>>
    <3>1. decode' = IF decoded' = <<>> THEN "get" ELSE "put"  BY <1>5, <2>1, <2>2, Decoding
    <3> QED  BY <3>1 DEF Pacing
  <2>5. Stands(<<x>>, frames ++ <<x>>, epoch_, source.epoch)
    BY <1>4, <2>1, <2>2, <2>3, FramesStand
  <2>6. decoded' ++ (Pacing' ++ b) = (frames ++ <<x>>) ++ b  BY <1>4, <2>3, <2>4, Regrouped
  <2>7. frames ++ <<x>> \in Seq(Item)  BY <1>5, Regrouped
  <2> QED  BY <1>8, <2>4, <2>5, <2>6, <2>7
<1>13. CASE DecodeVideo
  <2>1. x.kind = "video" /\ x.epoch \in Epoch /\ x.pos \in Position /\ Payload(x)
    <3>1. x.kind = "video"  BY <1>13 DEF DecodeVideo, DecodeGet
    <3> QED  BY <1>4, <3>1, Items
  <2>2. CASE buffered
    <3>1. decode' = "pace" /\ packet' = x /\ decoded' = <<>>
      BY <1>3, <1>13, <2>2 DEF DecodeVideo, Typed, DecodeTypes
    <3>2. Pacing' = <<x>>  BY <3>1 DEF Pacing
    <3>3. decoded' ++ (Pacing' ++ b) = <<x>> ++ b  BY <1>9, <3>1, <3>2, Regrouped
    <3>4. Stands(<<x>>, <<x>>, epoch_, source.epoch)  BY Units DEF Stands
    <3> QED  BY <1>5, <1>8, <3>1, <3>3, <3>4
  <2>3. CASE ~buffered
    <3>1. PutDecoded(Released(Append(decoder, x.pos)), x.epoch, <<>>)
      BY <1>13, <2>3 DEF DecodeVideo, DecodePacket
    <3>2. Released(Append(decoder, x.pos)) \in Seq(Position) /\ discard \in 0..Length
      <4>1. decoder \in Seq(Position) /\ discard \in 0..Length  BY DEF Typed, DecodeTypes
      <4>2. Append(decoder, x.pos) \in Seq(Position)  BY <2>1, <4>1, OneMore
      <4> QED  BY <4>1, <4>2, Codec
    <3>3. PICK frames \in Seq(Item) : Frames(frames, x.epoch) /\ decoded' = frames ++ <<>>
      BY <1>5, <2>1, <3>1, <3>2, Decoding
    <3>4. decode' \notin {"leave", "exit"} /\ Pacing' = <<>>
      <4>1. decode' = IF decoded' = <<>> THEN "get" ELSE "put"  BY <1>5, <2>1, <3>1, <3>2, Decoding
      <4> QED  BY <4>1 DEF Pacing
    <3>5. Stands(<<x>>, frames, epoch_, source.epoch)
      BY <1>4, <2>1, <3>3, FramesStand
    <3>6. decoded' ++ (Pacing' ++ b) = frames ++ b  BY <1>4, <3>3, <3>4, Regrouped
    <3> QED  BY <1>8, <3>4, <3>5, <3>6
  <2> QED  BY <2>2, <2>3
<1> QED  BY <1>10, <1>11, <1>12, <1>13

(* A paced packet is decoded.                                              *)
LEMMA DecodePacedServed ==
  ASSUME Typed, Typed', Served, UNCHANGED sessionVars, DecodePaced
  PROVE  Served'
<1> DEFINE b == queue["in"]
<1>1. LineOK /\ decode = "pace" /\ packet.kind = "video" /\ packet \in Item
  BY DEF Served, DecodePaced, Typed, DecodeTypes
<1>2. /\ PutDecoded(Released(Append(decoder, packet.pos)), packet.epoch, <<>>)
      /\ UNCHANGED <<closed, epoch_, queue, inferVars, flushVars, finishVars>>
  BY DEF DecodePaced, DecodePacket, queueVars
<1>3. /\ packet.epoch \in Epoch /\ packet.pos \in Position /\ Payload(packet)
  BY <1>1, Items
<1>4. Released(Append(decoder, packet.pos)) \in Seq(Position) /\ discard \in 0..Length
  <2>1. decoder \in Seq(Position) /\ discard \in 0..Length  BY DEF Typed, DecodeTypes
  <2>2. Append(decoder, packet.pos) \in Seq(Position)  BY <1>3, <2>1, OneMore
  <2> QED  BY <2>1, <2>2, Codec
<1>5. <<>> \in Seq(Item) /\ <<packet>> \in Seq(Item) /\ b \in Seq(Item)
  BY <1>1, LineItems, OneMore
<1>6. PICK frames \in Seq(Item) : Frames(frames, packet.epoch) /\ decoded' = frames ++ <<>>
  BY <1>2, <1>3, <1>4, <1>5, Decoding
<1>7. decode' \notin {"leave", "exit"} /\ Pacing' = <<>>
  <2>1. decode' = IF decoded' = <<>> THEN "get" ELSE "put"  BY <1>2, <1>3, <1>4, <1>5, Decoding
  <2> QED  BY <2>1 DEF Pacing
<1>8. Stands(<<packet>>, frames, epoch_, source.epoch)  BY <1>1, <1>3, <1>6, FramesStand
<1>9. DecodeLine = <<packet>> ++ b /\ ~DecodeDead
  <2>1. decoded = <<>> /\ ~DecodeDead /\ Pacing = <<packet>>
    BY <1>1 DEF Typed, DecodeTypes, DecodeDead, Pacing
  <2>2. <<packet>> ++ b \in Seq(Item)  BY <1>5, Regrouped
  <2> QED  BY <2>1, <2>2, Regrouped DEF DecodeLine
<1>10. DecodeLine' = frames ++ b /\ ~DecodeDead'
  <2>1. ~DecodeDead' /\ decoded' = frames /\ queue' = queue
    BY <1>2, <1>6, <1>7, Regrouped DEF DecodeDead
  <2>2. DecodeLine' = frames ++ (<<>> ++ b)  BY <1>7, <2>1 DEF DecodeLine
  <2> QED  BY <1>5, <2>1, <2>2, Regrouped
<1>11. UNCHANGED <<epoch_, source, feeds, seek, flush, header, need_discontinuity>>
       /\ UNCHANGED inferVars
       /\ queue'["up"] = queue["up"] /\ queue'["dec"] = queue["dec"]
  BY <1>2 DEF flushVars, finishVars, sessionVars
<1>12. LineOK'
  <2> HIDE DEF b
  <2> QED  BY <1>1, <1>5, <1>6, <1>8, <1>9, <1>10, <1>11, DecodeReplaced
<1> QED  BY <1>2, <1>12, OnlyLine

(* What was before pl-infer is all there is of the line, for good.         *)
LEMMA DecodeGone ==
  ASSUME Typed, Typed', Served, UNCHANGED <<sessionVars, flushVars, finishVars, epoch_, closed>>,
         UNCHANGED inferVars, queue'["up"] = queue["up"], queue'["dec"] \in Seq(Item),
         NEW r \in Seq(Item),
         queue["dec"] ++ DecodeLine = queue'["dec"] ++ r, DecodeDead'
  PROVE  Served'
<1> DEFINE up == queue["up"]
           d == queue'["dec"]
           a == up ++ (Inferring ++ d)
<1>1. LineOK  BY DEF Served
<1>2. UNCHANGED <<epoch_, source, feeds, seek, flush, header, need_discontinuity>>
  BY DEF flushVars, finishVars, sessionVars
<1>3. /\ InferDead' = InferDead /\ Inferring' = Inferring
      /\ up \in Seq(Item) /\ Inferring \in Seq(Item) /\ d \in Seq(Item)
  BY LineItems DEF InferDead, Inferring, inferVars
<1>4. SameEpochs /\ ~More' /\ ~Awaited' /\ (Ended' => Ended)
  BY <1>2 DEF SameEpochs, More, Awaited, Ended
<1>5. CASE InferDead
  <2>1. Line' = Line  BY <1>3, <1>5 DEF Line, InferLine
  <2>2. LineOK'  BY <1>1, <1>4, <2>1, LineSame
  <2> QED  BY <2>2, OnlyLine
<1>6. CASE ~InferDead
  <2>1. Line = up ++ (Inferring ++ (d ++ r))  BY <1>6 DEF Line, InferLine
  <2>2. Line' = up ++ (Inferring ++ (d ++ <<>>))
    BY <1>3, <1>6 DEF Line, InferLine, DecodeLine
  <2>3. a \in Seq(Item)
    <3> HIDE DEF d, up
    <3> QED  BY <1>3, Regrouped
  <2>4. Line = a ++ r
    <3> HIDE DEF d, up
    <3> QED  BY <1>3, <2>1, Regrouped4
  <2>5. Line' = a
    <3> HIDE DEF d, up
    <3> QED  BY <1>3, <2>2, Regrouped
  <2>6. LineOK'
    <3> HIDE DEF a
    <3> QED  BY <1>1, <1>4, <2>3, <2>4, <2>5, LineCut
  <2> QED  BY <2>6, OnlyLine
<1> QED  BY <1>5, <1>6

(* What pl-decode has in hand goes to pl-infer.                            *)
LEMMA DecodePutServed ==
  ASSUME Typed, Typed', Served, UNCHANGED sessionVars, DecodePut
  PROVE  Served'
<1> DEFINE h == Head(decoded)
           up == queue["up"]
           d == queue["dec"]
           i == queue["in"]
           r == Tail(decoded) ++ (<<>> ++ i)
<1>1. LineOK /\ ~closed  BY DEF Served
<1>2. /\ decode = "put" /\ PassOn("decode", "dec", h) /\ decoded' = Tail(decoded)
      /\ decode' = IF h = Stop THEN "leave" ELSE IF Tail(decoded) = <<>> THEN "get" ELSE "put"
      /\ UNCHANGED <<epoch_, closed, flushVars, inferVars, finishVars>>
  BY DEF DecodePut
<1>3. decoded \in Seq(Item) /\ decoded # <<>>  BY <1>2 DEF Typed, DecodeTypes
<1>4. /\ h \in Item /\ Tail(decoded) \in Seq(Item) /\ <<h>> \in Seq(Item) /\ <<>> \in Seq(Item)
      /\ decoded = <<h>> ++ Tail(decoded)
  BY <1>3, Members, HeadFirst, OneMore
<1>5. Room("dec") /\ Put("dec", h)  BY <1>1, <1>2 DEF PassOn, SafePut
<1>6. /\ d \in Seq(Item) /\ i \in Seq(Item) /\ up \in Seq(Item) /\ Inferring \in Seq(Item)
  BY LineItems
<1>7. /\ queue'["dec"] = d ++ <<h>> /\ queue'["up"] = up /\ queue'["in"] = i
  BY <1>4, <1>5, QueueOps DEF Typed, QueueName
<1>8. ~DecodeDead /\ Pacing = <<>>  BY <1>2 DEF DecodeDead, Pacing
<1>9. r \in Seq(Item) /\ d ++ <<h>> \in Seq(Item)
  <2> HIDE DEF h, d, i
  <2> QED  BY <1>4, <1>6, Regrouped
<1>10. d ++ DecodeLine = (d ++ <<h>>) ++ r
  <2>1. DecodeLine = (<<h>> ++ Tail(decoded)) ++ (<<>> ++ i)  BY <1>4, <1>8 DEF DecodeLine
  <2> DEFINE t == Tail(decoded)
             j == <<>> ++ i
             g == <<h>>
  <2>2. j \in Seq(Item) /\ t \in Seq(Item) /\ g \in Seq(Item) /\ d \in Seq(Item)
    BY <1>4, <1>6, Regrouped
  <2>3. (g ++ t) ++ j = g ++ (t ++ j) /\ t ++ j \in Seq(Item)
    <3> HIDE DEF g, t, j
    <3> QED  BY <2>2, Regrouped
  <2>4. d ++ (g ++ (t ++ j)) = (d ++ g) ++ (t ++ j)
    <3> HIDE DEF g, t, j, d
    <3> QED  BY <2>2, <2>3, Regrouped
  <2> QED  BY <2>1, <2>3, <2>4
<1>11. CASE h = Stop
  <2>1. DecodeDead'  BY <1>2, <1>11 DEF DecodeDead
  <2>2. queue'["up"] = queue["up"] /\ queue'["dec"] \in Seq(Item)
        /\ queue["dec"] ++ DecodeLine = queue'["dec"] ++ r
    BY <1>7, <1>9, <1>10
  <2> HIDE DEF r
  <2> QED  BY <1>2, <1>9, <2>1, <2>2, DecodeGone
<1>12. CASE h # Stop
  <2>1. ~DecodeDead' /\ Pacing' = <<>>  BY <1>2, <1>12 DEF DecodeDead, Pacing
  <2>2. DecodeLine' = r  BY <1>2, <1>7, <2>1 DEF DecodeLine
  <2>3. InferDead' = InferDead /\ Inferring' = Inferring  BY <1>2 DEF InferDead, Inferring, inferVars
  <2>4. Line' = Line
    <3>1. CASE InferDead  BY <1>7, <2>3, <3>1 DEF Line, InferLine
    <3>2. CASE ~InferDead
      <4>1. Line = up ++ (Inferring ++ (d ++ DecodeLine))  BY <3>2 DEF Line, InferLine
      <4>2. Line' = up ++ (Inferring ++ ((d ++ <<h>>) ++ r))
        BY <1>7, <2>2, <2>3, <3>2 DEF Line, InferLine
      <4> QED  BY <1>10, <4>1, <4>2
    <3> QED  BY <3>1, <3>2
  <2>5. UNCHANGED <<epoch_, source, feeds, seek, flush, header, need_discontinuity>>
    BY <1>2 DEF flushVars, finishVars, sessionVars
  <2>6. SameEpochs /\ (More' => More) /\ (Ended' => Ended) /\ (Awaited' => Awaited)
    BY <1>8, <2>1, <2>3, <2>5 DEF SameEpochs, More, Ended, Awaited
  <2>7. LineOK'  BY <1>1, <2>4, <2>6, LineSame
  <2> QED  BY <1>2, <2>7, OnlyLine
<1> QED  BY <1>11, <1>12

(* pl-decode raises, and leaves.                                           *)
LEMMA DecodeLeaveServed ==
  ASSUME Typed, Typed', Served, UNCHANGED sessionVars, DecodeFails \/ DecodeLeave
  PROVE  Served'
<1> DEFINE up == queue["up"]
           d == queue["dec"]
<1>1. d \in Seq(Item) /\ up \in Seq(Item) /\ DecodeLine \in Seq(Item) /\ <<>> \in Seq(Item)
  BY LineItems
<1>2. UNCHANGED <<epoch_, closed, flushVars, inferVars, finishVars>> /\ DecodeDead'
  BY DEF DecodeFails, DecodeLeave, DecodeDead, queueVars
<1>3. CASE DecodeFails
  <2>1. queue' = queue  BY <1>3 DEF DecodeFails, queueVars
  <2> QED  BY <1>1, <1>2, <2>1, DecodeGone
<1>4. CASE DecodeLeave
  <2>1. DecodeLine = <<>>  BY <1>4 DEF DecodeLeave, DecodeLine, DecodeDead
  <2>2. CASE UNCHANGED queue  BY <1>1, <1>2, <2>2, DecodeGone
  <2>3. CASE Room("dec") /\ Put("dec", Stop)
    <3>1. queue'["dec"] = d ++ <<Stop>> /\ queue'["up"] = up
      BY <2>3, Items, QueueOps DEF Typed, QueueName
    <3>2. <<Stop>> \in Seq(Item) /\ d ++ <<Stop>> \in Seq(Item)  BY <1>1, Items, OneMore, Regrouped
    <3>3. UNCHANGED <<epoch_, source, feeds, seek, flush, header, need_discontinuity>>
      BY <1>2 DEF flushVars, finishVars, sessionVars
    <3>4. InferDead' = InferDead /\ Inferring' = Inferring  BY <1>2 DEF InferDead, Inferring, inferVars
    <3>5. SameEpochs /\ ~More' /\ ~Awaited' /\ (Ended' => Ended)
      BY <1>2, <3>3 DEF SameEpochs, More, Awaited, Ended
    <3>6. LineOK  BY DEF Served
    <3>7. CASE InferDead
      <4>1. Line' = Line  BY <3>1, <3>4, <3>7 DEF Line, InferLine
      <4>2. LineOK'  BY <3>5, <3>6, <4>1, LineSame
      <4> QED  BY <1>2, <4>2, OnlyLine
    <3>8. CASE ~InferDead
      <4> DEFINE a == up ++ (Inferring ++ d)
      <4>1. Inferring \in Seq(Item)  BY LineItems
      <4>2. a \in Seq(Item) /\ a = a ++ (<<>> ++ <<>>)
        <5>1. a \in Seq(Item)
          <6> HIDE DEF d, up
          <6> QED  BY <1>1, <4>1, Regrouped
        <5>2. <<>> ++ <<>> = <<>>  BY <1>1, Regrouped
        <5> HIDE DEF a
        <5> QED  BY <5>1, <5>2, Regrouped
      <4>3. Line = a ++ (<<>> ++ <<>>)
        <5>1. Line = up ++ (Inferring ++ (d ++ <<>>))  BY <2>1, <3>8 DEF Line, InferLine
        <5>2. d ++ <<>> = d  BY <1>1, Regrouped
        <5> QED  BY <4>2, <5>1, <5>2
      <4>4. Line' = a ++ (<<Stop>> ++ <<>>)
        <5>1. DecodeLine' = <<>>  BY <1>2 DEF DecodeLine
        <5>2. Line' = up ++ (Inferring ++ ((d ++ <<Stop>>) ++ <<>>))
          BY <3>1, <3>4, <3>8, <5>1 DEF Line, InferLine
        <5>3. (d ++ <<Stop>>) ++ <<>> = d ++ (<<Stop>> ++ <<>>) /\ <<Stop>> ++ <<>> = <<Stop>>
          <6> HIDE DEF d
          <6> QED  BY <1>1, <3>2, Regrouped, ZenonT(30)
        <5>4. up ++ (Inferring ++ (d ++ <<Stop>>)) = a ++ <<Stop>>
          <6> DEFINE v == <<Stop>>
          <6>1. v \in Seq(Item) /\ d \in Seq(Item) /\ up \in Seq(Item)  BY <1>1, <3>2
          <6> HIDE DEF d, up, v
          <6>2. up ++ (Inferring ++ (d ++ v)) = (up ++ (Inferring ++ d)) ++ v
            BY <4>1, <6>1, Regrouped4
          <6> QED  BY <6>2 DEF v
        <5> QED  BY <5>2, <5>3, <5>4
      <4>5. Stands(<<>>, <<Stop>>, epoch_, source.epoch)
        <5>1. ~Payload(Stop) /\ ~Fresh(Stop, epoch_) /\ Stop.kind # "flush" /\ Stop.kind # "eos"
          BY Items DEF Payload, Fresh
        <5> QED  BY <5>1, Units DEF Stands
      <4>6. (More' => More) /\ (Awaited' => Awaited)  BY <3>5
      <4>7. LineOK'
        <5> HIDE DEF a
        <5> QED  BY <1>1, <3>2, <3>5, <3>6, <4>2, <4>3, <4>4, <4>5, <4>6, LineReplaced
      <4> QED  BY <1>2, <4>7, OnlyLine
    <3> QED  BY <3>7, <3>8
  <2> QED  BY <1>4, <2>2, <2>3 DEF DecodeLeave, LastStop
<1> QED  BY <1>3, <1>4

(* What pl-infer does.                                                     *)
LEMMA InferServed ==
  ASSUME Typed, Typed', Served, UNCHANGED sessionVars,
         InferGet \/ InferPut \/ InferFails \/ InferLeave
  PROVE  Served'
<1> DEFINE up == queue["up"]
           d == queue["dec"]
<1>1. LineOK /\ ~closed  BY DEF Served
<1>2. UNCHANGED <<epoch_, closed, flushVars, decodeVars, finishVars>>
  BY DEF InferGet, InferPut, InferFails, InferLeave, queueVars
<1>3. /\ up \in Seq(Item) /\ d \in Seq(Item) /\ DecodeLine \in Seq(Item) /\ <<>> \in Seq(Item)
      /\ InferLine \in Seq(Item) /\ Line \in Seq(Item) /\ inferred \in Item
  BY LineItems DEF Typed, InferTypes
<1>4. ASSUME queue'["in"] = queue["in"] PROVE DecodeLine' = DecodeLine
  BY <1>2, <1>4 DEF DecodeLine, DecodeDead, Pacing, decodeVars
<1>5. /\ SameEpochs /\ (Ended' => Ended)
      /\ InferDead' => ~More' /\ ~Awaited'
      /\ ~InferDead => (More' => More) /\ (Awaited' => Awaited)
  BY <1>2 DEF SameEpochs, Ended, More, Awaited, DecodeDead, flushVars, decodeVars, finishVars, sessionVars
<1>6. CASE InferGet
  <2> DEFINE x == Head(d)
             d2 == queue'["dec"]
             b == d2 ++ DecodeLine
  <2>1. /\ infer = "get" /\ d # <<>> /\ queue' = [queue EXCEPT !["dec"] = Tail(@)]
        /\ IF x.kind = "frame" /\ Stale(x)
             THEN UNCHANGED inferVars ELSE infer' = "put" /\ inferred' = x
    BY <1>6 DEF InferGet
  <2>2. /\ x \in Item /\ d2 \in Seq(Item) /\ d = <<x>> ++ d2
        /\ queue'["up"] = queue["up"] /\ queue'["in"] = queue["in"]
    BY <2>1, QueueOps DEF Typed, QueueName
  <2>3. <<x>> \in Seq(Item) /\ b \in Seq(Item)  BY <1>3, <2>2, OneMore, Regrouped
  <2>4. Line = up ++ (<<x>> ++ b)
    <3>1. Line = up ++ (<<>> ++ ((<<x>> ++ d2) ++ DecodeLine))
      BY <2>1, <2>2 DEF Line, InferLine, InferDead, Inferring
    <3> DEFINE g == <<x>>
    <3>2. g \in Seq(Item) /\ (g ++ d2) ++ DecodeLine = g ++ b /\ g ++ b \in Seq(Item)
      <4>1. g \in Seq(Item)  BY <2>3
      <4> HIDE DEF g, d2
      <4> QED  BY <1>3, <2>2, <4>1, Regrouped
    <3>3. <<>> ++ (g ++ b) = g ++ b
      <4> HIDE DEF g, b
      <4> QED  BY <3>2, Regrouped
    <3> QED  BY <3>1, <3>2, <3>3
  <2>5. CASE x.kind = "frame" /\ Stale(x)
    <3>1. UNCHANGED inferVars  BY <2>1, <2>5
    <3>2. Line' = up ++ (<<>> ++ b)
      BY <1>4, <2>1, <2>2, <3>1 DEF Line, InferLine, InferDead, Inferring, inferVars
    <3>3. Stands(<<x>>, <<>>, epoch_, source.epoch)
      <4>1. ~Fresh(x, epoch_) /\ x.kind # "flush"  BY <2>5 DEF Fresh, Stale
      <4> QED  BY <2>2, <4>1, MayGo
    <3>4. (More' => More) /\ (Awaited' => Awaited)  BY <1>5, <2>1 DEF InferDead
    <3>5. LineOK'
      <4> HIDE DEF b, x
      <4> QED  BY <1>1, <1>3, <1>5, <2>3, <2>4, <3>2, <3>3, <3>4, LineReplaced
    <3> QED  BY <1>2, <3>5, OnlyLine
  <2>6. CASE ~(x.kind = "frame" /\ Stale(x))
    <3>1. infer' = "put" /\ inferred' = x  BY <2>1, <2>6
    <3>2. Line' = up ++ (<<x>> ++ b)
      BY <1>4, <2>2, <3>1 DEF Line, InferLine, InferDead, Inferring
    <3>3. (More' => More) /\ (Awaited' => Awaited)  BY <1>5, <2>1 DEF InferDead
    <3>4. LineOK'  BY <1>1, <1>5, <2>4, <3>2, <3>3, LineSame
    <3> QED  BY <1>2, <3>4, OnlyLine
  <2> QED  BY <2>5, <2>6
<1>7. CASE InferPut
  <2> DEFINE y == inferred
             g == <<y>>
             b == d ++ DecodeLine
  <2>1. infer = "put" /\ infer' = IF y = Stop THEN "leave" ELSE "get"  BY <1>7 DEF InferPut
  <2>2. Room("up") /\ Put("up", y)  BY <1>1, <1>7 DEF InferPut, PassOn, SafePut
  <2>3. /\ queue'["up"] = up ++ g /\ queue'["in"] = queue["in"] /\ queue'["dec"] = d
    BY <1>3, <2>2, QueueOps DEF Typed, QueueName
  <2>4. g \in Seq(Item) /\ b \in Seq(Item) /\ up ++ g \in Seq(Item)
    <3>1. g \in Seq(Item)  BY <1>3, OneMore
    <3> HIDE DEF g
    <3> QED  BY <1>3, <3>1, Regrouped
  <2>5. Line = up ++ (g ++ b)  BY <2>1 DEF Line, InferLine, InferDead, Inferring
  <2>6. Line = (up ++ g) ++ b
    <3> HIDE DEF g, b, up
    <3> QED  BY <1>3, <2>4, <2>5, Regrouped
  <2>7. CASE y = Stop
    <3>1. InferDead'  BY <2>1, <2>7 DEF InferDead
    <3>2. Line' = (up ++ g) ++ <<>>  BY <2>3, <3>1 DEF Line, InferLine
    <3>3. Line' = up ++ g
      <4> HIDE DEF g
      <4> QED  BY <2>4, <3>2, Regrouped
    <3>4. LineOK'
      <4> HIDE DEF g, b
      <4> QED  BY <1>1, <1>5, <2>4, <2>6, <3>1, <3>3, LineCut
    <3> QED  BY <1>2, <3>4, OnlyLine
  <2>8. CASE y # Stop
    <3>1. ~InferDead /\ infer' = "get"  BY <2>1, <2>8 DEF InferDead
    <3>2. Line' = (up ++ g) ++ (<<>> ++ b)
      BY <1>4, <2>3, <3>1 DEF Line, InferLine, InferDead, Inferring
    <3>3. Line' = Line
      <4> HIDE DEF g, b
      <4> QED  BY <2>4, <2>6, <3>2, Regrouped
    <3>4. LineOK'  BY <1>1, <1>5, <3>1, <3>3, LineSame
    <3> QED  BY <1>2, <3>4, OnlyLine
  <2> QED  BY <2>7, <2>8
<1>8. CASE InferFails
  <2>1. queue' = queue /\ InferDead'  BY <1>8 DEF InferFails, queueVars, InferDead
  <2>2. Line' = up ++ <<>>  BY <2>1 DEF Line, InferLine
  <2>3. Line' = up /\ Line = up ++ InferLine  BY <1>3, <2>2, Regrouped DEF Line
  <2>4. LineOK'  BY <1>1, <1>3, <1>5, <2>1, <2>3, LineCut
  <2> QED  BY <1>2, <2>4, OnlyLine
<1>9. CASE InferLeave
  <2>1. InferDead /\ InferDead'  BY <1>9 DEF InferLeave, InferDead
  <2>2. Line = up ++ <<>> /\ Line' = queue'["up"] ++ <<>>  BY <2>1 DEF Line, InferLine
  <2>3. (More' => More) /\ (Awaited' => Awaited)  BY <1>5, <2>1
  <2>4. CASE UNCHANGED queue
    <3>1. LineOK'  BY <1>1, <1>5, <2>2, <2>3, <2>4, LineSame
    <3> QED  BY <1>2, <3>1, OnlyLine
  <2>5. CASE Room("up") /\ Put("up", Stop)
    <3> DEFINE v == <<Stop>>
    <3>1. queue'["up"] = up ++ v  BY <2>5, Items, QueueOps DEF Typed, QueueName
    <3>2. v \in Seq(Item)  BY Items, OneMore
    <3>3. <<>> ++ <<>> = <<>>  BY <1>3, Regrouped
    <3>4. Line = up ++ (<<>> ++ <<>>)  BY <2>2, <3>3
    <3>5. Line' = up ++ (v ++ <<>>)
      <4> HIDE DEF v, up
      <4>1. Line' = (up ++ v) ++ <<>>  BY <2>2, <3>1
      <4> QED  BY <1>3, <3>2, <4>1, Regrouped
    <3>6. Stands(<<>>, v, epoch_, source.epoch)
      <4>1. ~Payload(Stop) /\ ~Fresh(Stop, epoch_) /\ Stop.kind # "flush" /\ Stop.kind # "eos"
        BY Items DEF Payload, Fresh
      <4> QED  BY <4>1, Units DEF Stands
    <3>7. LineOK'
      <4> HIDE DEF v, up
      <4> QED  BY <1>1, <1>3, <1>5, <2>3, <3>2, <3>4, <3>5, <3>6, LineReplaced
    <3> QED  BY <1>2, <3>7, OnlyLine
  <2> QED  BY <1>9, <2>4, <2>5 DEF InferLeave, LastStop
<1> QED  BY <1>6, <1>7, <1>8, <1>9

(* An item that pl-finish takes is the head of the line.                   *)
LEMMA FinishTaken ==
  ASSUME Typed, Served, NEW kind, FinishGet(kind),
         UNCHANGED <<epoch_, closed, decodeVars, inferVars, flushVars, sessionVars>>
  PROVE  /\ Head(queue["up"]) \in Item /\ Head(queue["up"]).kind = kind
         /\ Line = <<Head(queue["up"])>> ++ Line' /\ Line' \in Seq(Item)
         /\ SameEpochs /\ (More' => More) /\ (Awaited' => Awaited)
         /\ ~closed' /\ EpochsAgree' /\ FeedsOK'
<1> DEFINE x == Head(queue["up"])
           g == <<x>>
           u == queue'["up"]
<1>1. queue["up"] # <<>> /\ queue' = [queue EXCEPT !["up"] = Tail(@)] /\ x.kind = kind
  BY DEF FinishGet
<1>2. /\ x \in Item /\ u \in Seq(Item) /\ queue["up"] = g ++ u
      /\ queue'["dec"] = queue["dec"] /\ queue'["in"] = queue["in"]
  BY <1>1, QueueOps DEF Typed, QueueName
<1>3. g \in Seq(Item) /\ InferLine \in Seq(Item)  BY <1>2, OneMore, LineItems
<1>4. InferLine' = InferLine
  BY <1>2 DEF InferLine, InferDead, Inferring, DecodeLine, DecodeDead, Pacing, decodeVars, inferVars
<1>5. Line' = u ++ InferLine  BY <1>4 DEF Line
<1>6. Line = (g ++ u) ++ InferLine  BY <1>2 DEF Line
<1>7. Line = g ++ Line' /\ Line' \in Seq(Item)
  <2> HIDE DEF g, u
  <2>1. u ++ InferLine \in Seq(Item) /\ (g ++ u) ++ InferLine = g ++ (u ++ InferLine)
    BY <1>2, <1>3, Regrouped
  <2> QED  BY <1>5, <1>6, <2>1
<1>8. SameEpochs /\ (More' => More) /\ (Awaited' => Awaited)
  BY DEF SameEpochs, More, Awaited, DecodeDead, InferDead, decodeVars, inferVars, flushVars, sessionVars
<1>9. ~closed' /\ EpochsAgree' /\ FeedsOK'  BY Elsewhere DEF flushVars, sessionVars
<1> QED  BY <1>1, <1>2, <1>7, <1>8, <1>9

(* What pl-finish drops.                                                   *)
LEMMA FinishDropServed ==
  ASSUME Typed, Served, UNCHANGED sessionVars, FinishDrop \/ FinishStop
  PROVE  Served'
<1> DEFINE x == Head(queue["up"])
<1>1. PICK kind \in {"frame", "aux", "eos", "stop"} : FinishGet(kind)
  BY DEF FinishDrop, FinishStop
<1>2. /\ UNCHANGED <<epoch_, closed, decodeVars, inferVars, flushVars>>
      /\ UNCHANGED <<header, sink, need_discontinuity, chunks>>
  BY DEF FinishDrop, FinishStop, finishVars
<1>3. /\ x \in Item /\ x.kind = kind /\ Line = <<x>> ++ Line' /\ Line' \in Seq(Item)
      /\ SameEpochs /\ (More' => More) /\ (Awaited' => Awaited)
      /\ ~closed' /\ EpochsAgree' /\ FeedsOK'
  BY <1>1, <1>2, FinishTaken
<1>4. ~Fresh(x, epoch_) /\ x.kind # "flush"
  <2>1. x.epoch < epoch_ \/ x.kind = "stop"  BY DEF FinishDrop, FinishStop, FinishGet, Stale
  <2> QED  BY <1>3, <2>1 DEF Fresh, Payload
<1>5. Ended' => Ended  BY <1>2 DEF Ended
<1>6. LineOK'
  <2> DEFINE g == <<x>>
             b == Line'
  <2>1. g \in Seq(Item) /\ <<>> \in Seq(Item) /\ b \in Seq(Item)  BY <1>3, OneMore
  <2>2. Line = <<>> ++ (g ++ b)
    <3>1. g ++ b \in Seq(Item) /\ Line = g ++ b
      <4>1. Line = g ++ b  BY <1>3
      <4> HIDE DEF g, b
      <4> QED  BY <2>1, <4>1, Regrouped
    <3> HIDE DEF g, b
    <3> QED  BY <3>1, Regrouped
  <2>3. Line' = <<>> ++ (<<>> ++ b)
    <3>1. Line' = b  OBVIOUS
    <3> HIDE DEF b
    <3> QED  BY <2>1, <3>1, Regrouped
  <2>4. Stands(g, <<>>, epoch_, source.epoch)  BY <1>3, <1>4, MayGo
  <2>5. LineOK  BY DEF Served
  <2> HIDE DEF g, b
  <2> QED  BY <1>3, <1>5, <2>1, <2>2, <2>3, <2>4, <2>5, LineReplaced
<1>7. ContainerOK'
  <2>1. ContainerOK  BY DEF Served
  <2> QED  BY <1>2, <2>1 DEF ContainerOK
<1>8. ChunksOK'  BY <1>2, Elsewhere DEF sessionVars
<1> QED  BY <1>3, <1>6, <1>7, <1>8 DEF Served

(* The container is abandoned for one that has not begun.                  *)
LEMMA FinishFlushServed ==
  ASSUME Typed, Served, UNCHANGED sessionVars, FinishFlush
  PROVE  Served'
<1> DEFINE x == Head(queue["up"])
<1>1. /\ FinishGet("flush") /\ UNCHANGED <<epoch_, closed, decodeVars, inferVars, flushVars, chunks>>
      /\ header' = FALSE /\ sink' = <<>> /\ need_discontinuity' = TRUE
  BY DEF FinishFlush
<1>2. /\ x \in Item /\ Line = <<x>> ++ Line' /\ Line' \in Seq(Item)
      /\ SameEpochs /\ (More' => More)
      /\ ~closed' /\ EpochsAgree' /\ FeedsOK'
  BY <1>1, FinishTaken
<1>3. LineOK  BY DEF Served
<1>4. /\ Ordered(Line', epoch_') /\ UpTo(Line', source'.epoch)
      /\ HasEnd(Line', epoch_') => ~More'
  <2> HIDE DEF x
  <2> QED  BY <1>2, <1>3, LineTaken
<1>5. ~Ended'  BY <1>1 DEF Ended
<1>6. LineOK'  BY <1>4, <1>5 DEF LineOK
<1>7. ContainerOK'  BY <1>1 DEF ContainerOK
<1>8. ChunksOK'  BY <1>1, Elsewhere DEF sessionVars
<1> QED  BY <1>2, <1>6, <1>7, <1>8 DEF Served

(* A chunk that is shipped is marked if it begins a container.             *)
LEMMA ShippedMarked ==
  ASSUME Typed, Served, UNCHANGED down_q, NEW e \in Epoch, NEW data \in Seq(0..Trailer),
         NEW more \in Seq(Chunk), Ship(e, data, more),
         \A i \in DOMAIN more : Marked(more[i]),
         data # <<>> => (need_discontinuity <=> Head(data) = Header)
  PROVE  ChunksOK'
<1> DEFINE c == [epoch |-> e, data |-> data, discontinuity |-> need_discontinuity, eos |-> FALSE]
           P == {k \in Chunk : Marked(k)}
<1>1. FinishTypes /\ ChunksOK  BY DEF Typed, Served
<1>2. c \in Chunk  BY <1>1 DEF FinishTypes, Chunk
<1>3. data # <<>> => c \in P  BY <1>2 DEF Marked
<1>4. \A i \in DOMAIN more : more[i] \in P
  <2>1. \A i \in DOMAIN more : more[i] \in Chunk  BY Members
  <2> QED  BY <2>1
<1>5. P \in SUBSET Chunk  OBVIOUS
<1> HIDE DEF P
<1>6. \A i \in DOMAIN chunks' : chunks'[i] \in P  BY <1>1, <1>3, <1>4, <1>5, Shipping
<1>7. \A i \in DOMAIN chunks' : Marked(chunks'[i])  BY <1>6 DEF P
<1>8. \A i \in DOMAIN down_q' : Marked(down_q'[i])  BY <1>1 DEF ChunksOK
<1> QED  BY <1>7, <1>8 DEF ChunksOK

(* What is muxed and shipped, of the epoch of the pipeline.                *)
LEMMA FinishMuxServed ==
  ASSUME Typed, Typed', Served, UNCHANGED sessionVars, FinishAux \/ FinishFrame \/ FinishEos
  PROVE  Served'
<1> DEFINE x == Head(queue["up"])
<1>1. PICK kind \in {"aux", "frame", "eos"} : FinishGet(kind)
  BY DEF FinishAux, FinishFrame, FinishEos
<1>2. UNCHANGED <<epoch_, closed, decodeVars, inferVars, flushVars>> /\ ~Stale(x)
  BY DEF FinishAux, FinishFrame, FinishEos
<1>3. /\ x \in Item /\ x.kind = kind /\ Line = <<x>> ++ Line' /\ Line' \in Seq(Item)
      /\ SameEpochs /\ (More' => More) /\ (Awaited' => Awaited)
      /\ ~closed' /\ EpochsAgree' /\ FeedsOK'
  BY <1>1, <1>2, FinishTaken
<1>4. Fresh(x, epoch_) /\ Payload(x)  BY <1>2, <1>3 DEF Fresh, Stale, Payload
<1>5. LineOK /\ ContainerOK /\ FinishTypes /\ EpochsAgree  BY DEF Served, Typed
<1>6. /\ Ordered(Line', epoch_') /\ UpTo(Line', source'.epoch)
      /\ HasEnd(Line', epoch_') => ~More'
      /\ Ended => ~Fresh(x, epoch_)
      /\ x.kind = "eos" /\ Fresh(x, epoch_) => Covered(Line', epoch_') /\ ~More'
  <2> HIDE DEF x
  <2> QED  BY <1>3, <1>5, LineTaken
<1>7. ~Ended /\ (need_discontinuity \/ header)  BY <1>4, <1>6 DEF Ended
<1>8. /\ need_discontinuity /\ header => sink # <<>> /\ Head(sink) = Header
      /\ ~(need_discontinuity /\ header) => sink = <<>>
  BY <1>5 DEF ContainerOK
<1>9. ASSUME ~Ended' PROVE LineOK'  BY <1>6, <1>9 DEF LineOK
<1>10. down_q' = down_q  BY DEF sessionVars
<1>11. ASSUME NEW data \in Seq(0..Trailer), \A p \in DOMAIN data : data[p] # Header
       PROVE  /\ Muxed(data) \in Seq(0..Trailer)
              /\ Muxed(data) = <<>> <=> sink = <<>> /\ data = <<>>
              /\ Muxed(data) # <<>> => (need_discontinuity <=> Head(Muxed(data)) = Header)
  <2>1. /\ Muxed(data) \in Seq(0..Trailer)
        /\ Muxed(data) = <<>> <=> sink = <<>> /\ data = <<>>
        /\ sink # <<>> => Head(Muxed(data)) = Head(sink)
        /\ sink = <<>> /\ data # <<>> =>
             Head(Muxed(data)) = IF header THEN Head(data) ELSE Header
    BY <1>5, Muxing
  <2>2. data # <<>> => Head(data) # Header
    <3>1. data # <<>> => Head(data) = data[1] /\ 1 \in DOMAIN data  BY Members
    <3> QED  BY <1>11, <3>1
  <2> HIDE DEF x
  <2> QED  BY <1>7, <1>8, <2>1, <2>2
<1>12. CASE FinishAux
  <2> DEFINE data == Muxed(<<x.pos>>)
  <2>1. FinishGet("aux")  BY <1>12 DEF FinishAux
  <2>2. x.pos \in Position /\ x.epoch \in Epoch
    <3>1. x.kind = "aux"  BY <2>1 DEF FinishGet
    <3> QED  BY <1>3, <3>1, Items
  <2>3. <<x.pos>> \in Seq(0..Trailer) /\ <<x.pos>> # <<>> /\ \A p \in DOMAIN <<x.pos>> : <<x.pos>>[p] # Header
    <3>1. x.pos \in 0..Trailer /\ x.pos # Header  BY <2>2, Bounds DEF Position, Header
    <3>2. DOMAIN <<x.pos>> = {1} /\ <<x.pos>>[1] = x.pos  OBVIOUS
    <3> QED  BY <3>1, <3>2, OneMore
  <2>4. /\ data \in Seq(0..Trailer) /\ data # <<>>
        /\ need_discontinuity <=> Head(data) = Header
    <3> DEFINE g == <<x.pos>>
    <3>1. g \in Seq(0..Trailer) /\ g # <<>> /\ \A p \in DOMAIN g : g[p] # Header  BY <2>3
    <3>2. data = Muxed(g)  OBVIOUS
    <3> HIDE DEF g, data
    <3> QED  BY <1>11, <3>1, <3>2
  <2>5. header' = TRUE  BY <1>12 DEF FinishAux
  <2>6. LineOK'  BY <1>9, <2>5 DEF Ended
  <2>7. CASE need_discontinuity
    <3>1. sink' = data /\ UNCHANGED <<finish, need_discontinuity, chunks>>
      BY <1>12, <2>7 DEF FinishAux
    <3>2. ContainerOK'  BY <2>4, <2>5, <2>7, <3>1 DEF ContainerOK
    <3>3. ChunksOK'  BY <1>10, <3>1, Elsewhere
    <3> QED  BY <1>3, <2>6, <3>2, <3>3 DEF Served
  <2>8. CASE ~need_discontinuity
    <3>1. Ship(x.epoch, data, <<>>)  BY <1>12, <2>8 DEF FinishAux
    <3>2. <<>> \in Seq(Chunk) /\ DOMAIN <<>> = {}  OBVIOUS
    <3> HIDE DEF data, x
    <3>3. need_discontinuity' = FALSE /\ sink' = <<>>  BY <2>8, <3>1 DEF Ship
    <3>4. ContainerOK'  BY <3>3 DEF ContainerOK
    <3>5. ChunksOK'  BY <1>10, <2>2, <2>4, <3>1, <3>2, ShippedMarked
    <3> QED  BY <1>3, <2>6, <3>4, <3>5 DEF Served
  <2> QED  BY <2>7, <2>8
<1>13. CASE FinishFrame
  <2>1. FinishGet("frame")  BY <1>13 DEF FinishFrame
  <2>2. x.pos \in Position /\ x.epoch \in Epoch
    <3>1. x.kind = "frame"  BY <2>1 DEF FinishGet
    <3> QED  BY <1>3, <3>1, Items
  <2> DEFINE out == Released(Append(encoder, x.pos))
             data == Muxed(out)
  <2>3. out \in Seq(Position)
    <3>1. Append(encoder, x.pos) \in Seq(Position)  BY <1>5, <2>2, OneMore DEF FinishTypes
    <3> QED  BY <3>1, Codec
  <2>4. out \in Seq(0..Trailer) /\ \A p \in DOMAIN out : out[p] # Header
    <3> HIDE DEF out
    <3>1. \A p \in DOMAIN out : out[p] \in Position  BY <2>3, Members
    <3>2. Position \subseteq 0..Trailer  BY Bounds
    <3>3. \A S, T : S \subseteq T /\ out \in Seq(S) => out \in Seq(T)  OBVIOUS
    <3>4. \A p \in Position : p # Header  BY DEF Position, Header
    <3> QED  BY <2>3, <3>1, <3>2, <3>3, <3>4
  <2>5. header' = (header \/ out # <<>>) /\ Ship(x.epoch, data, <<>>)  BY <1>13 DEF FinishFrame
  <2> HIDE DEF out, x
  <2>6. /\ data \in Seq(0..Trailer)
        /\ data = <<>> <=> sink = <<>> /\ out = <<>>
        /\ data # <<>> => (need_discontinuity <=> Head(data) = Header)
    BY <1>11, <2>4
  <2> HIDE DEF data
  <2>7. need_discontinuity' = (need_discontinuity /\ data = <<>>) /\ sink' = <<>>  BY <2>5 DEF Ship
  <2>8. <<>> \in Seq(Chunk) /\ DOMAIN <<>> = {}  OBVIOUS
  <2>9. ChunksOK'  BY <1>10, <2>2, <2>5, <2>6, <2>8, ShippedMarked
  <2>10. ~Ended' /\ ~(need_discontinuity' /\ header')
    BY <1>7, <1>8, <2>5, <2>6, <2>7 DEF Ended
  <2>11. ContainerOK'  BY <2>7, <2>10 DEF ContainerOK
  <2> QED  BY <1>3, <1>9, <2>9, <2>10, <2>11 DEF Served
<1>14. CASE FinishEos
  <2>1. x.kind = "eos" /\ x.epoch \in Epoch
    <3>1. x.kind = "eos"  BY <1>14 DEF FinishEos, FinishGet
    <3> QED  BY <1>3, <3>1, Items
  <2> DEFINE out == Append(encoder, Trailer)
             data == Muxed(out)
             end == [epoch |-> x.epoch, data |-> <<>>, discontinuity |-> FALSE, eos |-> TRUE]
             more == <<end>>
  <2>2. out \in Seq(0..Trailer) /\ out # <<>> /\ \A p \in DOMAIN out : out[p] # Header
    <3>1. encoder \in Seq(Position)  BY <1>5 DEF FinishTypes
    <3>2. \A S, T : S \subseteq T /\ encoder \in Seq(S) => encoder \in Seq(T)  OBVIOUS
    <3>3. Position \subseteq 1..Trailer /\ Trailer \in 1..Trailer /\ 1..Trailer \subseteq 0..Trailer
      BY Bounds DEF Position
    <3>4. encoder \in Seq(1..Trailer)  BY <3>1, <3>2, <3>3
    <3>5. out \in Seq(1..Trailer) /\ out # <<>>  BY <3>3, <3>4, OneMore
    <3>6. \A p \in DOMAIN out : out[p] \in 1..Trailer
      <4> HIDE DEF out
      <4> QED  BY <3>5, Members
    <3>7. out \in Seq(0..Trailer)
      <4>1. \A S, T : S \subseteq T /\ out \in Seq(S) => out \in Seq(T)  OBVIOUS
      <4> HIDE DEF out
      <4> QED  BY <3>3, <3>5, <4>1
    <3> QED  BY <3>5, <3>6, <3>7 DEF Header
  <2>3. end \in Chunk /\ Marked(end)
    <3>1. \A S : <<>> \in Seq(S)  OBVIOUS
    <3>2. end \in Chunk  BY <2>1, <3>1 DEF Chunk
    <3>3. end.discontinuity = FALSE /\ end.data = <<>>  OBVIOUS
    <3> QED  BY <3>2, <3>3 DEF Marked
  <2>4. more \in Seq(Chunk) /\ \A p \in DOMAIN more : Marked(more[p])
    <3>1. DOMAIN more = {1} /\ more[1] = end  OBVIOUS
    <3> HIDE DEF end
    <3> QED  BY <2>3, <3>1, OneMore
  <2>5. header' = FALSE /\ Ship(x.epoch, data, more)  BY <1>14 DEF FinishEos
  <2> HIDE DEF out, x, more
  <2>6. /\ data \in Seq(0..Trailer) /\ data # <<>>
        /\ need_discontinuity <=> Head(data) = Header
    BY <1>11, <2>2
  <2> HIDE DEF data
  <2>7. need_discontinuity' = FALSE /\ sink' = <<>>  BY <2>5, <2>6 DEF Ship
  <2>8. ChunksOK'  BY <1>10, <2>1, <2>4, <2>5, <2>6, ShippedMarked
  <2>9. ContainerOK'  BY <2>7 DEF ContainerOK
  <2>10. ~Awaited'
    <3>1. SUFFICES ASSUME Awaited' PROVE FALSE  OBVIOUS
    <3>2. epoch_ = source.epoch + 1  BY <1>3, <1>5, <3>1 DEF Awaited, EpochsAgree
    <3>3. x.epoch <= source.epoch
      <4> DEFINE b == Line'
      <4>1. UpTo(<<x>> ++ b, source.epoch)  BY <1>3, <1>5 DEF LineOK
      <4>2. <<x>> \in Seq(Item) /\ b \in Seq(Item)  BY <1>3, OneMore
      <4> HIDE DEF b
      <4>3. UpTo(<<x>>, source.epoch)  BY <4>1, <4>2, Parts
      <4> QED  BY <1>4, <4>3, Units
    <3>4. x.epoch \in Nat /\ source.epoch \in Nat
      BY <2>1, Bounds DEF Typed, SessionTypes
    <3> QED  BY <1>4, <3>2, <3>3, <3>4 DEF Fresh
  <2>11. LineOK'  BY <1>4, <1>6, <2>1, <2>10 DEF LineOK
  <2> QED  BY <1>3, <2>8, <2>9, <2>11 DEF Served
<1> QED  BY <1>12, <1>13, <1>14

(* The epochs are numbers, and the pipeline's is never behind the source's *)
(* nor ahead of the session's.                                             *)
LEMMA Epochs ==
  ASSUME Typed, Served
  PROVE  /\ epoch \in Nat /\ epoch_ \in Nat /\ source.epoch \in Nat
         /\ source.epoch <= epoch_
         /\ \A f \in feeds : f \in Item /\ f.epoch \in Nat
<1>1. epoch \in Nat /\ epoch_ \in Nat /\ source.epoch \in Nat
  BY Bounds DEF Typed, SessionTypes, ControlTypes
<1>2. source.epoch <= epoch_
  <2>1. epoch_ = source.epoch \/ epoch_ = source.epoch + 1
    BY DEF Served, EpochsAgree, Typed, SessionTypes
  <2> QED  BY <1>1, <2>1
<1>3. \A f \in feeds : f \in Item  BY DEF Typed, SessionTypes
<1>4. \A f \in feeds : f.epoch \in Nat  BY <1>3, Items, Bounds
<1> QED  BY <1>1, <1>2, <1>3, <1>4

(* The source hands out a packet more, or ends.                            *)
LEMMA SourceServed ==
  ASSUME Typed, Served, SourceStep
  PROVE  Served'
<1>1. UNCHANGED pipelineVars /\ UNCHANGED <<epoch, seek, down_q, client, stream>>
  BY DEF SourceStep, SourceFeed, SourceEnd
<1>2. /\ UNCHANGED <<queueVars, decodeVars, inferVars, finishVars, flushVars>>
      /\ UNCHANGED <<queue, epoch_, closed, flush, flush_epoch, header, need_discontinuity, chunks>>
  BY <1>1 DEF pipelineVars, queueVars, flushVars, finishVars
<1>3. /\ EpochsAgree /\ FeedsOK /\ LineOK /\ ~closed'
      /\ ContainerOK' /\ ChunksOK'
  <2>1. ~closed' /\ ContainerOK' /\ ChunksOK'  BY <1>1, <1>2, Elsewhere
  <2> QED  BY <2>1 DEF Served
<1>4. Line' = Line /\ InferDead' = InferDead /\ DecodeDead' = DecodeDead
  BY <1>2 DEF Line, InferLine, InferDead, Inferring, DecodeLine, DecodeDead, Pacing, decodeVars, inferVars
<1>5. source'.epoch = source.epoch
  BY DEF SourceStep, SourceFeed, SourceEnd, Typed, SessionTypes
<1>6. EpochsAgree'  BY <1>1, <1>2, <1>3, <1>5 DEF EpochsAgree
<1>7. SameEpochs /\ (Ended' => Ended) /\ (Awaited' => Awaited)
  BY <1>1, <1>2, <1>4, <1>5 DEF SameEpochs, Ended, Awaited
<1>8. CASE SourceEnd
  <2>1. feeds' = feeds /\ source'.next = source.next
    BY <1>8 DEF SourceEnd, Typed, SessionTypes
  <2>2. FeedsOK'  BY <1>3, <1>5, <2>1 DEF FeedsOK
  <2>3. More' => More  BY <1>2, <1>4, <1>5, <2>1 DEF More
  <2>4. LineOK'  BY <1>3, <1>4, <1>7, <2>3, LineSame
  <2> QED  BY <1>3, <1>6, <2>2, <2>4 DEF Served
<1>9. CASE SourceFeed
  <2>1. PICK p \in Merged(source.epoch) \cup {Trailer} :
          /\ p >= source.next /\ feeds' = feeds \cup {ReadItem(source.epoch, p)}
          /\ source' = [source EXCEPT !.next = p + 1]
    BY <1>9 DEF SourceFeed
  <2> DEFINE g == ReadItem(source.epoch, p)
  <2>2. p \in Int /\ p <= Trailer /\ source.next \in Int /\ source'.next = p + 1
    <3>1. source'.next = p + 1 /\ source.next \in Int  BY <2>1 DEF Typed, SessionTypes
    <3>2. p \in Int /\ p <= Trailer  BY <2>1, Bounds DEF Merged, Position
    <3> QED  BY <3>1, <3>2
  <2>3. /\ g.epoch = source.epoch /\ g.kind \in {"video", "aux", "eos"}
        /\ g.kind = "eos" => p = Trailer
    BY DEF ReadItem
  <2>4. ~Feeding  BY <1>9 DEF SourceFeed
  <2> HIDE DEF g
  <2>5. source.epoch \in Nat /\ epoch_ \in Nat  BY Epochs
  <2>6. FeedsOK'
    <3>1. \A f \in feeds : f.epoch # source.epoch  BY <2>4 DEF Feeding
    <3>2. feeds' = feeds \cup {g}  BY <2>1 DEF g
    <3>3. \A f \in feeds' : f.epoch <= source'.epoch /\ f.kind \in {"video", "aux", "eos"}
      BY <1>3, <1>5, <2>3, <2>5, <3>2 DEF FeedsOK
    <3>4. \A f, h \in feeds' : f.epoch = source'.epoch /\ h.epoch = source'.epoch => f = h
      BY <1>5, <3>1, <3>2
    <3>5. \A f \in feeds' : f.epoch = source'.epoch /\ f.kind = "eos" => source'.next > Trailer
      BY <1>5, <2>2, <2>3, <3>1, <3>2, Bounds
    <3> QED  BY <3>3, <3>4, <3>5 DEF FeedsOK
  <2>7. More' => More
    <3>1. SUFFICES ASSUME More', ~More PROVE FALSE  OBVIOUS
    <3>2. ~DecodeDead /\ ~InferDead  BY <1>4, <3>1 DEF More
    <3>3. source.epoch # epoch_
      <4>1. source.next <= Trailer  BY <2>1, <2>2, Bounds
      <4> QED  BY <3>1, <3>2, <4>1 DEF More
    <3>4. \E f \in feeds' : Fresh(f, epoch_)  BY <1>2, <1>5, <3>1, <3>3 DEF More
    <3>5. \A f \in feeds : ~Fresh(f, epoch_)  BY <3>1, <3>2 DEF More
    <3>6. Fresh(g, epoch_)  BY <2>1, <3>4, <3>5 DEF g
    <3>7. source.epoch <= epoch_  BY Epochs
    <3> QED  BY <2>3, <2>5, <3>3, <3>6, <3>7 DEF Fresh
  <2>8. LineOK'  BY <1>3, <1>4, <1>7, <2>7, LineSame
  <2> QED  BY <1>3, <1>6, <2>6, <2>8 DEF Served
<1> QED  BY <1>8, <1>9 DEF SourceStep

(* What an executor thread feeds is added at the end of the line.          *)
LEMMA FeedServed ==
  ASSUME Typed, Served, NEW f \in feeds, Feed(f)
  PROVE  Served'
<1>1. /\ UNCHANGED <<epoch_, closed, decodeVars, inferVars, finishVars, flushVars, epoch, seek, source, down_q>>
      /\ feeds' = feeds \ {f}
  BY DEF Feed
<1>2. UNCHANGED <<flush, flush_epoch, header, need_discontinuity, chunks>>
  BY <1>1 DEF flushVars, finishVars
<1>3. /\ EpochsAgree /\ FeedsOK /\ LineOK /\ ~closed
      /\ ~closed' /\ EpochsAgree' /\ ContainerOK' /\ ChunksOK'
  <2>1. ~closed' /\ ContainerOK' /\ ChunksOK' /\ EpochsAgree'  BY <1>1, <1>2, Elsewhere
  <2> QED  BY <2>1 DEF Served
<1>4. FeedsOK'  BY <1>1, <1>3 DEF FeedsOK
<1>5. Room("in") /\ Put("in", f)  BY <1>3 DEF Feed
<1>6. f \in Item /\ f.epoch \in Nat /\ epoch_ \in Nat /\ source.epoch \in Nat /\ source.epoch <= epoch_
  BY Epochs
<1> DEFINE g == <<f>>
           i == queue["in"]
<1>7. /\ queue'["in"] = i ++ g /\ queue'["up"] = queue["up"] /\ queue'["dec"] = queue["dec"]
  BY <1>5, <1>6, QueueOps DEF Typed, QueueName
<1>8. /\ g \in Seq(Item) /\ i \in Seq(Item) /\ decoded \in Seq(Item) /\ Pacing \in Seq(Item)
      /\ queue["dec"] \in Seq(Item) /\ queue["up"] \in Seq(Item) /\ Inferring \in Seq(Item)
      /\ DecodeLine \in Seq(Item) /\ Line \in Seq(Item)
  BY <1>6, LineItems, OneMore
<1>9. InferDead' = InferDead /\ DecodeDead' = DecodeDead /\ Inferring' = Inferring /\ Pacing' = Pacing
      /\ decoded' = decoded
  BY <1>1 DEF InferDead, Inferring, DecodeDead, Pacing, decodeVars, inferVars
<1>10. SameEpochs /\ (More' => More) /\ (Ended' => Ended) /\ (Awaited' => Awaited)
  <2>1. SameEpochs  BY <1>1 DEF SameEpochs
  <2>2. More' => More  BY <1>1, <1>9 DEF More
  <2>3. (Ended' => Ended) /\ (Awaited' => Awaited)  BY <1>1, <1>2, <1>9 DEF Ended, Awaited
  <2> QED  BY <2>1, <2>2, <2>3
<1>11. CASE DecodeDead \/ InferDead
  <2>1. Line' = Line  BY <1>7, <1>9, <1>11 DEF Line, InferLine, DecodeLine
  <2>2. LineOK'  BY <1>3, <1>10, <2>1, LineSame
  <2> QED  BY <1>3, <1>4, <2>2 DEF Served
<1>12. CASE ~DecodeDead /\ ~InferDead
  <2>1. Line' = Line ++ g
    <3> DEFINE a == queue["up"] ++ (Inferring ++ queue["dec"])
    <3>1. DecodeLine' = DecodeLine ++ g
      <4>1. DecodeLine = decoded ++ (Pacing ++ i)  BY <1>12 DEF DecodeLine
      <4>2. DecodeLine' = decoded ++ (Pacing ++ (i ++ g))  BY <1>7, <1>9, <1>12 DEF DecodeLine
      <4> HIDE DEF i, g
      <4> QED  BY <1>8, <4>1, <4>2, Regrouped4
    <3>2. Line = queue["up"] ++ (Inferring ++ (queue["dec"] ++ DecodeLine))
      BY <1>12 DEF Line, InferLine
    <3>3. Line' = queue["up"] ++ (Inferring ++ (queue["dec"] ++ (DecodeLine ++ g)))
      BY <1>7, <1>9, <1>12, <3>1 DEF Line, InferLine
    <3> DEFINE u == queue["up"]
               d == queue["dec"]
    <3>4. u \in Seq(Item) /\ d \in Seq(Item)  BY <1>8
    <3>5. Line = u ++ (Inferring ++ (d ++ DecodeLine))  BY <3>2
    <3>6. Line' = u ++ (Inferring ++ (d ++ (DecodeLine ++ g)))  BY <3>3
    <3> HIDE DEF u, d, g
    <3>7. d ++ DecodeLine \in Seq(Item) /\ d ++ (DecodeLine ++ g) = (d ++ DecodeLine) ++ g
      BY <1>8, <3>4, Regrouped
    <3>8. u ++ (Inferring ++ ((d ++ DecodeLine) ++ g)) = (u ++ (Inferring ++ (d ++ DecodeLine))) ++ g
      BY <1>8, <3>4, <3>7, Regrouped4
    <3> QED  BY <3>5, <3>6, <3>7, <3>8
  <2>2. Payload(f) /\ f.kind \in {"video", "aux", "eos"} /\ f.epoch <= source.epoch
    BY <1>3 DEF FeedsOK, Payload
  <2>3. Fresh(f, epoch_) => More /\ f.epoch = source.epoch /\ source.epoch = epoch_
    <3>1. Fresh(f, epoch_) => More  BY <1>12 DEF More
    <3>2. Fresh(f, epoch_) => f.epoch = source.epoch /\ source.epoch = epoch_
      BY <1>6, <2>2 DEF Fresh
    <3> QED  BY <3>1, <3>2
  <2>4. /\ Ordered(Line ++ g, epoch_) <=> /\ Ordered(Line, epoch_)
                                          /\ f.kind = "flush" => ~HasFresh(Line, epoch_)
                                          /\ HasEnd(Line, epoch_) => ~Fresh(f, epoch_)
        /\ UpTo(Line ++ g, source.epoch) <=> UpTo(Line, source.epoch) /\ (Payload(f) => f.epoch <= source.epoch)
        /\ HasEnd(Line ++ g, epoch_) <=> HasEnd(Line, epoch_) \/ (Fresh(f, epoch_) /\ f.kind = "eos")
        /\ HasMark(Line ++ g) <=> HasMark(Line) \/ f.kind = "flush"
        /\ Covered(Line ++ g, epoch_) <=> Covered(Line, epoch_) /\ (HasMark(Line) \/ ~Fresh(f, epoch_))
    BY <1>6, <1>8, LineAppended
  <2>5. Fresh(f, epoch_) /\ f.kind = "eos" => ~More'
    <3>1. SUFFICES ASSUME Fresh(f, epoch_), f.kind = "eos", More' PROVE FALSE  OBVIOUS
    <3>2. source.next > Trailer  BY <1>3, <2>3, <3>1 DEF FeedsOK
    <3>3. source.next \in Int /\ Trailer \in Int  BY Bounds DEF Typed, SessionTypes
    <3>4. PICK h \in feeds' : Fresh(h, epoch_)  BY <1>1, <3>1, <3>2, <3>3 DEF More
    <3>5. h \in feeds /\ h # f  BY <1>1
    <3>6. h.epoch <= source.epoch /\ h.epoch \in Nat  BY <1>3, <3>5, Epochs DEF FeedsOK
    <3>7. h.epoch = source.epoch  BY <1>6, <2>3, <3>1, <3>4, <3>6 DEF Fresh
    <3> QED  BY <1>3, <2>3, <3>1, <3>5, <3>7 DEF FeedsOK
  <2> HIDE DEF g
  <2>6. /\ Ordered(Line', epoch_') /\ UpTo(Line', source'.epoch)
        /\ HasEnd(Line', epoch_') => ~More'
    BY <1>3, <1>10, <2>1, <2>2, <2>3, <2>4, <2>5 DEF LineOK, SameEpochs
  <2>7. /\ Ended' => Covered(Line', epoch_')
        /\ Ended' /\ (More' \/ Awaited') => HasMark(Line')
    BY <1>3, <1>10, <2>1, <2>2, <2>3, <2>4 DEF LineOK, SameEpochs
  <2>8. LineOK'  BY <2>6, <2>7 DEF LineOK
  <2> QED  BY <1>3, <1>4, <2>8 DEF Served
<1> QED  BY <1>11, <1>12

(* Chunks go from pl-finish to the client.                                 *)
LEMMA DownlinkServed ==
  ASSUME Typed, Served, EmitStep \/ RunDownlink \/ (FinishFails /\ UNCHANGED sessionVars)
  PROVE  Served'
<1>1. /\ UNCHANGED <<queueVars, decodeVars, inferVars, flushVars, header, sink, need_discontinuity>>
      /\ UNCHANGED <<epoch, seek, source, feeds>>
  BY DEF EmitStep, EmitCheck, EmitDeliver, RunDownlink, FinishFails, sessionVars, pipelineVars, finishVars
<1>2. UNCHANGED <<queue, epoch_, closed, flush, flush_epoch>>  BY <1>1 DEF queueVars, flushVars
<1>3. ~closed' /\ EpochsAgree' /\ FeedsOK'  BY <1>1, <1>2, Elsewhere
<1>4. ContainerOK'  BY <1>1 DEF Served, ContainerOK
<1>5. LineOK'
  <2>1. Line' = Line /\ SameEpochs /\ (More' => More) /\ (Ended' => Ended) /\ (Awaited' => Awaited)
    BY <1>1, <1>2 DEF Line, InferLine, InferDead, Inferring, DecodeLine, DecodeDead, Pacing, decodeVars,
       inferVars, SameEpochs, More, Ended, Awaited
  <2>2. LineOK  BY DEF Served
  <2> QED  BY <2>1, <2>2, LineSame
<1>6. ChunksOK'
  <2>1. /\ \A i \in DOMAIN chunks : Marked(chunks[i])
        /\ \A i \in DOMAIN down_q : Marked(down_q[i])
        /\ chunks \in Seq(Chunk) /\ down_q \in Seq(Chunk)
    BY DEF Served, ChunksOK, Typed, FinishTypes, SessionTypes
  <2>2. \A s \in Seq(Chunk) : s # <<>> /\ (\A i \in DOMAIN s : Marked(s[i])) =>
          /\ Head(s) \in Chunk /\ Marked(Head(s))
          /\ \A i \in DOMAIN Tail(s) : Marked(Tail(s)[i])
    <3> SUFFICES ASSUME NEW s \in Seq(Chunk), s # <<>>, \A i \in DOMAIN s : Marked(s[i])
                 PROVE  /\ Head(s) \in Chunk /\ Marked(Head(s))
                        /\ \A i \in DOMAIN Tail(s) : Marked(Tail(s)[i])
      OBVIOUS
    <3>1. Head(s) = s[1] /\ 1 \in DOMAIN s /\ Head(s) \in Chunk  BY Members
    <3>2. \A i \in DOMAIN Tail(s) : Tail(s)[i] = s[i + 1] /\ i + 1 \in DOMAIN s  OBVIOUS
    <3> QED  BY <3>1, <3>2
  <2>3. \/ chunks' = chunks
        \/ chunks' = <<>>
        \/ chunks # <<>> /\ chunks' = Tail(chunks)
    BY DEF EmitStep, EmitCheck, EmitDeliver, NextChunk, RunDownlink, FinishFails, pipelineVars,
       finishVars, Typed, FinishTypes
  <2>4. \/ down_q' = down_q
        \/ down_q # <<>> /\ down_q' = Tail(down_q)
        \/ chunks # <<>> /\ down_q' = Append(down_q, Head(chunks))
    BY DEF EmitStep, EmitCheck, EmitDeliver, RunDownlink, FinishFails, sessionVars, Typed, FinishTypes
  <2>5. \A i \in DOMAIN chunks' : Marked(chunks'[i])
    <3>1. DOMAIN <<>> = {}  OBVIOUS
    <3>2. CASE chunks # <<>> /\ chunks' = Tail(chunks)  BY <2>1, <2>2, <3>2
    <3> QED  BY <2>1, <2>3, <3>1, <3>2
  <2>6. \A i \in DOMAIN down_q' : Marked(down_q'[i])
    <3>1. CASE down_q' = down_q  BY <2>1, <3>1
    <3>2. CASE down_q # <<>> /\ down_q' = Tail(down_q)  BY <2>1, <2>2, <3>2
    <3>3. CASE chunks # <<>> /\ down_q' = Append(down_q, Head(chunks))
      <4>1. Head(chunks) \in Chunk /\ Marked(Head(chunks))  BY <2>1, <2>2, <3>3
      <4>2. \A i \in DOMAIN Append(down_q, Head(chunks)) :
              \/ i \in DOMAIN down_q /\ Append(down_q, Head(chunks))[i] = down_q[i]
              \/ Append(down_q, Head(chunks))[i] = Head(chunks)
        BY <2>1, <4>1
      <4> QED  BY <2>1, <3>3, <4>1, <4>2
    <3> QED  BY <2>4, <3>1, <3>2, <3>3
  <2> QED  BY <2>5, <2>6 DEF ChunksOK
<1> QED  BY <1>3, <1>4, <1>5, <1>6 DEF Served

(* Nothing of the line is of the epoch a seek asks for, before the marker. *)
LEMMA NothingFresh ==
  ASSUME Typed, Served, NEW s \in Seq(Item), UpTo(s, source.epoch), NEW e, e = source.epoch + 1
  PROVE  /\ ~HasFresh(s, e) /\ Ordered(s, e) /\ Covered(s, e) /\ ~HasEnd(s, e)
         /\ ~\E f \in feeds : Fresh(f, e)
<1>1. source.epoch \in Nat /\ e \in Nat /\ source.epoch < e  BY Epochs
<1>2. ~HasFresh(s, e)  BY <1>1, Older
<1>3. ASSUME NEW f \in feeds PROVE ~Fresh(f, e)
  <2>1. f.epoch <= source.epoch /\ f.epoch \in Nat  BY Epochs DEF Served, FeedsOK
  <2> QED  BY <1>1, <2>1 DEF Fresh
<1> QED  BY <1>2, <1>3, NoneFresh

(* What the client and a seek do.                                          *)
LEMMA SeekServed ==
  ASSUME Typed, Served, close = "open", ClientStep \/ SeekStep \/ SeekBegin
  PROVE  Served'
<1>1. /\ UNCHANGED <<queue, epoch_, closed, decodeVars, inferVars, finishVars>>
      /\ UNCHANGED <<feeds, chunks, header, need_discontinuity>>
  BY DEF ClientStep, Play, BufferReport, SeekStep, SeekDrain, SeekFlush, SeekRestart, SeekAborts,
         SeekBegin, pipelineVars, queueVars, sessionVars, finishVars
<1>2. ~closed' /\ ContainerOK'  BY <1>1, Elsewhere
<1>3. /\ Line' = Line /\ DecodeDead' = DecodeDead /\ InferDead' = InferDead /\ Ended' = Ended
  BY <1>1 DEF Line, InferLine, InferDead, Inferring, DecodeLine, DecodeDead, Pacing, decodeVars,
     inferVars, Ended
<1>4. EpochsAgree /\ FeedsOK /\ LineOK /\ ChunksOK  BY DEF Served
<1>5. ChunksOK'
  <2>1. down_q' = down_q \/ down_q' = <<>>
    BY DEF ClientStep, Play, BufferReport, SeekStep, SeekDrain, SeekFlush, SeekRestart, SeekAborts,
           SeekBegin, sessionVars
  <2>2. DOMAIN <<>> = {}  OBVIOUS
  <2> QED  BY <1>1, <1>4, <2>1, <2>2 DEF ChunksOK
<1>6. source.epoch \in Nat /\ epoch \in Nat /\ epoch_ \in Nat  BY Epochs
<1>7. CASE ClientStep
  <2>1. UNCHANGED <<seek, epoch, source, feeds, flush, flush_epoch>>
    BY <1>7 DEF ClientStep, Play, BufferReport, pipelineVars, flushVars, sessionVars
  <2>2. EpochsAgree' /\ FeedsOK'  BY <1>1, <2>1, Elsewhere
  <2>3. LineOK'  BY <1>1, <1>3, <1>4, <2>1, LineSame DEF SameEpochs, More, Awaited
  <2> QED  BY <1>2, <1>5, <2>2, <2>3 DEF Served
<1>8. CASE SeekBegin \/ SeekDrain \/ SeekFlush
  <2>1. source'.epoch = source.epoch /\ source'.next = source.next
    BY <1>8 DEF SeekBegin, SeekDrain, SeekFlush, Typed, SessionTypes
  <2>2. FeedsOK'  BY <1>1, <1>4, <2>1 DEF FeedsOK
  <2>3. EpochsAgree'
    <3>1. CASE SeekBegin
      <4>1. seek = "idle" /\ seek' = "drain" /\ epoch' = epoch + 1 /\ UNCHANGED <<flush, flush_epoch>>
        BY <3>1 DEF SeekBegin, pipelineVars, flushVars
      <4> QED  BY <1>1, <1>4, <2>1, <4>1 DEF EpochsAgree
    <3>2. CASE SeekDrain
      <4>1. seek = "drain" /\ seek' = "source" /\ UNCHANGED <<epoch, flush, flush_epoch>>
        BY <3>2 DEF SeekDrain, flushVars
      <4> QED  BY <1>1, <1>4, <2>1, <4>1 DEF EpochsAgree
    <3>3. CASE SeekFlush
      <4>1. seek = "source" /\ seek' = "flush" /\ flush' = "called" /\ flush_epoch' = epoch
            /\ UNCHANGED epoch
        BY <3>3 DEF SeekFlush
      <4> QED  BY <1>1, <1>4, <2>1, <4>1 DEF EpochsAgree
    <3> QED  BY <1>8, <3>1, <3>2, <3>3
  <2>4. ~Awaited'
    BY <1>8 DEF SeekBegin, SeekDrain, SeekFlush, Awaited
  <2>5. (More' => More) /\ SameEpochs  BY <1>1, <1>3, <2>1 DEF More, SameEpochs
  <2>6. LineOK'  BY <1>3, <1>4, <2>4, <2>5, LineSame
  <2> QED  BY <1>2, <1>5, <2>2, <2>3, <2>6 DEF Served
<1>9. CASE SeekRestart
  <2>1. /\ seek = "flush" /\ flush = "idle" /\ seek' = "idle" /\ flush' = "idle" /\ epoch' = epoch
        /\ source' = [on |-> TRUE, epoch |-> epoch, next |-> 1]
    BY <1>9 DEF SeekRestart, SessionClosed, pipelineVars, flushVars
  <2>2. epoch = source.epoch + 1 /\ epoch_ = epoch  BY <1>4, <2>1 DEF EpochsAgree
  <2>3. source'.epoch = epoch  BY <2>1
  <2>4. EpochsAgree'  BY <1>1, <2>1, <2>2, <2>3 DEF EpochsAgree
  <2>5. \A f \in feeds : f.epoch <= source.epoch /\ f.epoch \in Nat /\ f.kind \in {"video", "aux", "eos"}
    BY <1>4, Epochs DEF FeedsOK
  <2>6. \A f \in feeds : f.epoch <= epoch /\ f.epoch # epoch  BY <1>6, <2>2, <2>5
  <2>7. FeedsOK'  BY <1>1, <2>3, <2>5, <2>6 DEF FeedsOK
  <2>8. Line \in Seq(Item)  BY LineItems
  <2>9. ~HasFresh(Line, epoch_) /\ ~HasEnd(Line, epoch_)
    BY <1>4, <2>2, <2>8, NothingFresh DEF LineOK
  <2>10. UpTo(Line, epoch)
    <3>1. \A i \in DOMAIN Line : Payload(Line[i]) => Line[i].epoch <= source.epoch
      BY <1>4 DEF LineOK, UpTo
    <3>2. \A i \in DOMAIN Line : Line[i].epoch \in Nat
      <4>1. \A i \in DOMAIN Line : Line[i] \in Item  BY <2>8, Members
      <4> QED  BY <4>1, Items, Bounds
    <3>3. \A i \in DOMAIN Line : Payload(Line[i]) => Line[i].epoch <= epoch
      BY <1>6, <2>2, <3>1, <3>2
    <3> QED  BY <3>3 DEF UpTo
  <2>11. Ended /\ More' => HasMark(Line)
    <3>1. More' => ~DecodeDead /\ ~InferDead  BY <1>3 DEF More
    <3> QED  BY <1>4, <2>1, <3>1 DEF LineOK, Awaited
  <2>12. ~Awaited'  BY <2>1 DEF Awaited
  <2>13. LineOK'
    BY <1>1, <1>3, <1>4, <2>3, <2>9, <2>10, <2>11, <2>12 DEF LineOK
  <2> QED  BY <1>2, <1>5, <2>4, <2>7, <2>13 DEF Served
<1>10. CASE SeekAborts  BY <1>10 DEF SeekAborts, PipelineTaken
<1> QED  BY <1>7, <1>8, <1>9, <1>10 DEF SeekStep

(* What Pipeline.flush does.                                               *)
LEMMA FlushServed ==
  ASSUME Typed, Served, FlushStep, UNCHANGED sessionVars
  PROVE  Served'
<1>1. /\ UNCHANGED <<closed, decodeVars, inferVars, finishVars, flush_epoch, epoch, seek, source, feeds>>
      /\ UNCHANGED <<chunks, down_q, header, need_discontinuity>>
  BY DEF FlushStep, FlushSignal, FlushEpoch, FlushDrain, FlushPut, sessionVars, finishVars
<1>2. ~closed' /\ ContainerOK' /\ ChunksOK' /\ FeedsOK'  BY <1>1, Elsewhere
<1>3. EpochsAgree /\ FeedsOK /\ LineOK  BY DEF Served
<1>4. flush # "idle" /\ seek = "flush" /\ epoch = source.epoch + 1 /\ flush_epoch = epoch
      /\ epoch_ = IF flush \in {"called", "signal"} THEN source.epoch ELSE epoch
  <2>1. flush # "idle"  BY DEF FlushStep, FlushSignal, FlushEpoch, FlushDrain, FlushPut
  <2> QED  BY <1>3, <2>1 DEF EpochsAgree
<1>5. /\ DecodeDead' = DecodeDead /\ InferDead' = InferDead /\ Ended' = Ended
      /\ Inferring' = Inferring /\ Pacing' = Pacing /\ decoded' = decoded
  BY <1>1 DEF InferDead, Inferring, DecodeDead, Pacing, decodeVars, inferVars, Ended
<1>6. /\ queue["in"] \in Seq(Item) /\ decoded \in Seq(Item) /\ Pacing \in Seq(Item)
      /\ queue["dec"] \in Seq(Item) /\ queue["up"] \in Seq(Item) /\ Inferring \in Seq(Item)
      /\ DecodeLine \in Seq(Item) /\ Line \in Seq(Item)
  BY LineItems
<1>7. source.epoch \in Nat /\ epoch \in Nat  BY Epochs
<1>8. /\ ~HasFresh(Line, epoch) /\ Ordered(Line, epoch) /\ Covered(Line, epoch) /\ ~HasEnd(Line, epoch)
      /\ ~\E f \in feeds : Fresh(f, epoch)
  BY <1>3, <1>4, <1>6, NothingFresh DEF LineOK
<1>9. ASSUME epoch_' = epoch PROVE ~More'
  <2>1. source.epoch # epoch  BY <1>4, <1>7
  <2> QED  BY <1>1, <1>8, <1>9, <2>1 DEF More
<1>10. CASE FlushSignal
  <2>1. flush = "called" /\ flush' = "signal" /\ UNCHANGED <<queue, epoch_>>  BY <1>10 DEF FlushSignal
  <2>2. EpochsAgree'  BY <1>1, <1>3, <1>4, <2>1 DEF EpochsAgree
  <2>3. Line' = Line  BY <1>5, <2>1 DEF Line, InferLine, DecodeLine
  <2>4. SameEpochs /\ (More' => More) /\ (Awaited' => Awaited)
    BY <1>1, <1>5, <2>1 DEF SameEpochs, More, Awaited
  <2>5. LineOK'  BY <1>3, <1>5, <2>3, <2>4, LineSame
  <2> QED  BY <1>2, <2>2, <2>5 DEF Served
<1>11. CASE FlushEpoch
  <2>1. flush = "signal" /\ flush' = "epoch" /\ UNCHANGED queue /\ epoch_' = epoch
    BY <1>4, <1>11 DEF FlushEpoch
  <2>2. EpochsAgree'  BY <1>1, <1>4, <2>1 DEF EpochsAgree
  <2>3. Line' = Line  BY <1>5, <2>1 DEF Line, InferLine, DecodeLine
  <2>4. ~More' /\ ~Awaited'  BY <1>9, <2>1 DEF Awaited
  <2>5. LineOK'  BY <1>1, <1>3, <1>8, <2>1, <2>3, <2>4 DEF LineOK
  <2> QED  BY <1>2, <2>2, <2>5 DEF Served
<1>12. CASE FlushDrain
  <2>1. flush = "epoch" /\ flush' = "drain" /\ queue' = [queue EXCEPT !["in"] = <<>>] /\ epoch_' = epoch_
    BY <1>12 DEF FlushDrain
  <2>2. epoch_ = epoch  BY <1>4, <2>1
  <2>3. EpochsAgree'  BY <1>1, <1>4, <2>1 DEF EpochsAgree
  <2>4. ~More' /\ ~Awaited'  BY <1>9, <2>1, <2>2 DEF Awaited
  <2>5. queue'["in"] = <<>> /\ queue'["up"] = queue["up"] /\ queue'["dec"] = queue["dec"]
    BY <2>1, QueueOps DEF Typed, QueueName
  <2>6. PICK r \in Seq(Item) : Line = Line' ++ r /\ Line' \in Seq(Item)
    <3> DEFINE u == queue["up"]
               d == queue["dec"]
               i == queue["in"]
               n == <<>>
    <3>1. u \in Seq(Item) /\ d \in Seq(Item) /\ i \in Seq(Item) /\ n \in Seq(Item)  BY <1>6
    <3>2. CASE InferDead
      <4>1. Line' = Line  BY <1>5, <2>5, <3>2 DEF Line, InferLine
      <4>2. Line = Line ++ <<>>  BY <1>6, Regrouped
      <4> QED  BY <1>6, <3>1, <4>1, <4>2
    <3>3. CASE ~InferDead /\ DecodeDead
      <4>1. Line' = Line  BY <1>5, <2>5, <3>3 DEF Line, InferLine, DecodeLine
      <4>2. Line = Line ++ <<>>  BY <1>6, Regrouped
      <4> QED  BY <1>6, <3>1, <4>1, <4>2
    <3>4. CASE ~InferDead /\ ~DecodeDead
      <4>1. Line = u ++ (Inferring ++ (d ++ (decoded ++ (Pacing ++ i))))
        BY <3>4 DEF Line, InferLine, DecodeLine
      <4>2. Line' = u ++ (Inferring ++ (d ++ (decoded ++ (Pacing ++ n))))
        BY <1>5, <2>5, <3>4 DEF Line, InferLine, DecodeLine
      <4> DEFINE w == decoded ++ Pacing
                 a == u ++ (Inferring ++ d)
      <4> HIDE DEF u, d, i, n
      <4>3. w \in Seq(Item) /\ a \in Seq(Item)  BY <1>6, <3>1, Regrouped
      <4>4. decoded ++ (Pacing ++ i) = w ++ i /\ decoded ++ (Pacing ++ n) = w ++ n
        BY <1>6, <3>1, Regrouped
      <4> HIDE DEF w
      <4>5. w ++ i \in Seq(Item) /\ w ++ n \in Seq(Item)  BY <3>1, <4>3, Regrouped
      <4>6. Line = a ++ (w ++ i) /\ Line' = a ++ (w ++ n)
        <5>1. ASSUME NEW x \in Seq(Item)
              PROVE  u ++ (Inferring ++ (d ++ x)) = a ++ x
          BY <1>6, <3>1, Regrouped4
        <5>2. u ++ (Inferring ++ (d ++ (w ++ i))) = a ++ (w ++ i)  BY <4>5, <5>1
        <5>3. u ++ (Inferring ++ (d ++ (w ++ n))) = a ++ (w ++ n)  BY <4>5, <5>1
        <5> HIDE DEF a
        <5>4. Line = u ++ (Inferring ++ (d ++ (w ++ i)))  BY <4>1, <4>4, Zenon
        <5>5. Line' = u ++ (Inferring ++ (d ++ (w ++ n)))  BY <4>2, <4>4, Zenon
        <5> QED  BY <5>2, <5>3, <5>4, <5>5, Zenon
      <4>7. w ++ n = w  BY <4>3, Regrouped DEF n
      <4> HIDE DEF a
      <4>8. a ++ (w ++ i) = (a ++ w) ++ i /\ a ++ w \in Seq(Item)  BY <3>1, <4>3, Regrouped
      <4> QED  BY <3>1, <4>6, <4>7, <4>8
    <3> QED  BY <3>2, <3>3, <3>4
  <2>7. UpTo(Line', source.epoch) /\ ~HasFresh(Line', epoch)
    <3> DEFINE a == Line'
    <3>1. a \in Seq(Item) /\ Line = a ++ r  BY <2>6
    <3>2. UpTo(Line, source.epoch)  BY <1>3 DEF LineOK
    <3> HIDE DEF a
    <3>3. UpTo(a, source.epoch)  BY <3>1, <3>2, Parts
    <3>4. ~HasFresh(a, epoch)  BY <1>8, <3>1, Parts
    <3> QED  BY <3>3, <3>4 DEF a
  <2>8. Ordered(Line', epoch) /\ Covered(Line', epoch) /\ ~HasEnd(Line', epoch)
    BY <2>7, NoneFresh
  <2>9. LineOK'  BY <1>1, <2>1, <2>2, <2>4, <2>7, <2>8 DEF LineOK
  <2> QED  BY <1>2, <2>3, <2>9 DEF Served
<1>13. CASE FlushPut
  <2> DEFINE m == [kind |-> "flush", epoch |-> flush_epoch, pos |-> 0]
             g == <<m>>
             i == queue["in"]
  <2>1. flush = "drain" /\ flush' = "idle" /\ Room("in") /\ Put("in", m) /\ epoch_' = epoch_
    BY <1>13 DEF FlushPut
  <2>2. epoch_ = epoch  BY <1>4, <2>1
  <2>3. EpochsAgree'  BY <1>1, <1>4, <2>1 DEF EpochsAgree
  <2>4. ~More'  BY <1>9, <2>1, <2>2
  <2>5. m \in Item /\ m.kind = "flush" /\ ~Payload(m) /\ ~Fresh(m, epoch)
    <3>1. m \in Item  BY Items DEF Typed, ControlTypes
    <3>2. m.kind = "flush"  OBVIOUS
    <3> QED  BY <3>1, <3>2 DEF Payload, Fresh
  <2> HIDE DEF m
  <2>6. queue'["in"] = i ++ g /\ queue'["up"] = queue["up"] /\ queue'["dec"] = queue["dec"]
    BY <2>1, <2>5, QueueOps DEF Typed, QueueName
  <2>7. g \in Seq(Item)  BY <2>5, OneMore
  <2>8. CASE DecodeDead \/ InferDead
    <3>1. Line' = Line  BY <1>5, <2>6, <2>8 DEF Line, InferLine, DecodeLine
    <3>2. ~Awaited'  BY <1>5, <2>8 DEF Awaited
    <3>3. LineOK'  BY <1>1, <1>3, <1>5, <2>1, <2>4, <3>1, <3>2, LineSame DEF SameEpochs
    <3> QED  BY <1>2, <2>3, <3>3 DEF Served
  <2>9. CASE ~DecodeDead /\ ~InferDead
    <3> DEFINE u == queue["up"]
               d == queue["dec"]
    <3>1. u \in Seq(Item) /\ d \in Seq(Item) /\ i \in Seq(Item)  BY <1>6
    <3>2. Line = u ++ (Inferring ++ (d ++ (decoded ++ (Pacing ++ i))))
      BY <2>9 DEF Line, InferLine, DecodeLine
    <3>3. Line' = u ++ (Inferring ++ (d ++ (decoded ++ (Pacing ++ (i ++ g)))))
      BY <1>5, <2>6, <2>9 DEF Line, InferLine, DecodeLine
    <3> DEFINE w == decoded ++ (Pacing ++ i)
    <3> HIDE DEF u, d, i, g
    <3>4. decoded ++ (Pacing ++ (i ++ g)) = w ++ g  BY <1>6, <2>7, <3>1, Regrouped4
    <3>5. w \in Seq(Item)  BY <1>6, <3>1, Regrouped
    <3> HIDE DEF w
    <3>6. d ++ (w ++ g) = (d ++ w) ++ g /\ d ++ w \in Seq(Item)  BY <2>7, <3>1, <3>5, Regrouped
    <3>7. u ++ (Inferring ++ ((d ++ w) ++ g)) = (u ++ (Inferring ++ (d ++ w))) ++ g
      BY <1>6, <2>7, <3>1, <3>6, Regrouped4
    <3>8. Line' = Line ++ g  BY <3>2, <3>3, <3>4, <3>6, <3>7 DEF w
    <3>9. /\ Ordered(Line ++ g, epoch) <=> /\ Ordered(Line, epoch)
                                           /\ m.kind = "flush" => ~HasFresh(Line, epoch)
                                           /\ HasEnd(Line, epoch) => ~Fresh(m, epoch)
          /\ UpTo(Line ++ g, source.epoch) <=> UpTo(Line, source.epoch) /\ (Payload(m) => m.epoch <= source.epoch)
          /\ HasEnd(Line ++ g, epoch) <=> HasEnd(Line, epoch) \/ (Fresh(m, epoch) /\ m.kind = "eos")
          /\ HasMark(Line ++ g) <=> HasMark(Line) \/ m.kind = "flush"
          /\ Covered(Line ++ g, epoch) <=> Covered(Line, epoch) /\ (HasMark(Line) \/ ~Fresh(m, epoch))
      BY <1>6, <2>5, LineAppended DEF g
    <3>10. UpTo(Line, source.epoch)  BY <1>3 DEF LineOK
    <3>11. /\ Ordered(Line', epoch) /\ UpTo(Line', source.epoch) /\ ~HasEnd(Line', epoch)
           /\ HasMark(Line') /\ Covered(Line', epoch)
      BY <1>8, <2>5, <3>8, <3>9, <3>10
    <3>12. LineOK'  BY <1>1, <2>1, <2>2, <3>11 DEF LineOK
    <3> QED  BY <1>2, <2>3, <3>12 DEF Served
  <2> QED  BY <2>8, <2>9
<1> QED  BY <1>10, <1>11, <1>12, <1>13 DEF FlushStep

-----------------------------------------------------------------------------
(* The theorems                                                            *)

(* A stream begins with nothing under way.                                 *)
LEMMA InitServed == Init => Served
<1> SUFFICES ASSUME Init PROVE Served  OBVIOUS
<1>1. /\ queue = [q \in QueueName |-> <<>>] /\ epoch_ = 0 /\ ~closed /\ decode = "get" /\ decoded = <<>>
      /\ infer = "get" /\ finish = "get" /\ header = FALSE /\ sink = <<>>
      /\ need_discontinuity = TRUE /\ chunks = <<>> /\ flush = "idle" /\ epoch = 0 /\ seek = "idle"
      /\ source = [on |-> TRUE, epoch |-> 0, next |-> 1] /\ feeds = {} /\ down_q = <<>>
  BY DEF Init, PipelineInit
<1>2. queue["in"] = <<>> /\ queue["dec"] = <<>> /\ queue["up"] = <<>>  BY <1>1 DEF QueueName
<1>3. <<>> \in Seq(Item) /\ DOMAIN <<>> = {}  OBVIOUS
<1>4. Line = <<>>
  <2>1. Line = <<>> ++ (<<>> ++ (<<>> ++ (<<>> ++ (<<>> ++ <<>>))))
    BY <1>1, <1>2 DEF Line, InferLine, InferDead, Inferring, DecodeLine, DecodeDead, Pacing
  <2>2. <<>> ++ <<>> = <<>>  BY <1>3, Regrouped
  <2> QED  BY <2>1, <2>2
<1>5. ~HasFresh(<<>>, epoch_) /\ UpTo(<<>>, source.epoch)  BY Units
<1>6. Ordered(<<>>, epoch_) /\ ~HasEnd(<<>>, epoch_)  BY <1>5, NoneFresh
<1>7. LineOK  BY <1>1, <1>4, <1>5, <1>6 DEF LineOK, Ended
<1>8. EpochsAgree  BY <1>1 DEF EpochsAgree
<1>9. FeedsOK /\ ContainerOK  BY <1>1 DEF FeedsOK, ContainerOK
<1>10. ChunksOK  BY <1>1, <1>3 DEF ChunksOK
<1> QED  BY <1>1, <1>7, <1>8, <1>9, <1>10 DEF Served

(* Every step of an open session keeps it served, unless it closes it.     *)
LEMMA NextServed ==
  ASSUME Typed, Typed', Served, close = "open", [Next]_vars, close' = "open"
  PROVE  Served'
<1>1. CASE UNCHANGED vars
  <2>1. UNCHANGED <<closed, epoch_, flushVars, finishVars, sessionVars>>
    BY <1>1 DEF vars, pipelineVars, queueVars
  <2>2. LineOK'
    <3>1. Line' = Line /\ SameEpochs /\ (More' => More) /\ (Ended' => Ended) /\ (Awaited' => Awaited)
      BY <1>1 DEF vars, pipelineVars, queueVars, finishVars, flushVars, sessionVars, Line, InferLine,
         InferDead, Inferring, DecodeLine, DecodeDead, Pacing, decodeVars, inferVars, SameEpochs,
         More, Ended, Awaited
    <3>2. LineOK  BY DEF Served
    <3> QED  BY <3>1, <3>2, LineSame
  <2> QED  BY <2>1, <2>2, OnlyLine
<1>2. CASE DecodeStep /\ UNCHANGED sessionVars
  BY <1>2, DecodeGetServed, DecodePacedServed, DecodePutServed, DecodeLeaveServed DEF DecodeStep
<1>3. CASE InferStep /\ UNCHANGED sessionVars  BY <1>3, InferServed DEF InferStep
<1>4. CASE FinishStep /\ UNCHANGED sessionVars
  BY <1>4, FinishDropServed, FinishFlushServed, FinishMuxServed DEF FinishStep
<1>5. CASE FlushStep /\ UNCHANGED sessionVars  BY <1>5, FlushServed
<1>6. CASE FailStep /\ UNCHANGED sessionVars
  BY <1>6, DecodeLeaveServed, InferServed, DownlinkServed DEF FailStep
<1>7. CASE CloseStep
  <2>1. close # "open"
    BY <1>7 DEF CloseStep, CloseBegin, CloseJoin, CloseDrain, CloseStop, Draining, Stopping, QueueName
  <2> QED  BY <2>1
<1>8. CASE SourceStep \/ (\E f \in feeds : Feed(f)) \/ EmitStep \/ RunDownlink
  BY <1>8, SourceServed, FeedServed, DownlinkServed
<1>9. CASE ClientStep \/ SeekStep \/ SeekBegin  BY <1>9, SeekServed
<1>10. CASE CloseAnnounce  BY <1>10 DEF CloseAnnounce
<1> QED
  BY <1>1, <1>2, <1>3, <1>4, <1>5, <1>6, <1>7, <1>8, <1>9, <1>10 DEF Next, GoesOn, PipelineStep

(* The invariant: everything has its type, and while the session is open   *)
(* the line from the source to the client is in order.                     *)
THEOREM RelayInvariant == Spec => []RelayInv
<1>1. Init => RelayInv  BY InitTyped, InitServed DEF RelayInv
<1>2. RelayInv /\ [Next]_vars => RelayInv'
  <2> SUFFICES ASSUME RelayInv, [Next]_vars PROVE RelayInv'  OBVIOUS
  <2>1. Typed'  BY NextTyped DEF RelayInv
  <2>2. close' = "open" => close = "open"
    <3>1. CASE UNCHANGED vars  BY <3>1 DEF vars, pipelineVars
    <3>2. CASE Next
      <4>1. CASE CloseStep
        BY <4>1 DEF CloseStep, CloseBegin, CloseJoin, CloseDrain, CloseStop, Draining, Stopping,
           NextQueue, QueueName
      <4>2. CASE CloseAnnounce  BY <4>2 DEF CloseAnnounce
      <4>3. CASE ~CloseStep /\ ~CloseAnnounce
        <5>1. DecodeStep \/ InferStep \/ FinishStep \/ FlushStep \/ FailStep => close' = close
          BY DEF DecodeStep, DecodeDrop, DecodeAux, DecodeStop, DecodeFlush, DecodeEos, DecodeVideo,
             DecodePaced, DecodePut, DecodeLeave, InferStep, InferGet, InferPut, InferLeave, FinishStep,
             FinishDrop, FinishStop, FinishFlush, FinishAux, FinishFrame, FinishEos, FlushStep,
             FlushSignal, FlushEpoch, FlushDrain, FlushPut, FailStep, DecodeFails, InferFails, FinishFails
        <5>2. SourceStep \/ (\E f \in feeds : Feed(f)) \/ EmitStep \/ RunDownlink \/ ClientStep
                \/ SeekStep \/ SeekBegin => close' = close
          BY DEF SourceStep, SourceFeed, SourceEnd, Feed, EmitStep, EmitCheck, EmitDeliver, RunDownlink,
             ClientStep, Play, BufferReport, SeekStep, SeekDrain, SeekFlush, SeekRestart, SeekAborts,
             SeekBegin, pipelineVars
        <5> QED  BY <3>2, <4>3, <5>1, <5>2 DEF Next, GoesOn, PipelineStep
      <4> QED  BY <4>1, <4>2, <4>3
    <3> QED  BY <3>1, <3>2
  <2>3. close' = "open" => Served'  BY <2>1, <2>2, NextServed DEF RelayInv
  <2> QED  BY <2>1, <2>3 DEF RelayInv
<1> QED  BY <1>1, <1>2, PTL DEF Spec

(* Type correctness: in particular no queue of the pipeline nor the        *)
(* downlink's ever holds more than it has room for.                        *)
THEOREM TypeCorrect == Spec => []TypeOK
<1>1. RelayInv => TypeOK
  <2> SUFFICES ASSUME RelayInv PROVE TypeOK  OBVIOUS
  <2>1. QueueTypes /\ ControlTypes /\ DecodeTypes /\ InferTypes /\ FinishTypes /\ SessionTypes
    BY DEF RelayInv, Typed
  <2>2. PipelineTypeOK
    BY <2>1, Zenon DEF PipelineTypeOK, QueueTypes, ControlTypes, DecodeTypes, InferTypes, FinishTypes
  <2> QED  BY <2>1, <2>2, Zenon DEF TypeOK, SessionTypes
<1> QED  BY <1>1, RelayInvariant, PTL

(* A chunk is marked exactly if it begins a container, whatever seeks cut  *)
(* into what the pipeline and the downlink hold.                           *)
THEOREM MarksOpen == Spec => []OpensOnce
<1>1. RelayInv => OpensOnce
  <2> SUFFICES ASSUME RelayInv, ~SessionClosed, NEW i \in DOMAIN InFlight
               PROVE  Marked(InFlight[i])
    BY DEF OpensOnce, Marked
  <2>1. ChunksOK /\ down_q \in Seq(Chunk) /\ chunks \in Seq(Chunk)
    BY DEF RelayInv, SessionClosed, Served, Typed, FinishTypes, SessionTypes
  <2>2. \/ i \in DOMAIN down_q /\ InFlight[i] = down_q[i]
        \/ i - Len(down_q) \in DOMAIN chunks /\ InFlight[i] = chunks[i - Len(down_q)]
    BY <2>1 DEF InFlight
  <2> QED  BY <2>1, <2>2 DEF ChunksOK
<1> QED  BY <1>1, RelayInvariant, PTL
====
