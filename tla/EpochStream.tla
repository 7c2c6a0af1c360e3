---------------------------- MODULE EpochStream ----------------------------
(***************************************************************************)
(* What the downlink of a session promises its client (PROTOCOL.md, 3.2    *)
(* and 4): one Matroska stream to an epoch, complete and in order from the *)
(* target of the seek that asked for the epoch, and never an older epoch   *)
(* after a newer one.                                                      *)
(*                                                                         *)
(* A stream is the sequence of what is muxed into it: positions of the     *)
(* source file, between the header and the trailer of the container.       *)
(***************************************************************************)
EXTENDS Integers, Sequences, SequencesExt

CONSTANTS Length,       \* the source file has packets 1..Length, in time order
          Auxiliary,    \* those that are audio or subtitles; the rest is video
          MaxEpoch,     \* bound: the number of seeks
          Target        \* where the stream of each epoch begins

Position == 1..Length
Epoch == 0..MaxEpoch

Header == 0
Trailer == Length + 1

Video == Position \ Auxiliary
From(e) == {p \in Position : p >= Target[e]}

(* What there is of one kind, video or not, begins at the target of the    *)
(* epoch and goes on in order: all that comes before a position has come.  *)
InOrder(e, kind, data) ==
  \A i \in DOMAIN data : data[i] \in kind =>
    /\ data[i] \in From(e)
    /\ {data[j] : j \in 1..i - 1} \cap kind = {p \in From(e) \cap kind : p < data[i]}

(* The beginning of the stream of epoch e, or all of it.                   *)
BeginsStream(e, data) ==
  /\ \A i \in DOMAIN data : IF i = 1 THEN data[i] = Header ELSE data[i] \in Position
  /\ InOrder(e, Video, data) /\ InOrder(e, Auxiliary, data)

Complete(e, data) == /\ BeginsStream(e, Front(data))
                     /\ From(e) \subseteq {data[i] : i \in DOMAIN data}
                     /\ Last(data) = Trailer

VARIABLES asked,        \* the newest epoch the client asked for
          stream        \* what it received: of which epoch, what, and "eos"

Init == /\ asked = 0
        /\ stream = [epoch |-> 0, data |-> <<>>, eos |-> FALSE]

Ask == /\ asked < MaxEpoch
       /\ asked' = asked + 1
       /\ UNCHANGED stream

(* More of the same stream, or the beginning of a newer one.               *)
Deliver ==
  /\ UNCHANGED asked
  /\ stream'.epoch \in stream.epoch .. asked
  /\ stream'.epoch = stream.epoch => /\ ~stream.eos
                                     /\ IsPrefix(stream.data, stream'.data)
  /\ stream'.data # <<>>
  /\ IF Last(stream'.data) = Trailer
       THEN Complete(stream'.epoch, stream'.data)
       ELSE BeginsStream(stream'.epoch, stream'.data) /\ ~stream'.eos

Next == Ask \/ Deliver

Spec == Init /\ [][Next]_<<asked, stream>>
=============================================================================
