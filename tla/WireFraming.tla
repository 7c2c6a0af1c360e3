----------------------------- MODULE WireFraming -----------------------------
(***************************************************************************)
(* Packets on a media connection (relay_protocol/framing.py) and what the  *)
(* muxer produced as packets (relay_server/pipeline.py). A byte has Base   *)
(* values, the length of a payload takes two bytes and every other field   *)
(* one, in the order and the encodings of the header.                      *)
(***************************************************************************)
EXTENDS Integers, Sequences, SequencesExt, FiniteSetsExt

Base == 8
NoTs == -4           \* NO_TS: the least value of a signed field
MaxPayload == 3      \* MAX_PAYLOAD_BYTES, far below what a length can say
HeaderLen == 6
Keyframe == 1        \* FLAG_KEYFRAME, FLAG_DISCONTINUITY, FLAG_EOS
Discontinuity == 2
Refused == <<>>      \* ValueError: nothing is sent, nothing is known

(* struct "q", and "<I": what is negative wraps, the low byte comes first. *)
Signed(byte) == IF byte >= Base \div 2 THEN byte - Base ELSE byte
Unsigned(value) == value % Base
Header(size, p) ==
  <<size % Base, size \div Base, p.flags, p.epoch, Unsigned(p.pts), Unsigned(p.dts)>>

(* encode_packet                                                           *)
Encode(p) ==
  IF Len(p.payload) > MaxPayload THEN Refused ELSE Header(Len(p.payload), p) \o p.payload

(* A plausible bug: what was read of a chunk ends it.                      *)
ReceiveWhole(state, chunk) ==
  LET n == Min({state.need, Len(chunk)})
  IN [need |-> state.need - n, data |-> state.data \o SubSeq(chunk, 1, n),
      rest |-> IF n > 0 \/ chunk = <<>> THEN state.rest ELSE Append(state.rest, chunk)]

(* _recv_exact, readexactly: n bytes out of what arrives in chunks of any  *)
(* size; what a chunk holds beyond them stays for the next read.           *)
ReceiveSome(state, chunk) ==
  LET n == Min({state.need, Len(chunk)})
      left == SubSeq(chunk, n + 1, Len(chunk))
  IN [need |-> state.need - n, data |-> state.data \o SubSeq(chunk, 1, n),
      rest |-> IF left = <<>> THEN state.rest ELSE Append(state.rest, left)]
RecvExact(chunks, n) ==
  FoldLeft(ReceiveSome, [need |-> n, data |-> <<>>, rest |-> <<>>], chunks)

(* read_packet, read_packet_sync: the length is judged before the payload  *)
(* is waited for.                                                          *)
ReadPacket(chunks) ==
  LET header == RecvExact(chunks, HeaderLen)
      h == header.data
      size == h[1] + Base * h[2]
      body == RecvExact(header.rest, size)
  IN IF header.need > 0 THEN [end |-> "cut"]
     ELSE IF size > MaxPayload THEN [end |-> "refused"]
     ELSE IF body.need > 0 THEN [end |-> "cut"]
     ELSE [end |-> "none", rest |-> body.rest,
           packet |-> [payload |-> body.data, flags |-> h[3], epoch |-> h[4],
                       pts |-> Signed(h[5]), dts |-> Signed(h[6])]]

(* The loop of a reader, which takes packets until one cannot be read: the *)
(* uplink's handler, the client's receiver thread.                         *)
ReadNext(state, i) ==
  IF state.end # "none" THEN state
  ELSE LET r == ReadPacket(state.chunks)
       IN IF r.end # "none" THEN [state EXCEPT !.end = r.end]
          ELSE [state EXCEPT !.chunks = r.rest, !.packets = Append(@, r.packet)]
ReadAll(chunks, most) ==
  FoldLeft(ReadNext, [chunks |-> chunks, packets |-> <<>>, end |-> "none"], [i \in 1..most |-> i])

(* build_handshake and parse_handshake, a token being of TokenLen bytes.   *)
Magic == <<5, 6>>
Directions == {1, 2}
TokenLen == 2
BuildHandshake(direction, token) ==
  IF Len(token) # TokenLen THEN Refused ELSE Magic \o <<direction>> \o token
ParseHandshake(data) ==
  IF \/ Len(data) # Len(Magic) + 1 + TokenLen
     \/ SubSeq(data, 1, Len(Magic)) # Magic
     \/ data[Len(Magic) + 1] \notin Directions
  THEN Refused
  ELSE <<data[Len(Magic) + 1], SubSeq(data, Len(Magic) + 2, Len(data))>>

(* _flush_chunk: what the muxer produced, in packets that fit; the flags   *)
(* and with them the beginning of an epoch go with the first of them.      *)
FlushChunk(data, keyframe, discontinuity, epoch, pts) ==
  [k \in 1..(Len(data) + MaxPayload - 1) \div MaxPayload |->
     [payload |-> SubSeq(data, (k - 1) * MaxPayload + 1, Min({k * MaxPayload, Len(data)})),
      flags |-> IF k > 1 THEN 0
                ELSE (IF keyframe THEN Keyframe ELSE 0) + (IF discontinuity THEN Discontinuity ELSE 0),
      epoch |-> epoch, pts |-> pts, dts |-> NoTs]]

-----------------------------------------------------------------------------
Bytes(packets) == FlattenSeq([i \in DOMAIN packets |-> Encode(packets[i])])
Chunks(bytes, size) ==
  [k \in 1..(Len(bytes) + size - 1) \div size |->
     SubSeq(bytes, (k - 1) * size + 1, Min({k * size, Len(bytes)}))]
(* How many packets are whole within the first n bytes.                    *)
Whole(packets, n) ==
  Max({k \in 0..Len(packets) : Len(Bytes(SubSeq(packets, 1, k))) <= n})

(* A reader gets every packet that arrived whole, exactly as it was sent,  *)
(* wherever the network cuts chunks and connection, and nothing of what    *)
(* did not; a length no sender may send stops it at once.                  *)
StreamAgrees(packets, cut, size, oversized) ==
  LET bytes == SubSeq(Bytes(packets), 1, Min({cut, Len(Bytes(packets))}))
      whole == Whole(packets, cut)
      sent == SubSeq(packets, 1, whole)
      r == ReadAll(Chunks(bytes, size), Len(packets) + 1)
      foreign == Bytes(sent) \o Header(oversized, packets[1])
      f == ReadAll(Chunks(foreign, size), Len(packets) + 1)
  IN /\ r.packets = sent /\ r.end = "cut"
     /\ f.packets = sent /\ f.end = IF oversized > MaxPayload THEN "refused" ELSE "cut"

(* A container in packets loses no byte, opens its epoch once, and no      *)
(* packet of it is refused.                                                *)
ContainerAgrees(data, keyframe, discontinuity) ==
  LET packets == FlushChunk(data, keyframe, discontinuity, 1, NoTs)
      r == ReadAll(Chunks(Bytes(packets), 2), Len(packets) + 1)
  IN /\ \A k \in DOMAIN packets : Encode(packets[k]) # Refused
     /\ r.packets = packets
     /\ FlattenSeq([k \in DOMAIN packets |-> packets[k].payload]) = data
     /\ \A k \in DOMAIN packets : packets[k].flags >= Discontinuity <=> discontinuity /\ k = 1

(* The two sides know each other's directions and tokens, and nobody else. *)
HandshakeAgrees(data) ==
  \A d \in Directions, token \in {SubSeq(data, Len(Magic) + 2, Len(data))} :
    ParseHandshake(data) = <<d, token>> <=> BuildHandshake(d, token) = data

(* q: [packets, cut, size, oversized, data, keyframe, discontinuity].      *)
FramingAgrees(q) ==
  /\ StreamAgrees(q.packets, q.cut, q.size, q.oversized)
  /\ ContainerAgrees(q.data, q.keyframe, q.discontinuity)
  /\ HandshakeAgrees(q.data)
=============================================================================
