------------------------------ MODULE NalUnits ------------------------------
(***************************************************************************)
(* How HDR metadata is taken out of a source's packets and put back into   *)
(* the encoder's (relay_media/hdr.py): NAL units, their start codes, the   *)
(* emulation prevention that keeps start codes out of payloads, and SEI    *)
(* messages. A byte is a number, a string of bytes a sequence.             *)
(***************************************************************************)
EXTENDS Integers, Sequences, SequencesExt, FiniteSetsExt

StartCode == <<0, 0, 0, 1>>
PrefixSei == 78   \* the header of a prefix SEI: 0x4E 0x01
T35 == 4          \* the type of the messages that hold HDR10+
Stop == 128       \* rbsp_trailing_bits

Zeros(run, byte) == IF byte = 0 THEN run + 1 ELSE 0

(* A plausible bug: a 3 of the payload itself is not guarded.              *)
EscapeByteBelow3(state, byte) ==
  LET guarded == state.zeros >= 2 /\ byte < 3
  IN [out |-> state.out \o (IF guarded THEN <<3, byte>> ELSE <<byte>>),
      zeros |-> Zeros(IF guarded THEN 0 ELSE state.zeros, byte)]

(* escape_rbsp: a 3 before a small byte that follows two zeros.            *)
EscapeByte(state, byte) ==
  LET guarded == state.zeros >= 2 /\ byte <= 3
  IN [out |-> state.out \o (IF guarded THEN <<3, byte>> ELSE <<byte>>),
      zeros |-> Zeros(IF guarded THEN 0 ELSE state.zeros, byte)]
Empty == [out |-> <<>>, zeros |-> 0]
EscapeRbsp(bytes) == FoldLeft(EscapeByte, Empty, bytes).out

(* unescape_rbsp and source_aspect.py's _rbsp: a 3 after two zeros goes.   *)
UnescapeByte(state, byte) ==
  IF state.zeros >= 2 /\ byte = 3 THEN [state EXCEPT !.zeros = 0]
  ELSE [out |-> Append(state.out, byte), zeros |-> Zeros(state.zeros, byte)]
UnescapeRbsp(bytes) == FoldLeft(UnescapeByte, Empty, bytes).out

(* sei_nal: one message, shorter than 255 bytes, in a NAL unit.            *)
SeiNal(payload) ==
  <<PrefixSei, 1>> \o EscapeRbsp(<<T35, Len(payload)>> \o payload \o <<Stop>>)

(* _annexb_spans: what lies between start codes, without trailing zeros.   *)
StartsAt(data, i) == i + 2 <= Len(data) /\ SubSeq(data, i, i + 2) = <<0, 0, 1>>
CodeStarts(data) == SetToSortSeq({i \in DOMAIN data : StartsAt(data, i)}, <)
Spans(data) ==
  LET codes == CodeStarts(data)
      start(k) == codes[k] + 3
      limit(k) == IF k < Len(codes) THEN codes[k + 1] - 1 ELSE Len(data)
      stop(k) == Max({i \in start(k)..limit(k) : data[i] # 0} \cup {start(k) - 1})
  IN SelectSeq([k \in DOMAIN codes |-> <<start(k), stop(k)>>], LAMBDA s : s[1] <= s[2])

(* iter_nals, of an Annex B packet and of one with lengths of one byte,    *)
(* where a malformed tail ends the iteration.                              *)
AnnexBNals(data) == LET spans == Spans(data)
                    IN [k \in DOMAIN spans |-> SubSeq(data, spans[k][1], spans[k][2])]
TakeNal(state, i) ==
  IF state.at # i \/ state.broken THEN state
  ELSE LET size == state.data[i]
       IN IF size = 0 \/ i + size > Len(state.data) THEN [state EXCEPT !.broken = TRUE]
          ELSE [state EXCEPT !.at = i + size + 1,
                             !.nals = Append(@, SubSeq(state.data, i + 1, i + size))]
PrefixedNals(data) ==
  FoldLeft(TakeNal, [at |-> 1, data |-> data, nals |-> <<>>, broken |-> FALSE],
           [i \in DOMAIN data |-> i]).nals

ToAnnexB(nals) == FlattenSeq([k \in DOMAIN nals |-> StartCode \o nals[k]])

IsSlice(nal) == nal[1] \div 2 < 32  \* a VCL unit: nal_type below _NAL_FIRST_NON_VCL

(* inject_hevc_metadata: a prefix before the first slice, a suffix last.   *)
Inject(packet, prefix, suffix) ==
  LET slices == SelectSeq(Spans(packet), LAMBDA s : IsSlice(SubSeq(packet, s[1], s[2])))
      code == Head(slices)[1] - 3
      at == IF code > 1 /\ packet[code - 1] = 0 THEN code - 1 ELSE code
  IN IF slices = <<>> THEN packet
     ELSE SubSeq(packet, 1, at - 1) \o ToAnnexB(prefix)
            \o SubSeq(packet, at, Len(packet)) \o ToAnnexB(suffix)

(* extract_dynamic_hdr: the payloads of the SEI units of a source packet,  *)
(* each with one message.                                                  *)
Payload(nal) == LET rbsp == UnescapeRbsp(SubSeq(nal, 3, Len(nal)))
                IN SubSeq(rbsp, 3, 2 + rbsp[2])
Payloads(nals) ==
  LET sei == SelectSeq(nals, LAMBDA n : Len(n) >= 3 /\ n[1] = PrefixSei)
  IN [k \in DOMAIN sei |-> Payload(sei[k])]

-----------------------------------------------------------------------------
(* Whatever bytes a message holds, no start code appears in its unit; a    *)
(* packet is cut into the units it was made of; the units injected stand   *)
(* before the first slice and at the end, and none is lost; and what is    *)
(* read from the result is the message. q: [payload, nals].                *)
NalsAgree(q) ==
  LET sei == SeiNal(q.payload)
      rpu == <<124, 1, 9>>
      packet == ToAnnexB(q.nals)
      out == AnnexBNals(Inject(packet, <<sei>>, <<rpu>>))
      first == Min({k \in DOMAIN q.nals : IsSlice(q.nals[k])} \cup {Len(q.nals) + 1})
      prefixed == FlattenSeq([k \in DOMAIN q.nals |-> <<Len(q.nals[k])>> \o q.nals[k]])
  IN /\ \A i \in 1..Len(sei) - 2 : sei[i] = 0 /\ sei[i + 1] = 0 => sei[i + 2] >= 3
     /\ UnescapeRbsp(EscapeRbsp(q.payload)) = q.payload
     /\ AnnexBNals(packet) = q.nals /\ PrefixedNals(prefixed) = q.nals
     /\ IF first > Len(q.nals) THEN out = q.nals
        ELSE /\ out = SubSeq(q.nals, 1, first - 1) \o <<sei>>
                        \o SubSeq(q.nals, first, Len(q.nals)) \o <<rpu>>
             /\ Last(Payloads(SubSeq(out, 1, first))) = q.payload
=============================================================================
