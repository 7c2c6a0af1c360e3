----------------------------- MODULE ColourRules -----------------------------
(***************************************************************************)
(* How a picture's colour is described and what of its dynamic metadata is *)
(* applied for a display: upscale_cli/color.py, relay_server/              *)
(* source_color.py and the decisions of relay_server/display_mapping.py.   *)
(* A description is [matrix, range, primaries, transfer], numbers of       *)
(* FFmpeg's.                                                               *)
(***************************************************************************)
EXTENDS Integers, Sequences, SequencesExt

Nothing == 0 - 1                       \* None
NoTags == [matrix |-> Nothing, range |-> Nothing, primaries |-> Nothing, transfer |-> Nothing]
Unspecified == {0, 2}
Convertible == {1, 4, 5, 6, 7, 9, 10}  \* the matrices of _SWS_MATRIX
Ranges == {1, 2}

(* fill_unspecified                                                        *)
Fill(tags, fallback) ==
  [matrix |-> IF tags.matrix = 2 THEN fallback.matrix ELSE tags.matrix,
   range |-> IF tags.range \in Ranges THEN tags.range ELSE fallback.range,
   primaries |-> IF tags.primaries \in Unspecified THEN fallback.primaries ELSE tags.primaries,
   transfer |-> IF tags.transfer \in Unspecified THEN fallback.transfer ELSE tags.transfer]

(* VideoColor.resolve_values, after mpv's guesses from the size.           *)
IsHd(size) == size.w >= 1280 \/ size.h > 576
Guess(size) ==
  [matrix |-> IF IsHd(size) THEN 1 ELSE IF size.h = 576 THEN 5 ELSE 6,
   range |-> 1,
   primaries |-> IF IsHd(size) THEN 1 ELSE IF size.h = 576 THEN 5
                 ELSE IF size.h \in {480, 486} THEN 6 ELSE 1,
   transfer |-> 1]
Resolve(tags, size) ==
  Fill([tags EXCEPT !.matrix = IF @ \in Convertible THEN @ ELSE 2], Guess(size))

(* tags_from_wire: codes of a byte, and a range that is known or absent.   *)
TagsFromWire(wire) ==
  IF \A code \in {wire.matrix, wire.primaries, wire.transfer} : code \in 0..255
     /\ wire.range \in {"limited", "full", "absent"}
  THEN [wire EXCEPT !.range = CASE @ = "limited" -> 1 [] @ = "full" -> 2 [] OTHER -> 0]
  ELSE NoTags

(* uplink_color_and_depth: what the client says first, then what the       *)
(* decoder exports from an HEVC source's parameter sets.                   *)
UplinkColor(wire, codec, probed) ==
  LET said == TagsFromWire(wire)
  IN IF said = NoTags /\ codec = "hevc" THEN probed ELSE said

(* container_fill: the options of a setparams filter, None as no options.  *)
Silent == [matrix |-> 2, range |-> 0, primaries |-> 2, transfer |-> 2]
ContainerFill(decoded, container) ==
  LET known == IF decoded = NoTags THEN Silent ELSE decoded
      filled == Fill(known, container)
  IN IF container = NoTags THEN {}
     ELSE {<<name, filled[name]>> : name \in {n \in DOMAIN filled : filled[n] # known[n]}}

-----------------------------------------------------------------------------
(* A source is [codec, profile, base, hdr10plus]; profile is Nothing       *)
(* without Dolby Vision, base its bl_signal_compatibility_id.              *)
Transfers == {"pq", "sdr"}
SdrBase == 2

(* A plausible bug: the base layer is not asked for.                       *)
AppliedForAnyBase(source, transfer) ==
  IF source.codec # "hevc" THEN {}
  ELSE IF transfer = "pq" THEN IF source.profile = 5 THEN {"dolby_vision"} ELSE {}
  ELSE IF source.profile \in {5, 7, 8} THEN {"dolby_vision"}
  ELSE IF source.hdr10plus THEN {"hdr10plus"} ELSE {}

(* SourceDynamics.applied_for, mappable and decide.                        *)
AppliedFor(source, transfer) ==
  IF source.codec # "hevc" THEN {}
  ELSE IF transfer = "pq" THEN IF source.profile = 5 THEN {"dolby_vision"} ELSE {}
  ELSE IF source.profile \in {5, 7, 8} /\ ~(source.profile = 8 /\ source.base = SdrBase)
    THEN {"dolby_vision"}
  ELSE IF source.hdr10plus THEN {"hdr10plus"} ELSE {}
Mappable(source) == \E transfer \in Transfers : AppliedFor(source, transfer) # {}
Never == [transfer |-> "none", applied |-> {}]
Decide(source, target) ==
  IF target.transfer \notin Transfers \/ ~Mappable(source) THEN Never
  ELSE [transfer |-> target.transfer, applied |-> AppliedFor(source, target.transfer)]

(* DisplayTarget.from_wire: a transfer that is known; a luminance that is  *)
(* out of bounds is none. What is no target has no transfer.               *)
Nits(raw) == IF 0 < raw /\ raw <= 10000 THEN raw ELSE Nothing
FromWire(wire) ==
  IF wire.transfer \notin Transfers THEN [transfer |-> "none", peak_nits |-> Nothing]
  ELSE [wire EXCEPT !.peak_nits = Nits(@)]

(* Pipeline.__init__ decides for the first epoch, and flush for those that *)
(* follow, if the transfer changes and the session is ever mapped.         *)
Remap(source, mapping, wire) ==
  LET target == FromWire(wire)
  IN IF mapping = Never \/ target.transfer \in {"none", mapping.transfer} THEN mapping
     ELSE Decide(source, target)
MappingAfter(source, wires) ==
  FoldLeft(LAMBDA m, wire : Remap(source, m, wire), Decide(source, FromWire(wires[1])), Tail(wires))

(* EpochMapping.tags, and DisplayTarget.fits of the client.                *)
MappedTags(transfer) ==
  IF transfer = "sdr" THEN [matrix |-> 1, range |-> 1, primaries |-> 1, transfer |-> 1]
  ELSE [matrix |-> 9, range |-> 1, primaries |-> 9, transfer |-> 16]
Fits(target, mapping) == mapping # Never /\ mapping.transfer = target.transfer

-----------------------------------------------------------------------------
(* A description that is resolved leaves nothing open and can be           *)
(* converted; it says what the source said wherever the source said        *)
(* something; resolving it again changes nothing; and a filter that sets   *)
(* what the container knows gives frames the colour the pipeline's own     *)
(* decoding would.                                                         *)
ColourAgrees(wire, codec, probed, size) ==
  LET tags == UplinkColor(wire, codec, probed)
      known == IF tags = NoTags THEN Silent ELSE tags
      r == Resolve(Fill(probed, known), size)
      options == ContainerFill(probed, tags)
      mapped == [n \in DOMAIN probed |->
                   IF \E o \in options : o[1] = n THEN (CHOOSE o \in options : o[1] = n)[2]
                   ELSE probed[n]]
  IN /\ r.matrix \in Convertible /\ r.range \in Ranges
     /\ r.primaries \notin Unspecified /\ r.transfer \notin Unspecified
     /\ Resolve(r, size) = r
     /\ \A n \in {"primaries", "transfer"} : probed[n] \notin Unspecified => r[n] = probed[n]
     /\ probed.matrix \in Convertible => r.matrix = probed.matrix
     /\ Resolve(mapped, size) = r

(* The table of docs/PROTOCOL.md, section 3.6, row by row.                 *)
Table ==
  {<<"sdr", [codec |-> "hevc", profile |-> p[1], base |-> p[2], hdr10plus |-> plus], {"dolby_vision"}>> :
     p \in {<<7, 6>>, <<8, 1>>, <<8, 4>>, <<5, 0>>}, plus \in BOOLEAN}
  \cup {<<"sdr", [codec |-> "hevc", profile |-> p[1], base |-> p[2], hdr10plus |-> TRUE], {"hdr10plus"}>> :
     p \in {<<Nothing, 0>>, <<8, 2>>}}
  \cup {<<"pq", [codec |-> "hevc", profile |-> 5, base |-> 0, hdr10plus |-> plus], {"dolby_vision"}>> :
     plus \in BOOLEAN}

(* Whatever screens the client moves to, an epoch applies what the table   *)
(* says for the last of them; a session is mapped for good or never; and   *)
(* the epoch fits the display it was last asked for.                       *)
MappingAgrees(source, wires) ==
  LET m == MappingAfter(source, wires)
      targets == SelectSeq([i \in DOMAIN wires |-> FromWire(wires[i])], LAMBDA t : t.transfer # "none")
      mapped == FromWire(wires[1]).transfer # "none" /\ \E row \in Table : row[2] = source
      last == targets[Len(targets)]
  IN /\ m # Never <=> mapped
     /\ mapped =>
          /\ Fits(last, m)
          /\ m.applied = UNION {row[3] : row \in {x \in Table : x[1] = last.transfer /\ x[2] = source}}
          /\ Resolve(MappedTags(m.transfer), [w |-> 640, h |-> 480]) = MappedTags(m.transfer)

(* q: [wire, codec, probed, size, source, wires].                          *)
ColoursAgree(q) ==
  /\ ColourAgrees(q.wire, q.codec, q.probed, q.size)
  /\ MappingAgrees(q.source, q.wires)
=============================================================================
