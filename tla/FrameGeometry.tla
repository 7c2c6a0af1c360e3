--------------------------- MODULE FrameGeometry ---------------------------
(***************************************************************************)
(* The arithmetic of frame sizes: fitting into a display and cropping to   *)
(* cover one (upscale_cli/fit.py), and the tiles of a frame that is too    *)
(* large to be upscaled at once (upscale_cli/infer.py). Ratios are exact   *)
(* here; where the code computes one as a float, a tie of the rounding may *)
(* fall the other way, which Fitted allows.                                *)
(***************************************************************************)
EXTENDS Integers, Sequences, SequencesExt, FiniteSetsExt

Align == 2  \* as yuv420p demands

AlignedDown(n) == Max({Align, (n \div Align) * Align})

(* round(n / d): to the nearest, a tie to the even one.                    *)
Round(n, d) ==
  LET q == n \div d
      r == n % d
  IN IF 2 * r > d \/ (2 * r = d /\ q % 2 = 1) THEN q + 1 ELSE q

(* A source: w and h in pixels that are num / den as wide as high.         *)
(* TargetBinds: the width of the target is what limits the scale.          *)
TargetBinds(s, tw, th) == tw * s.h * s.den <= th * s.w * s.num
ExactWidth(s, tw, th) == IF TargetBinds(s, tw, th) THEN <<tw, 1>>
                                                    ELSE <<s.w * s.num * th, s.den * s.h>>
ExactHeight(s, tw, th) == IF TargetBinds(s, tw, th) THEN <<s.h * tw * s.den, s.w * s.num>>
                                                     ELSE <<th, 1>>

(* Rounded up past the target, it steps back by one unit.                  *)
StepBack(n, target) == IF n > target THEN n - Align ELSE n
FitSide(exact, target) ==
  StepBack(Max({Align, Round(exact[1], exact[2] * Align) * Align}), target)

(* fit_dimensions                                                          *)
FitDimensions(s, tw, th) ==
  <<FitSide(ExactWidth(s, tw, th), tw), FitSide(ExactHeight(s, tw, th), th)>>

(* cover_crop_box: the centred part of the source that has the shape of    *)
(* the target, as <<x, y, width, height>>.                                 *)
CropSide(n, full) == Min({Max({Align, (n \div Align) * Align}), full})
CoverCropBox(s, target_w, target_h) ==
  LET tw == AlignedDown(target_w)
      th == AlignedDown(target_h)
      aw == AlignedDown(s.w)
      ah == AlignedDown(s.h)
      wide == aw * s.num * th > ah * tw * s.den
      cw == IF wide THEN CropSide((ah * tw * s.den) \div (th * s.num), aw) ELSE aw
      ch == IF wide THEN ah ELSE CropSide((aw * s.num * th) \div (tw * s.den), ah)
      Offset(full, part) == Max({0, ((full - part) \div (2 * Align)) * Align})
  IN <<Offset(s.w, cw), Offset(s.h, ch), cw, ch>>

-----------------------------------------------------------------------------
(* _tile_starts and the part of each tile that infer_array_tiled writes:   *)
(* all of it but half the overlap at edges inside the frame.               *)
TileStarts(dim, tile, overlap) ==
  IF dim <= tile THEN {0}
  ELSE {n \in 0..dim - tile - 1 : n % (tile - overlap) = 0} \cup {dim - tile}

Written(start, dim, tile, overlap) ==
  LET end == Min({start + tile, dim})
      margin == overlap \div 2
  IN (IF start > 0 THEN start + margin ELSE start)
       .. (IF end < dim THEN end - margin ELSE end) - 1

(* _infer_with_fallback in auto mode: the sizes tried after one another, 0 *)
(* for the whole frame, from the first guess down the ladder.              *)
Attempts(guess, ladder) ==
  <<guess>> \o SelectSeq(ladder, LAMBDA t : guess = 0 \/ t < guess)

-----------------------------------------------------------------------------
(* What fit.py promises: the result lies inside the target, is aligned,    *)
(* and is off the exact shape by half a unit at most. The last is not so   *)
(* of a side that should be shorter than half a unit: it is a whole one.   *)
Fitted(s, tw, th) ==
  LET fit == FitDimensions(s, tw, th)
      Off(n, exact) == Max({exact[1] - n * exact[2], n * exact[2] - exact[1]})
      Near(n, exact) == \/ 2 * Off(n, exact) <= Align * exact[2]
                        \/ n = Align /\ 2 * exact[1] < Align * exact[2]
  IN /\ fit[1] \in Align..tw /\ fit[2] \in Align..th
     /\ fit[1] % Align = 0 /\ fit[2] % Align = 0
     /\ Near(fit[1], ExactWidth(s, tw, th)) /\ Near(fit[2], ExactHeight(s, tw, th))

(* And of the crop: it lies inside the source, is aligned and centred to a *)
(* unit, keeps one side whole, and cuts no unit more than the shape asks.  *)
Covered(s, tw, th) ==
  LET box == CoverCropBox(s, tw, th)
      taw == AlignedDown(tw)
      tah == AlignedDown(th)
      right == s.w - box[1] - box[3]
      below == s.h - box[2] - box[4]
  IN /\ \A i \in 1..4 : box[i] >= 0 /\ box[i] % Align = 0
     /\ right \in box[1]..box[1] + 2 * Align - 1 /\ below \in box[2]..box[2] + 2 * Align - 1
     /\ box[3] = AlignedDown(s.w) \/ box[4] = AlignedDown(s.h)
     /\ box[3] < AlignedDown(s.w) =>
          (box[3] + Align) * tah * s.num > box[4] * taw * s.den
     /\ box[4] < AlignedDown(s.h) =>
          (box[4] + Align) * taw * s.den > box[3] * s.num * tah

(* Every pixel of a frame is written by some tile, each of which lies      *)
(* inside the frame.                                                       *)
Tiled(dim, tile, overlap) ==
  LET starts == TileStarts(dim, tile, overlap)
  IN /\ \A n \in starts : n >= 0 /\ (dim > tile => n + tile <= dim)
     /\ UNION {Written(n, dim, tile, overlap) : n \in starts} = 0..dim - 1

(* No attempt is repeated or larger than one that ran out of memory.       *)
Descends(guess, ladder) ==
  LET tried == Attempts(guess, ladder)
  IN \A i \in 1..Len(tried) - 1 : tried[i + 1] < tried[i] \/ (tried[i] = 0 /\ i = 1)

(* One question about it all: [s, tw, th, dim, tile, overlap, guess, ladder] *)
GeometryAgrees(q) ==
  /\ Fitted(q.s, q.tw, q.th) /\ Covered(q.s, q.tw, q.th)
  /\ q.tile > q.overlap => Tiled(q.s.w, q.tile, q.overlap)
  /\ Descends(q.guess, q.ladder)
=============================================================================
