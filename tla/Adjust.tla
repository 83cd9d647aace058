------------------------------- MODULE Adjust -------------------------------
(***************************************************************************)
(* The brightness of a picture on its way through a converter: --exposure, *)
(* the range options and --autoadjust of rad2tiff.c; rad2jpeg.c and        *)
(* rad2png.c have the exposure and --autoadjust, in the other order.       *)
(*                                                                         *)
(* A picture is px, whole numbers over one denominator den.                *)
(***************************************************************************)
EXTENDS Integers, Sequences, FiniteSets, FiniteSetsExt

CONSTANTS
  Pixel,       (* the pixels of a picture                                  *)
  Channel,     (* the channels of a pixel                                  *)
  Sample,      (* the values in the pictures to be converted               *)
  Exposures,   (* the stops that --exposure=stop may give; 0 for none      *)
  Orders,      (* of "exposure first" (rad2tiff) and "adjust first"        *)
  GLARE_LEVEL_RATIO

ASSUME AdjustAssumption ==
  /\ Pixel # {} /\ IsFiniteSet(Pixel) /\ Channel # {} /\ IsFiniteSet(Channel)
  /\ Sample \subseteq Int /\ Exposures \subseteq -3 .. 3
  /\ Orders \subseteq {"exposure first", "adjust first"}
  /\ GLARE_LEVEL_RATIO \in Nat \ {0}

Options == {"none", "fullrange", "fullrangeinvert",
            "halfrange", "halfrangeinvert", "autoadjust"}

(* 0.95, 0.0 and 0.22, in hundredths *)
RANGE_MAX == 95
RangeMin(option) == IF option \in {"fullrange", "fullrangeinvert"} THEN 0 ELSE 22

VARIABLES
  original,   (* the picture that was read                                 *)
  picture,    (* the picture as it is now                                  *)
  order,      (* the program                                               *)
  stops, option,          \* what the user asked for
  adjust_max, (* what find_glare_threshold returned, as [n, d]             *)
  todo        (* the steps still to be taken                               *)

adjustVars == <<original, picture, order, stops, option, adjust_max, todo>>

Values(im)    == {im.px[p][c] : p \in Pixel, c \in Channel}
Brightest(im) == Max(Values(im))
Darkest(im)   == Min(Values(im))
Flat(im)      == Brightest(im) = Darkest(im)

MapValues(f, im) == [p \in Pixel |-> [c \in Channel |-> f[im.px[p][c]]]]

(* Mutated form: the new minimum is not taken off the new range.           *)
BugRescale(im, max, min, unit) ==
  LET old == Brightest(im) - Darkest(im)
      F == [v \in Values(im) |-> max * (v - Darkest(im)) + min * old]
  IN  IF old = 0
      THEN [px |-> [p \in Pixel |-> [c \in Channel |-> max + min]], den |-> 2 * unit]
      ELSE [px |-> MapValues(F, im), den |-> unit * old]

(* TT_RGBf_rescale, for new_max = max / unit and new_min = min / unit.     *)
Rescale(im, max, min, unit) ==
  LET old == Brightest(im) - Darkest(im)
      F == [v \in Values(im) |-> (max - min) * (v - Darkest(im)) + min * old]
  IN  IF old = 0
      THEN [px |-> [p \in Pixel |-> [c \in Channel |-> max + min]], den |-> 2 * unit]
      ELSE [px |-> MapValues(F, im), den |-> unit * old]

(* TT_RGBf_invert *)
Invert(im) ==
  LET F == [v \in Values(im) |-> Brightest(im) - (v - Darkest(im))]
  IN  [im EXCEPT !.px = MapValues(F, im)]

Expose(im, s) ==
  LET F == [v \in Values(im) |-> v * 2 ^ s]
  IN  IF s >= 0 THEN [im EXCEPT !.px = MapValues(F, im)]
                ELSE [im EXCEPT !.den = im.den * 2 ^ (-s)]

-----------------------------------------------------------------------------
(* find_glare_threshold: the greatest channel stands for the pixel.        *)
PixelMax(im, p) == Max({im.px[p][c] : c \in Channel})

SumOver(im, S) == MapThenSumSet(LAMBDA p : PixelMax(im, p), S)

(* The cutoff is average * GLARE_LEVEL_RATIO; this many times as much:     *)
Cutoff(im) == GLARE_LEVEL_RATIO * SumOver(im, Pixel)
NotGlare(im) == {p \in Pixel : PixelMax(im, p) * Cardinality(Pixel) <= Cutoff(im)}
NoGlare(im) == \A p \in Pixel : PixelMax(im, p) * Cardinality(Pixel) <= Cutoff(im)

(* Mutated form: an image that has no glare is cut at the threshold, too.  *)
Bugfind_glare_threshold(im) ==
  IF NoGlare(im) THEN [n |-> Cutoff(im), d |-> Cardinality(Pixel) * im.den]
  ELSE [n |-> Max({0} \cup {PixelMax(im, p) : p \in NotGlare(im)}), d |-> im.den]

(* The greatest pixel, 0 at least, of all or of those up to the cutoff.    *)
find_glare_threshold(im) ==
  [n |-> Max({0} \cup {PixelMax(im, p) : p \in NotGlare(im)}), d |-> im.den]

(* Mutated form: the new minimum is 1.0.                                   *)
BugAdjusted(im, max) == IF max.n > 0 THEN Rescale(im, max.n, max.d, max.d) ELSE im

(* The threshold is used only if it is positive. *)
Adjusted(im, max) == IF max.n > 0 THEN Rescale(im, max.n, 0, max.d) ELSE im

-----------------------------------------------------------------------------
AdjustInit ==
  /\ original \in [px : [Pixel -> [Channel -> Sample]], den : {1}]
  /\ picture = original
  /\ order \in Orders /\ stops \in Exposures /\ option \in Options
  (* "can't have more than one exposure-related flag!"; --autoadjust is    *)
  (* none of them, but is looked at last.                                  *)
  /\ option \in {"none", "autoadjust"} \/ stops = 0
  /\ order = "adjust first" => option \in {"none", "autoadjust"}
  /\ adjust_max = [n |-> 0, d |-> 1]
  /\ todo = IF order = "exposure first" THEN <<"exposure", "range">>
                                        ELSE <<"range", "exposure">>

Take(name) == todo # <<>> /\ todo[1] = name /\ todo' = SubSeq(todo, 2, Len(todo))

ExposureStep ==
  /\ Take("exposure")
  /\ picture' = Expose(picture, stops)
  /\ UNCHANGED <<original, order, stops, option, adjust_max>>

RangeStep ==
  /\ Take("range") /\ option \in {"fullrange", "halfrange"}
  /\ picture' = Rescale(picture, RANGE_MAX, RangeMin(option), 100)
  /\ UNCHANGED <<original, order, stops, option, adjust_max>>

InvertStep ==
  /\ Take("range") /\ option \in {"fullrangeinvert", "halfrangeinvert"}
  /\ picture' = Rescale(Invert(picture), RANGE_MAX, RangeMin(option), 100)
  /\ UNCHANGED <<original, order, stops, option, adjust_max>>

AutoadjustStep ==
  /\ Take("range") /\ option = "autoadjust"
  /\ adjust_max' = find_glare_threshold(picture)
  /\ picture' = Adjusted(picture, adjust_max')
  /\ UNCHANGED <<original, order, stops, option>>

NoRangeStep ==
  /\ Take("range") /\ option = "none"
  /\ UNCHANGED <<original, picture, order, stops, option, adjust_max>>

AdjustFinished == todo = <<>> /\ UNCHANGED adjustVars

AdjustNext ==
  \/ ExposureStep \/ RangeStep \/ InvertStep \/ AutoadjustStep \/ NoRangeStep
  \/ AdjustFinished

AdjustSpec == AdjustInit /\ [][AdjustNext]_adjustVars

-----------------------------------------------------------------------------
Same(a, b) == \A p \in Pixel, c \in Channel :
                a.px[p][c] * b.den = b.px[p][c] * a.den

Inverting == option \in {"fullrangeinvert", "halfrangeinvert"}

(* The range options map the values of the picture onto the new range in a *)
(* straight line: its ends are reached, and every distance of two values   *)
(* is to the old range as it is to the new one, the same way round or, for *)
(* the inverting options, the other way.  A picture with no range at all,  *)
(* by which the distances could not be divided, gets the middle of the new *)
(* one.                                                                    *)
RangeUsed ==
  todo = <<>> /\ option \in Options \ {"none", "autoadjust"} =>
    IF Flat(original)
    THEN \A p \in Pixel, c \in Channel :
           200 * picture.px[p][c] = (RANGE_MAX + RangeMin(option)) * picture.den
    ELSE /\ 100 * Brightest(picture) = RANGE_MAX * picture.den
         /\ 100 * Darkest(picture) = RangeMin(option) * picture.den
         /\ \A p, q \in Pixel, c, d \in Channel :
              LET was == original.px[p][c] - original.px[q][d]
                  is  == picture.px[p][c] - picture.px[q][d]
                  way == IF Inverting THEN -was ELSE was
              IN  100 * is * (Brightest(original) - Darkest(original))
                    = way * (RANGE_MAX - RangeMin(option)) * picture.den

(* --autoadjust "can be combined with --exposure": what a stop does to the *)
(* picture does not depend on the program, although rad2tiff looks for     *)
(* glare in the exposed picture and rad2jpeg in the one that was read.     *)
OrderIrrelevant ==
  todo = <<>> /\ option = "autoadjust" =>
    LET Auto(im) == Adjusted(im, find_glare_threshold(im))
    IN  Same(picture, IF order = "exposure first" THEN Expose(Auto(original), stops)
                                                ELSE Auto(Expose(original, stops)))

(* A picture without glare that reaches down to black, the usual one, is   *)
(* left by --autoadjust as it is.                                          *)
LeavesTheUsual ==
  todo = <<>> /\ option = "autoadjust" /\ NoGlare(original)
  /\ Darkest(original) = 0 /\ ~Flat(original) => Same(picture, Expose(original, stops))
=============================================================================
