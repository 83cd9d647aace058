-------------------------------- MODULE Rgbe --------------------------------
(***************************************************************************)
(* setcolr and colr_color of radiance/color.c: a colour as three mantissas *)
(* and one exponent, a byte each, and what becomes of a pixel that is      *)
(* converted there and back again and again, as a picture is that goes     *)
(* through rad2tiff and tiff2rad several times.                            *)
(*                                                                         *)
(* Real values are integers here, on a scale given by an exponent x: the   *)
(* integer n stands for n * 2^(x - COLXS - 9), so that the half that       *)
(* colr_color adds to a mantissa is a 1.  The limits are those of the      *)
(* code; LargestValue keeps the products below 2^31.                       *)
(***************************************************************************)
EXTENDS Integers

CONSTANTS
  Red,         (* the values of one channel of a new pixel                 *)
  Channel,     (* the values of the other two                              *)
  Exponent     (* the scales: the exponent byte before normalisation       *)

COLXS        == 128
LargestValue == 838
Channels     == {"RED", "GRN", "BLU"}

(* 255.9999, in parts of 10000 *)
Scale == 2559999
Parts == 10000

(* 1e-32 is 0.8113 * 2^-106, whose exponent byte is 22. *)
DarkExp  == 22
DarkPart == 8113

ASSUME RgbeAssumption ==
  /\ Red \subseteq -1 .. LargestValue
  /\ Channel \subseteq -1 .. LargestValue
  /\ Exponent \subseteq 12 .. 2 * COLXS - 1

VARIABLES
  value,   (* the colour the pixel was made of: channels v at scale x      *)
  clr,     (* the COLR: mantissas m and exponent byte e                    *)
  passes   (* the conversions there and back since (a history variable)    *)

vars == <<value, clr, passes>>

MaxPasses == 4                 \* bound of the exploration

LargestOf(f) == CHOOSE n \in {f[c] : c \in Channels} : \A c \in Channels : f[c] <= n

Black == [m |-> [c \in Channels |-> 0], e |-> 0]

(* Mutated form: values are not normalised. *)
BugBits(n) == 10

(* frexp: the number of bits of n. *)
Bits(n) == CHOOSE k \in 1 .. 10 : 2 ^ (k - 1) <= n /\ n < 2 ^ k

(* Mutated form: colr_color adds no half. *)
Bugcolr_color(p) ==
  IF p.e = 0 THEN [c \in Channels |-> 0] ELSE [c \in Channels |-> 2 * p.m[c]]

(* r * d: the product is cut to an integer. *)
Mantissa(n, bits) == (n * Scale) \div (Parts * 2 ^ bits)

(* The exponent byte is cut to eight bits.                                 *)
setcolr(v, x) ==
  LET d    == LargestOf(v)
      bits == Bits(d)
      e    == bits + x - 9
      dark == e < DarkExp \/ (e = DarkExp /\ d * Parts <= DarkPart * 2 ^ bits)
  IN  IF d <= 0 \/ dark
      THEN Black
      ELSE [m |-> [c \in Channels |-> IF v[c] > 0 THEN Mantissa(v[c], bits) ELSE 0],
            e |-> e % (2 * COLXS)]

(* The channels at the scale of the exponent byte. *)
colr_color(p) ==
  IF p.e = 0 THEN [c \in Channels |-> 0]
             ELSE [c \in Channels |-> 2 * p.m[c] + 1]

-----------------------------------------------------------------------------
Init ==
  /\ \E x \in Exponent, r \in Red, g, b \in Channel :
       value = [x |-> x, v |-> [RED |-> r, GRN |-> g, BLU |-> b]]
  /\ clr = setcolr(value.v, value.x)
  /\ passes = 0

(* freadscan here, fwritescan there. *)
Pass ==
  /\ passes < MaxPasses
  /\ clr' = setcolr(colr_color(clr), clr.e)
  /\ passes' = passes + 1
  /\ UNCHANGED value

Next == Pass

Spec == Init /\ [][Next]_vars

-----------------------------------------------------------------------------
(* A new pixel whose exponent does not fit its byte: a float of 2^127 or   *)
(* more, which a reader then takes for black.                              *)
TooBright ==
  LargestOf(value.v) > 0 /\ Bits(LargestOf(value.v)) + value.x - 9 >= 2 * COLXS

(* What oldreadcolrs takes for a run-length marker, and freadcolrs for the *)
(* header of an encoded row, when it is the first pixel of one.            *)
AsMarker(p) == \A c \in Channels : p.m[c] = 1
AsHeader(p) == p.m["RED"] = 2 /\ p.m["GRN"] = 2 /\ p.m["BLU"] < COLXS

(* A pixel that setcolr has made is black or has a mantissa in the upper   *)
(* half of the range, or 127 for a power of two, and a conversion leaves   *)
(* it black or with one in the upper half.  So no pixel is ever a marker,  *)
(* on which oldreadcolrs relies, and one that looks like a header is new,  *)
(* of a colour whose blue is a power of two (2, 2, 127): the first         *)
(* conversion ends that.  No pixel of a file becomes TooBright.            *)
Normalised ==
  /\ \A c \in Channels : clr.m[c] \in 0 .. 255
  /\ clr # Black => LargestOf(clr.m) >= IF passes = 0 THEN 127 ELSE 128
  /\ clr # Black /\ ~(TooBright /\ passes = 0) => clr.e >= DarkExp
  /\ ~AsMarker(clr)
  /\ AsHeader(clr) => passes = 0 /\ clr.m["BLU"] = 127

(* The value read differs from the one written by at most one part in 128  *)
(* of the largest channel, and that does not add up over conversions.      *)
StaysClose ==
  clr # Black /\ ~TooBright =>
    LET back == colr_color(clr)
        d    == LargestOf(value.v)
        k    == value.x - clr.e      \* the scales differ by 2^k
        Up(n)   == IF k >= 0 THEN n * 2 ^ k ELSE n
        Back(n) == IF k >= 0 THEN n ELSE n * 2 ^ (-k)
        Diff(c) == IF value.v[c] > 0 THEN Up(value.v[c]) - Back(back[c]) ELSE -Back(back[c])
    IN  \A c \in Channels : /\ 128 * Diff(c) <= Up(d)
                            /\ -128 * Diff(c) <= Up(d)

(* One conversion may change the bytes of a pixel (127 becomes 254 at half *)
(* the scale); from then on they stay.                                     *)
Settles == [][passes >= 1 => clr' = clr]_vars
=============================================================================
