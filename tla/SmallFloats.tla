---------------------------- MODULE SmallFloats ----------------------------
(***************************************************************************)
(* The floating-point numbers of 16 and 24 bits of tifftools.c.  A number  *)
(* is its three fields: sign s, biased exponent e, mantissa m.             *)
(***************************************************************************)
EXTENDS Integers, FiniteSetsExt

FloatBits == 23
FloatBias == 127
FloatMax  == 255

(* bits of the mantissa, bias and largest value of the exponent, and the   *)
(* bit at which a denormalized mantissa is taken for normalized.           *)
Half   == [bits |-> 10, bias |-> 15, max |-> 31,  renorm |-> 10]
Triple == [bits |-> 16, bias |-> 63, max |-> 127, renorm |-> 13]

Unit(f) == 2 ^ (FloatBits - f.bits)

(* The loop does not end: the mantissa is shifted out.                     *)
Never == [s |-> 0, e |-> -1, m |-> 0]

-----------------------------------------------------------------------------
(* Mutated form: the exponent of a denormalized number starts from 0.      *)
BugDenormalExponent(f, k) == FloatBias - f.bias - k

DenormalExponent(f, k) == FloatBias - f.bias + 1 - k

(* a | b, of nine bits each: the bits of a, and those of b that a has not. *)
Bit(n, k) == (n \div 2 ^ k) % 2
Or(a, b)  == a + MapThenSumSet(LAMBDA k : 2 ^ k, {k \in 0 .. 8 : Bit(b, k) = 1 /\ Bit(a, k) = 0})

(* (iSign << 31) | (iExponent << 23) | iMantissa, where what the mantissa  *)
(* has beyond its own bits spills into the fields above.                   *)
Assemble(f, s, e, m) ==
  LET spill == (m \div 2 ^ f.bits) % 512
  IN  [s |-> Or(s, spill \div 256), e |-> Or(e, spill) % 256,
       m |-> (m % 2 ^ f.bits) * Unit(f)]

(* Bits above the one looked for do not end the loop.                      *)
Renormalized(f, x) ==
  LET low == x.m % 2 ^ (f.renorm + 1)
      k   == CHOOSE j \in 0 .. f.renorm : low * 2 ^ j \in 2 ^ f.renorm .. 2 ^ (f.renorm + 1) - 1
  IN  IF low = 0 THEN Never
      ELSE Assemble(f, x.s, DenormalExponent(f, k), x.m * 2 ^ k - 2 ^ f.renorm)

ToFloat(f, x) ==
  CASE x.e = 0 /\ x.m = 0 -> [s |-> x.s, e |-> 0, m |-> 0]
    [] x.e = 0 /\ x.m > 0 -> Renormalized(f, x)
    [] x.e = f.max        -> [s |-> x.s, e |-> FloatMax, m |-> x.m * Unit(f)]
    [] OTHER              -> Assemble(f, x.s, x.e + FloatBias - f.bias, x.m)

half_to_float(x)   == ToFloat(Half, x)
triple_to_float(x) == ToFloat(Triple, x)

-----------------------------------------------------------------------------
(* A half is rounded up.                                                   *)
Rounded(f, n) == IF ((2 * n) \div Unit(f)) % 2 = 1 THEN n + Unit(f) ELSE n

(* Rounding may carry into the exponent, of a denormalized number too.     *)
FromFloat(f, x) ==
  LET e     == x.e - (FloatBias - f.bias)
      small == Rounded(f, (2 ^ FloatBits + x.m) \div 2 ^ (1 - e)) \div Unit(f)
      cut   == x.m \div Unit(f)
      n     == Rounded(f, x.m)
      carry == n \div 2 ^ FloatBits
      Number(ee, mm) == [s |-> x.s, e |-> ee, m |-> mm]
  IN  CASE e < -f.bits                   -> Number(0, 0)
        [] e \in -f.bits .. 0            -> Number(small \div 2 ^ f.bits, small % 2 ^ f.bits)
        [] x.e = FloatMax                -> Number(f.max, IF x.m > 0 /\ cut = 0 THEN 1 ELSE cut)
        [] e > 0 /\ x.e # FloatMax       ->
             IF e + carry >= f.max THEN Number(f.max, 0)
             ELSE Number(e + carry, (n % 2 ^ FloatBits) \div Unit(f))

float_to_half(x)   == FromFloat(Half, x)
float_to_triple(x) == FromFloat(Triple, x)

-----------------------------------------------------------------------------
(* What the numbers stand for, for the properties: n * 2^x as a float.     *)
AsFloat(s, n, x) ==
  LET b == CHOOSE k \in 1 .. 18 : n \in 2 ^ (k - 1) .. 2 ^ k - 1
  IN  [s |-> s, e |-> b - 1 + x + FloatBias, m |-> (n - 2 ^ (b - 1)) * 2 ^ (FloatBits + 1 - b)]

(* A finite number of format f other than 0, in units of the last place.   *)
Units(f, x)    == IF x.e = 0 THEN x.m ELSE 2 ^ f.bits + x.m
LastPlace(f, x) == (IF x.e = 0 THEN 1 ELSE x.e) - f.bias - f.bits

Meaning(f, x) ==
  CASE x.e = 0 /\ x.m = 0 -> [s |-> x.s, e |-> 0, m |-> 0]
    [] x.e = f.max        -> [s |-> x.s, e |-> FloatMax, m |-> x.m * Unit(f)]
    [] OTHER              -> AsFloat(x.s, Units(f, x), LastPlace(f, x))

(* The middle between a finite number and the next larger one.             *)
Middle(f, x) == AsFloat(x.s, 2 * Units(f, x) + 1, LastPlace(f, x) - 1)

Before(f, x) == IF x.m > 0 THEN [x EXCEPT !.m = x.m - 1]
                           ELSE [x EXCEPT !.e = x.e - 1, !.m = 2 ^ f.bits - 1]

AtMost(a, b) == a.e < b.e \/ (a.e = b.e /\ a.m <= b.m)     \* magnitudes

(* x is the number of format f that is nearest to the float y, the larger  *)
(* of two in the middle.                                                   *)
IsNearest(f, x, y) ==
  /\ x.s = y.s
  /\ x.e < f.max             => ~AtMost(Middle(f, x), y)
  /\ x.e # 0 \/ x.m # 0      => AtMost(Middle(f, Before(f, x)), y)
IsDenormal(x) == x.e = 0 /\ x.m > 0
IsNaN(x, max) == x.e = max /\ x.m > 0
=============================================================================
