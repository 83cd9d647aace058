----------------------------- MODULE RgbeProofs -----------------------------
(***************************************************************************)
(* What Rgbe promises, for every colour and every scale whose exponent     *)
(* fits, and for any number of conversions.                                *)
(*                                                                         *)
(* The provers know no law of powers with a variable exponent.  There are  *)
(* eleven powers here, so a table takes the place of the laws, and where a *)
(* bound is to be shown each row of it is a case of linear arithmetic.     *)
(***************************************************************************)
EXTENDS Rgbe, TLAPS

-----------------------------------------------------------------------------
(* Powers of two, and the number of bits.                                  *)
Power(k, p) ==
  <<k, p>> \in {<<0, 1>>, <<1, 2>>, <<2, 4>>, <<3, 8>>, <<4, 16>>, <<5, 32>>, <<6, 64>>,
                <<7, 128>>, <<8, 256>>, <<9, 512>>, <<10, 1024>>}

LEMMA PowerOfTwo ==
  ASSUME NEW k, NEW p, Power(k, p)
  PROVE  2 ^ k = p
<1>0. k \in 0 .. 10
  BY DEF Power
<1>1. PICK g : g = [i \in 0 .. 10 |-> 2 ^ i]
  OBVIOUS
<1>2. g[k] = 2 ^ k
  BY <1>0, <1>1
<1>3. /\ g[0] = 1 /\ g[1] = 2 /\ g[2] = 4 /\ g[3] = 8 /\ g[4] = 16 /\ g[5] = 32
      /\ g[6] = 64 /\ g[7] = 128 /\ g[8] = 256 /\ g[9] = 512 /\ g[10] = 1024
  BY <1>1
<1>4. g[k] = p
  BY <1>3 DEF Power
<1> QED
  BY <1>2, <1>4

LEMMA PowerFound ==
  ASSUME NEW k \in 0 .. 10
  PROVE  Power(k, 2 ^ k)
<1>1. \E p : Power(k, p)
  BY DEF Power
<1> QED
  BY <1>1, PowerOfTwo

(* The powers of the table, and the one below each. *)
LEMMA PowerFacts ==
  ASSUME NEW k \in Int, NEW p, Power(k, p)
  PROVE  /\ k \in 0 .. 10
         /\ p \in 1 .. 1024
         /\ \A j \in Int : \A q : Power(j, q) /\ k = j + 1 => p = 2 * q
BY DEF Power

(* n has k bits, and p = 2 ^ k. *)
HasBits(n, k, p) == Power(k, p) /\ p <= 2 * n /\ n < p
BitsCounted(n)   == \E k \in Nat, p \in Nat : k > 0 /\ k = Bits(n) /\ HasBits(n, k, p)

LEMMA BitsFound ==
  ASSUME NEW n \in Nat, n > 0, n <= 1023
  PROVE  BitsCounted(n)
<1>1. \E k \in 1 .. 10 : \E q, p : Power(k - 1, q) /\ Power(k, p) /\ q <= n /\ n < p
  <2>1. \/ n < 2 \/ n \in 2 .. 3 \/ n \in 4 .. 7 \/ n \in 8 .. 15 \/ n \in 16 .. 31
        \/ n \in 32 .. 63 \/ n \in 64 .. 127 \/ n \in 128 .. 255 \/ n \in 256 .. 511
        \/ n \in 512 .. 1023
    OBVIOUS
  <2>2. CASE n < 2
    <3>1. Power(1 - 1, 1) /\ Power(1, 2)
      BY DEF Power
    <3> QED
      BY <2>2, <3>1
  <2>3. CASE n \in 2 .. 3
    <3>1. Power(2 - 1, 2) /\ Power(2, 4)
      BY DEF Power
    <3> QED
      BY <2>3, <3>1
  <2>4. CASE n \in 4 .. 7
    <3>1. Power(3 - 1, 4) /\ Power(3, 8)
      BY DEF Power
    <3> QED
      BY <2>4, <3>1
  <2>5. CASE n \in 8 .. 15
    <3>1. Power(4 - 1, 8) /\ Power(4, 16)
      BY DEF Power
    <3> QED
      BY <2>5, <3>1
  <2>6. CASE n \in 16 .. 31
    <3>1. Power(5 - 1, 16) /\ Power(5, 32)
      BY DEF Power
    <3> QED
      BY <2>6, <3>1
  <2>7. CASE n \in 32 .. 63
    <3>1. Power(6 - 1, 32) /\ Power(6, 64)
      BY DEF Power
    <3> QED
      BY <2>7, <3>1
  <2>8. CASE n \in 64 .. 127
    <3>1. Power(7 - 1, 64) /\ Power(7, 128)
      BY DEF Power
    <3> QED
      BY <2>8, <3>1
  <2>9. CASE n \in 128 .. 255
    <3>1. Power(8 - 1, 128) /\ Power(8, 256)
      BY DEF Power
    <3> QED
      BY <2>9, <3>1
  <2>10. CASE n \in 256 .. 511
    <3>1. Power(9 - 1, 256) /\ Power(9, 512)
      BY DEF Power
    <3> QED
      BY <2>10, <3>1
  <2>11. CASE n \in 512 .. 1023
    <3>1. Power(10 - 1, 512) /\ Power(10, 1024)
      BY DEF Power
    <3> QED
      BY <2>11, <3>1
  <2> QED
    BY <2>1, <2>2, <2>3, <2>4, <2>5, <2>6, <2>7, <2>8, <2>9, <2>10, <2>11
<1>2. \E k \in 1 .. 10 : 2 ^ (k - 1) <= n /\ n < 2 ^ k
  BY <1>1, PowerOfTwo
<1>3. Bits(n) \in 1 .. 10 /\ 2 ^ (Bits(n) - 1) <= n /\ n < 2 ^ Bits(n)
  BY <1>2 DEF Bits
<1>4. PICK k \in 1 .. 10 : k = Bits(n)
  BY <1>3
<1>5. Power(k, 2 ^ k) /\ Power(k - 1, 2 ^ (k - 1))
  <2>1. k \in 0 .. 10 /\ k - 1 \in 0 .. 10
    OBVIOUS
  <2> QED
    BY <2>1, PowerFound
<1>6. PICK p, q : p = 2 ^ k /\ q = 2 ^ (k - 1)
  OBVIOUS
<1>7. p \in 1 .. 1024 /\ q \in 1 .. 1024 /\ p = 2 * q
  <2>1. PICK j \in Int : j = k - 1
    OBVIOUS
  <2>2. Power(k, p) /\ Power(j, q) /\ k = j + 1
    BY <1>5, <1>6, <2>1
  <2> QED
    BY <2>2, PowerFacts
<1>8. q <= n /\ n < p
  BY <1>3, <1>4, <1>6
<1>9. HasBits(n, k, p)
  BY <1>5, <1>6, <1>7, <1>8 DEF HasBits
<1> QED
  BY <1>4, <1>7, <1>9 DEF BitsCounted

LEMMA BitsAre ==
  ASSUME NEW n \in Nat, n > 0, n <= 1023, NEW k \in Int, NEW p \in Int, HasBits(n, k, p)
  PROVE  Bits(n) = k
<1>1. PICK j \in Nat, q \in Nat : j = Bits(n) /\ HasBits(n, j, q)
  <2>1. BitsCounted(n)
    BY BitsFound
  <2> QED
    BY <2>1 DEF BitsCounted
<1>2. p < 2 * q /\ q < 2 * p /\ Power(j, q) /\ Power(k, p)
  BY <1>1 DEF HasBits
<1>3. j = k
  BY <1>2 DEF Power
<1> QED
  BY <1>1, <1>3

-----------------------------------------------------------------------------
(* Mantissas.  m is the mantissa of n when 2 ^ bits = p.                   *)
IsMantissa(n, p, m) ==
  10000 * (p * m) <= 2559999 * n /\ 2559999 * n < 10000 * (p * m) + 10000 * p

CutTo(n, k, p) == \E m \in Nat : m = Mantissa(n, k) /\ IsMantissa(n, p, m)

LEMMA Quotient ==
  ASSUME NEW a \in Nat, NEW b \in Nat, b > 0
  PROVE  \E q \in Nat : q = a \div b /\ b * q <= a /\ a < b * q + b
OBVIOUS

LEMMA MantissaFound ==
  ASSUME NEW n \in Nat, n <= 1023, NEW k \in Nat, NEW p \in Nat, Power(k, p)
  PROVE  CutTo(n, k, p)
<1>1. PICK a \in Nat : a = 2559999 * n
  OBVIOUS
<1>2. PICK b \in Nat : b = 10000 * p
  OBVIOUS
<1>p. p > 0 /\ k \in 0 .. 10
  BY PowerFacts
<1>3. Mantissa(n, k) = a \div b
  <2>1. 2 ^ k = p
    BY <1>p, PowerOfTwo
  <2> QED
    BY <1>1, <1>2, <2>1 DEF Mantissa, Scale, Parts
<1>4. b > 0
  BY <1>2, <1>p
<1>5. PICK m \in Nat : m = a \div b /\ b * m <= a /\ a < b * m + b
  BY <1>4, Quotient
<1>6. b * m = 10000 * (p * m)
  BY <1>2
<1>7. IsMantissa(n, p, m)
  BY <1>1, <1>2, <1>5, <1>6 DEF IsMantissa
<1> QED
  BY <1>3, <1>5, <1>7 DEF CutTo

LEMMA MantissaIs ==
  ASSUME NEW n \in Nat, n <= 1023, NEW k \in Nat, NEW p \in Nat, Power(k, p),
         NEW m \in Nat, IsMantissa(n, p, m)
  PROVE  Mantissa(n, k) = m
<1>cut. CutTo(n, k, p)
  BY MantissaFound
<1>p. p > 0
  BY PowerFacts
<1>1. PICK j \in Nat : j = Mantissa(n, k) /\ IsMantissa(n, p, j)
  BY <1>cut DEF CutTo
<1>2. PICK a \in Nat : a = p * m
  OBVIOUS
<1>3. PICK b \in Nat : b = p * j
  OBVIOUS
<1>4. a < b + p /\ b < a + p
  BY <1>1, <1>2, <1>3 DEF IsMantissa
<1>5. p * m < p * (j + 1) /\ p * j < p * (m + 1)
  BY <1>2, <1>3, <1>4
<1>6. m < j + 1 /\ j < m + 1
  BY <1>5, <1>p
<1> QED
  BY <1>1, <1>6

(* Mantissas fit a byte and keep the order of the values; that of the      *)
(* largest is in the upper half, or 127.                                   *)
LEMMA MantissaRange ==
  ASSUME NEW d \in Nat, d > 0, d <= 1023, NEW p \in Nat, NEW k \in Nat, HasBits(d, k, p),
         NEW n \in Nat, n <= d
  PROVE  /\ Mantissa(n, k) \in 0 .. 255 /\ Mantissa(d, k) \in 127 .. 255
         /\ Mantissa(n, k) <= Mantissa(d, k)
<1>cut. Power(k, p) /\ n <= 1023
  BY DEF HasBits
<1>cuts. CutTo(n, k, p) /\ CutTo(d, k, p)
  BY <1>cut, MantissaFound
<1>1. PICK m \in Nat : m = Mantissa(n, k) /\ IsMantissa(n, p, m)
  BY <1>cuts DEF CutTo
<1>2. PICK j \in Nat : j = Mantissa(d, k) /\ IsMantissa(d, p, j)
  BY <1>cuts DEF CutTo
<1>3. PICK a \in Nat, b \in Nat : a = p * m /\ b = p * j
  OBVIOUS
<1>4. d < p /\ p <= 2 * d
  BY DEF HasBits
<1>5. /\ 10000 * a <= 2559999 * n /\ 10000 * b <= 2559999 * d
      /\ 2559999 * d < 10000 * b + 10000 * p
  BY <1>1, <1>2, <1>3 DEF IsMantissa
<1>6. a < 256 * p /\ b < 256 * p /\ b + p > 127 * p /\ a < b + p
  BY <1>4, <1>5
<1>p. p > 0
  BY <1>4
<1>7. p * m < p * 256 /\ p * j < p * 256 /\ p * (j + 1) > p * 127 /\ p * m < p * (j + 1)
  BY <1>3, <1>6
<1>8. m < 256 /\ j < 256 /\ j + 1 > 127 /\ m < j + 1
  BY <1>7, <1>p
<1> QED
  BY <1>1, <1>2, <1>8

(* Adding a half to a mantissa and cutting the product gives it back, or   *)
(* twice the mantissa at half the scale.                                   *)
LEMMA MantissaBack ==
  ASSUME NEW m \in Nat, m <= 255
  PROVE  /\ Mantissa(2 * m + 1, 9) = m
         /\ m <= 127 => Mantissa(2 * m + 1, 8) = 2 * m
<1>1. Power(9, 512) /\ Power(8, 256)
  BY DEF Power
<1>2. IsMantissa(2 * m + 1, 512, m) /\ (m <= 127 => IsMantissa(2 * m + 1, 256, 2 * m))
  BY DEF IsMantissa
<1>3. PICK n \in Nat : n = 2 * m + 1 /\ n <= 1023
  OBVIOUS
<1>4. PICK j \in Nat, k \in Nat, p \in Nat : j = 2 * m /\ k = 8 /\ p = 256
  OBVIOUS
<1>5. Mantissa(n, 9) = m
  <2>1. PICK b \in Nat, q \in Nat : b = 9 /\ q = 512
    OBVIOUS
  <2>2. Power(b, q) /\ IsMantissa(n, q, m) /\ m \in Nat
    BY <1>1, <1>2, <1>3, <2>1
  <2>3. Mantissa(n, b) = m
    BY <1>3, <2>2, MantissaIs
  <2> QED
    BY <2>1, <2>3
<1>6. m <= 127 => Mantissa(n, 8) = 2 * m
  <2>1. Power(k, p) /\ (m <= 127 => IsMantissa(n, p, j))
    BY <1>1, <1>2, <1>3, <1>4
  <2>2. m <= 127 => Mantissa(n, k) = j
    BY <1>3, <2>1, MantissaIs
  <2> QED
    BY <1>4, <2>2
<1> QED
  BY <1>3, <1>5, <1>6

-----------------------------------------------------------------------------
(* Colours.  c is a channel with the largest value of f.                   *)
Tops(f, c) == \A b \in Channels : f[b] <= f[c]

LEMMA LargestIs ==
  ASSUME NEW f \in [Channels -> Int], NEW c \in Channels, Tops(f, c)
  PROVE  LargestOf(f) = f[c]
<1>1. PICK S : S = {f[b] : b \in Channels}
  OBVIOUS
<1>2. LargestOf(f) = CHOOSE n \in S : \A b \in Channels : f[b] <= n
  BY <1>1 DEF LargestOf
<1>3. PICK n \in Int : n = f[c]
  OBVIOUS
<1>4. n \in S /\ \A b \in Channels : f[b] <= n
  BY <1>1, <1>3 DEF Tops
<1>5. ASSUME NEW i \in S, \A b \in Channels : f[b] <= i PROVE i = n
  <2>1. PICK b \in Channels : i = f[b]
    BY <1>1
  <2>2. i \in Int /\ i <= n /\ n <= i
    BY <1>3, <1>4, <1>5, <2>1
  <2> QED
    BY <2>2
<1> QED
  BY <1>2, <1>3, <1>4, <1>5

LEMMA LargestFound ==
  ASSUME NEW f \in [Channels -> Int]
  PROVE  \E c \in Channels : Tops(f, c) /\ LargestOf(f) = f[c]
<1>1. \E c \in Channels : Tops(f, c)
  <2>1. PICK r \in Int, g \in Int, b \in Int : r = f["RED"] /\ g = f["GRN"] /\ b = f["BLU"]
    BY DEF Channels
  <2>2. CASE r >= g /\ r >= b
    BY <2>1, <2>2 DEF Tops, Channels
  <2>3. CASE g >= r /\ g >= b
    BY <2>1, <2>3 DEF Tops, Channels
  <2>4. CASE b >= r /\ b >= g
    BY <2>1, <2>4 DEF Tops, Channels
  <2> QED
    BY <2>2, <2>3, <2>4
<1> QED
  BY <1>1, LargestIs

(* What setcolr makes of values v whose largest has k bits, p = 2 ^ k.     *)
Dark(d, p, e) == e < DarkExp \/ (e = DarkExp /\ d * Parts <= DarkPart * p)
Code(v, k, x) == [m |-> [c \in Channels |-> IF v[c] > 0 THEN Mantissa(v[c], k) ELSE 0],
                  e |-> ((k + x) - 9) % 256]

LEMMA SetcolrIs ==
  ASSUME NEW v, NEW x \in Int, NEW d \in Nat, d = LargestOf(v), d > 0, d <= 1023,
         NEW k \in Nat, NEW p \in Nat, HasBits(d, k, p)
  PROVE  setcolr(v, x) = IF Dark(d, p, (k + x) - 9) THEN Black ELSE Code(v, k, x)
<1>1. Bits(d) = k
  BY BitsAre
<1>2. 2 ^ k = p
  <2>1. Power(k, p)
    BY DEF HasBits
  <2>2. k \in 0 .. 10
    BY <2>1, PowerFacts
  <2> QED
    BY <2>1, <2>2, PowerOfTwo
<1>3. (k + x) - 9 = k + x - 9 /\ 2 * COLXS = 256 /\ ~(d <= 0)
  BY DEF COLXS
<1> QED
  BY <1>1, <1>2, <1>3 DEF setcolr, Dark, Code

LEMMA SetcolrBlack ==
  ASSUME NEW v, NEW x, LargestOf(v) <= 0
  PROVE  setcolr(v, x) = Black
BY DEF setcolr

(* Bytes, the largest mantissa that of the largest value. *)
Bytes == [Channels -> 0 .. 255]

WellCoded(v, x, d, k) ==
  /\ Code(v, k, x).m \in Bytes
  /\ LargestOf(Code(v, k, x).m) = Mantissa(d, k) /\ Mantissa(d, k) \in 127 .. 255
  /\ Code(v, k, x).e \in 0 .. 255
  /\ (k + x) - 9 \in 0 .. 255 => Code(v, k, x).e = (k + x) - 9

LEMMA CodeFacts ==
  ASSUME NEW v \in [Channels -> Int], NEW x \in Int, NEW d \in Nat, d = LargestOf(v),
         d > 0, d <= 1023, NEW k \in Nat, NEW p \in Nat, HasBits(d, k, p)
  PROVE  WellCoded(v, x, d, k)
<1>1. PICK m : m = Code(v, k, x).m
  OBVIOUS
<1>2. m = [c \in Channels |-> IF v[c] > 0 THEN Mantissa(v[c], k) ELSE 0]
  BY <1>1 DEF Code
<1>3. PICK t \in Channels : Tops(v, t) /\ d = v[t]
  BY LargestFound
<1>4. PICK j \in 127 .. 255 : j = Mantissa(d, k)
  <2>1. d <= d
    OBVIOUS
  <2>2. Mantissa(d, k) \in 127 .. 255
    BY <2>1, MantissaRange
  <2> QED
    BY <2>2
<1>5. ASSUME NEW c \in Channels PROVE m[c] \in 0 .. 255 /\ m[c] <= j
  <2>1. CASE v[c] > 0
    <3>1. PICK n \in Nat : n = v[c]
      BY <2>1
    <3>2. n <= d
      BY <1>3, <3>1 DEF Tops
    <3>3. m[c] = Mantissa(n, k)
      BY <1>2, <2>1, <3>1
    <3>4. Mantissa(n, k) \in 0 .. 255 /\ Mantissa(n, k) <= Mantissa(d, k)
      BY <3>2, MantissaRange
    <3> QED
      BY <1>4, <3>3, <3>4
  <2>2. CASE ~(v[c] > 0)
    BY <1>2, <1>4, <2>2
  <2> QED
    BY <2>1, <2>2
<1>6. m \in Bytes
  BY <1>2, <1>5 DEF Bytes
<1>7. m[t] = j
  BY <1>2, <1>3, <1>4
<1>8. LargestOf(m) = j
  <2>1. m \in [Channels -> Int] /\ Tops(m, t)
    BY <1>5, <1>6, <1>7 DEF Bytes, Tops
  <2> QED
    BY <1>7, <2>1, LargestIs
<1>9. Code(v, k, x).e = ((k + x) - 9) % 256
  BY DEF Code
<1>10. PICK e \in Int : e = (k + x) - 9
  OBVIOUS
<1>11. e % 256 \in 0 .. 255 /\ (e \in 0 .. 255 => e % 256 = e)
  OBVIOUS
<1> QED
  BY <1>1, <1>4, <1>6, <1>8, <1>9, <1>10, <1>11 DEF WellCoded

-----------------------------------------------------------------------------
(* One conversion there and back.                                          *)
Again(q) == setcolr(colr_color(q), q.e)

(* A pixel at half its scale. *)
Doubled(q) == [m |-> [c \in Channels |-> 2 * q.m[c]], e |-> q.e - 1]

COLR == [m : Bytes, e : 0 .. 255]

LEMMA AgainBlack ==
  ASSUME NEW q, q.e = 0
  PROVE  Again(q) = Black
<1>1. PICK f : f = [c \in Channels |-> 0]
  OBVIOUS
<1>2. "RED" \in Channels
  BY DEF Channels
<1>3. f \in [Channels -> Int] /\ Tops(f, "RED") /\ f["RED"] = 0
  BY <1>1, <1>2 DEF Tops
<1>4. LargestOf(f) = 0
  BY <1>2, <1>3, LargestIs
<1>5. colr_color(q) = f
  BY <1>1 DEF colr_color
<1> QED
  BY <1>4, <1>5, SetcolrBlack DEF Again

(* The colour of a pixel: its largest value is that of the largest         *)
(* mantissa.                                                               *)
LEMMA ColourOf ==
  ASSUME NEW q \in COLR, q.e # 0
  PROVE  /\ colr_color(q) = [c \in Channels |-> 2 * q.m[c] + 1]
         /\ colr_color(q) \in [Channels -> Int]
         /\ LargestOf(q.m) \in 0 .. 255 /\ LargestOf(colr_color(q)) = 2 * LargestOf(q.m) + 1
<1>1. q.m \in [Channels -> Int] /\ \A c \in Channels : q.m[c] \in 0 .. 255
  BY DEF COLR, Bytes
<1>2. PICK t \in Channels : Tops(q.m, t) /\ LargestOf(q.m) = q.m[t]
  BY <1>1, LargestFound
<1>3. PICK f : f = colr_color(q) /\ f = [c \in Channels |-> 2 * q.m[c] + 1]
  BY DEF colr_color
<1>4. f \in [Channels -> Int] /\ Tops(f, t) /\ f[t] = 2 * q.m[t] + 1
  BY <1>1, <1>2, <1>3 DEF Tops
<1>5. LargestOf(f) = f[t]
  BY <1>4, LargestIs
<1> QED
  BY <1>1, <1>2, <1>3, <1>4, <1>5

(* With a mantissa in the upper half a pixel comes back as it was, or is   *)
(* black for being too dark.                                               *)
LEMMA AgainUpper ==
  ASSUME NEW q \in COLR, LargestOf(q.m) >= 128, q.e >= 22
  PROVE  Again(q) = IF q.e = 22 /\ LargestOf(q.m) <= 207 THEN Black ELSE q
<1>1. PICK v : v = colr_color(q)
  OBVIOUS
<1>2. PICK x \in Nat : x = q.e
  BY DEF COLR
<1>3. /\ v = [c \in Channels |-> 2 * q.m[c] + 1] /\ v \in [Channels -> Int]
      /\ LargestOf(q.m) \in 0 .. 255 /\ LargestOf(v) = 2 * LargestOf(q.m) + 1
  BY <1>1, <1>2, ColourOf
<1>top. PICK top \in Nat : top = LargestOf(q.m) /\ top >= 128 /\ top <= 255
  BY <1>3
<1>4. PICK d \in Nat : d = LargestOf(v) /\ d = 2 * top + 1 /\ d > 256 /\ d <= 511
  BY <1>3, <1>top
<1>5. PICK k \in Nat, p \in Nat : k = 9 /\ p = 512
  OBVIOUS
<1>6. HasBits(d, k, p)
  BY <1>4, <1>5 DEF HasBits, Power
<1>7. Again(q) = IF Dark(d, p, (k + x) - 9) THEN Black ELSE Code(v, k, x)
  <2>1. d > 0 /\ d <= 1023 /\ x \in Int
    BY <1>4
  <2>2. setcolr(v, x) = IF Dark(d, p, (k + x) - 9) THEN Black ELSE Code(v, k, x)
    BY <1>4, <1>6, <2>1, SetcolrIs
  <2> QED
    BY <1>1, <1>2, <2>2 DEF Again
<1>8. Code(v, k, x) = q
  <2>1. ASSUME NEW c \in Channels
        PROVE  (IF v[c] > 0 THEN Mantissa(v[c], k) ELSE 0) = q.m[c]
    <3>1. PICK m \in Nat : m = q.m[c] /\ m <= 255
      BY DEF COLR, Bytes
    <3>2. v[c] = 2 * m + 1 /\ v[c] > 0
      BY <1>3, <3>1
    <3>3. Mantissa(2 * m + 1, 9) = m
      BY <3>1, MantissaBack
    <3> QED
      BY <1>5, <3>1, <3>2, <3>3
  <2>2. q.m = [c \in Channels |-> q.m[c]]
    BY DEF COLR, Bytes
  <2>3. [c \in Channels |-> IF v[c] > 0 THEN Mantissa(v[c], k) ELSE 0] = q.m
    BY <2>1, <2>2
  <2>4. ((k + x) - 9) % 256 = q.e
    BY <1>2, <1>5 DEF COLR
  <2>5. q = [m |-> q.m, e |-> q.e]
    BY DEF COLR
  <2> QED
    BY <2>3, <2>4, <2>5 DEF Code
<1>9. Dark(d, p, (k + x) - 9) <=> q.e = 22 /\ LargestOf(q.m) <= 207
  BY <1>2, <1>top, <1>4, <1>5 DEF Dark, DarkExp, DarkPart, Parts
<1> QED
  BY <1>7, <1>8, <1>9

(* 127, a power of two, becomes 254 at half the scale. *)
LEMMA AgainHalf ==
  ASSUME NEW q \in COLR, LargestOf(q.m) = 127, q.e >= 22
  PROVE  Again(q) = IF q.e = 22 THEN Black ELSE Doubled(q)
<1>1. PICK v : v = colr_color(q)
  OBVIOUS
<1>2. PICK x \in Nat : x = q.e
  BY DEF COLR
<1>3. v = [c \in Channels |-> 2 * q.m[c] + 1] /\ v \in [Channels -> Int] /\ LargestOf(v) = 255
  BY <1>1, <1>2, ColourOf
<1>4. PICK d \in Nat : d = LargestOf(v) /\ d = 255
  BY <1>3
<1>5. PICK k \in Nat, p \in Nat : k = 8 /\ p = 256
  OBVIOUS
<1>6. HasBits(d, k, p)
  BY <1>4, <1>5 DEF HasBits, Power
<1>7. Again(q) = IF Dark(d, p, (k + x) - 9) THEN Black ELSE Code(v, k, x)
  <2>1. d > 0 /\ d <= 1023 /\ x \in Int
    BY <1>4
  <2>2. setcolr(v, x) = IF Dark(d, p, (k + x) - 9) THEN Black ELSE Code(v, k, x)
    BY <1>4, <1>6, <2>1, SetcolrIs
  <2> QED
    BY <1>1, <1>2, <2>2 DEF Again
<1>8. Code(v, k, x) = Doubled(q)
  <2>1. ASSUME NEW c \in Channels
        PROVE  (IF v[c] > 0 THEN Mantissa(v[c], k) ELSE 0) = 2 * q.m[c]
    <3>1. q.m \in [Channels -> Int] /\ \A b \in Channels : q.m[b] \in 0 .. 255
      BY DEF COLR, Bytes
    <3>2. PICK t \in Channels : Tops(q.m, t) /\ LargestOf(q.m) = q.m[t]
      BY <3>1, LargestFound
    <3>3. PICK m \in Nat : m = q.m[c] /\ m <= 127
      BY <3>1, <3>2 DEF Tops
    <3>4. v[c] = 2 * m + 1 /\ v[c] > 0
      BY <1>3, <3>3
    <3>5. Mantissa(2 * m + 1, 8) = 2 * m
      BY <3>3, MantissaBack
    <3> QED
      BY <1>5, <3>3, <3>4, <3>5
  <2>2. [c \in Channels |-> IF v[c] > 0 THEN Mantissa(v[c], k) ELSE 0]
          = [c \in Channels |-> 2 * q.m[c]]
    BY <2>1
  <2>3. ((k + x) - 9) % 256 = q.e - 1
    BY <1>2, <1>5 DEF COLR
  <2> QED
    BY <2>2, <2>3 DEF Code, Doubled
<1>9. Dark(d, p, (k + x) - 9) <=> q.e = 22
  BY <1>2, <1>4, <1>5 DEF Dark, DarkExp, DarkPart, Parts
<1> QED
  BY <1>7, <1>8, <1>9

(* Half the scale loses nothing: the mantissas are in the upper half then. *)
LEMMA DoubledFacts ==
  ASSUME NEW q \in COLR, LargestOf(q.m) = 127, q.e >= 23
  PROVE  /\ Doubled(q) \in COLR /\ LargestOf(Doubled(q).m) = 254
         /\ Doubled(q).e = q.e - 1
<1>1. q.m \in [Channels -> Int] /\ q.e \in 0 .. 255 /\ \A b \in Channels : q.m[b] \in 0 .. 255
  BY DEF COLR, Bytes
<1>2. PICK t \in Channels : Tops(q.m, t) /\ LargestOf(q.m) = q.m[t]
  BY <1>1, LargestFound
<1>3. PICK f : f = [c \in Channels |-> 2 * q.m[c]]
  OBVIOUS
<1>4. f \in Bytes /\ f[t] = 254 /\ Tops(f, t)
  <2>1. ASSUME NEW c \in Channels PROVE f[c] \in 0 .. 255 /\ f[c] <= 254
    <3>1. q.m[c] \in 0 .. 127
      BY <1>1, <1>2 DEF Tops
    <3> QED
      BY <1>3, <3>1
  <2>2. f[t] = 254
    BY <1>2, <1>3
  <2>3. f \in Bytes
    BY <1>3, <2>1 DEF Bytes
  <2> QED
    BY <2>1, <2>2, <2>3 DEF Tops
<1>5. LargestOf(f) = 254
  <2>1. f \in [Channels -> Int]
    BY <1>1, <1>3
  <2> QED
    BY <1>4, <2>1, LargestIs
<1>6. Doubled(q) = [m |-> f, e |-> q.e - 1]
  BY <1>3 DEF Doubled
<1> QED
  BY <1>1, <1>4, <1>5, <1>6 DEF COLR

-----------------------------------------------------------------------------
(* The new pixel.                                                          *)
Values == [Channels -> -1 .. LargestValue]

(* q is what values v at scale x give unless that is black. *)
Coded(v, x, q) ==
  \E d \in Nat, k \in Nat, p \in Nat :
    /\ d = LargestOf(v) /\ d > 0 /\ d <= LargestValue /\ k > 0 /\ k <= 10
    /\ k = Bits(d) /\ HasBits(d, k, p)
    /\ ~Dark(d, p, (k + x) - 9) /\ q = Code(v, k, x)

LEMMA NewPixel ==
  ASSUME NEW v \in Values, NEW x \in Int, NEW q, q = setcolr(v, x), q # Black
  PROVE  Coded(v, x, q)
<1>1. v \in [Channels -> Int] /\ \A c \in Channels : v[c] <= 838 /\ v[c] \in Int
  BY DEF Values, LargestValue
<1>2. PICK t \in Channels : Tops(v, t) /\ LargestOf(v) = v[t]
  BY <1>1, LargestFound
<1>3. ~(v[t] <= 0)
  BY <1>2, SetcolrBlack
<1>4. PICK d \in Nat : d = LargestOf(v) /\ d > 0 /\ d <= 838
  BY <1>1, <1>2, <1>3
<1>5. BitsCounted(d)
  BY <1>4, BitsFound
<1>6. PICK k \in Nat, p \in Nat : k > 0 /\ k = Bits(d) /\ HasBits(d, k, p)
  BY <1>5 DEF BitsCounted
<1>7. k <= 10
  <2>1. Power(k, p)
    BY <1>6 DEF HasBits
  <2> QED
    BY <2>1, PowerFacts
<1>8. q = IF Dark(d, p, (k + x) - 9) THEN Black ELSE Code(v, k, x)
  <2>1. d <= 1023
    BY <1>4
  <2> QED
    BY <1>4, <1>6, <2>1, SetcolrIs
<1>9. ~Dark(d, p, (k + x) - 9) /\ q = Code(v, k, x)
  BY <1>8
<1> QED
  BY <1>4, <1>6, <1>7, <1>9 DEF Coded, LargestValue

LEMMA BlackType == Black \in COLR /\ Black.e = 0
BY DEF Black, COLR, Bytes

(* The new pixel has its mantissas in order; its exponent is that of its   *)
(* value, if it fits.                                                      *)
LEMMA CodedFacts ==
  ASSUME NEW v \in Values, NEW x \in Int, NEW q, Coded(v, x, q)
  PROVE  /\ q \in COLR /\ LargestOf(q.m) \in 127 .. 255
         /\ LargestOf(v) > 0
         /\ Bits(LargestOf(v)) + x - 9 < 256 => q.e >= 22
         /\ x <= 255 /\ Bits(LargestOf(v)) + x - 9 >= 256 => q.e = 0
<1>1. PICK d \in Nat, k \in Nat, p \in Nat :
        /\ d = LargestOf(v) /\ d > 0 /\ d <= 838 /\ k > 0 /\ k <= 10
        /\ k = Bits(d) /\ HasBits(d, k, p)
        /\ ~Dark(d, p, (k + x) - 9) /\ q = Code(v, k, x)
  BY DEF Coded, LargestValue
<1>2. v \in [Channels -> Int]
  BY DEF Values, LargestValue
<1>3. d <= 1023
  BY <1>1
<1>4. /\ q.m \in Bytes /\ LargestOf(q.m) \in 127 .. 255
      /\ q.e \in 0 .. 255 /\ ((k + x) - 9 \in 0 .. 255 => q.e = (k + x) - 9)
  <2>1. WellCoded(v, x, d, k)
    BY <1>1, <1>2, <1>3, CodeFacts
  <2> QED
    BY <1>1, <2>1 DEF WellCoded
<1>5. (k + x) - 9 >= 22
  BY <1>1 DEF Dark, DarkExp
<1>6. q = [m |-> q.m, e |-> q.e] /\ q.e = ((k + x) - 9) % 256
  BY <1>1 DEF Code
<1>7. q \in COLR
  BY <1>4, <1>6 DEF COLR
<1>8. Bits(LargestOf(v)) + x - 9 = (k + x) - 9
  BY <1>1
<1>9. (k + x) - 9 < 256 => q.e >= 22
  BY <1>4, <1>5
<1>10. x <= 255 /\ (k + x) - 9 >= 256 => q.e = 0
  <2>1. ASSUME x <= 255, (k + x) - 9 >= 256 PROVE (k + x) - 9 = 256
    BY <1>1, <2>1
  <2>2. 256 % 256 = 0
    OBVIOUS
  <2> QED
    BY <1>6, <2>1, <2>2
<1> QED
  BY <1>1, <1>4, <1>7, <1>8, <1>9, <1>10

(* The inductive invariant.  A new pixel is what setcolr makes of its      *)
(* value; one that has been converted is black or the new pixel, but for   *)
(* the power of two, which stands at half the scale, and is one that       *)
(* another conversion does not darken.                                     *)
Kept == ~TooBright /\ LargestOf(clr.m) \in 128 .. 255 /\ clr.e >= 22
          /\ (clr.e = 22 => LargestOf(clr.m) >= 208)
          /\ LET new == setcolr(value.v, value.x)
             IN  new # Black /\ clr = IF LargestOf(new.m) = 127 THEN Doubled(new) ELSE new

RgbeInv ==
  /\ value \in [x : Exponent, v : Values] /\ clr \in COLR /\ passes \in Nat
  /\ passes = 0 => clr = setcolr(value.v, value.x)
  /\ passes # 0 => clr = Black \/ Kept

LEMMA ScaleRange == \A x \in Exponent : x \in Int /\ x <= 255
<1>1. 2 * COLXS - 1 = 255
  BY DEF COLXS
<1>2. Exponent \subseteq 12 .. 255
  BY <1>1, RgbeAssumption DEF RgbeAssumption
<1> QED
  BY <1>2

LEMMA InitRgbe == Init => RgbeInv
<1> SUFFICES ASSUME Init PROVE RgbeInv
  OBVIOUS
<1>1. PICK x \in Exponent, r \in Red, g \in Channel, b \in Channel :
        value = [x |-> x, v |-> [RED |-> r, GRN |-> g, BLU |-> b]]
  BY DEF Init
<1>2. PICK v : v = [RED |-> r, GRN |-> g, BLU |-> b]
  OBVIOUS
<1>3. r \in -1 .. LargestValue /\ g \in -1 .. LargestValue /\ b \in -1 .. LargestValue
  BY RgbeAssumption DEF RgbeAssumption
<1>4. v \in Values
  BY <1>2, <1>3 DEF Values, Channels
<1>5. value \in [x : Exponent, v : Values]
  BY <1>1, <1>2, <1>4
<1>6. clr = setcolr(value.v, value.x) /\ passes = 0
  BY DEF Init
<1>7. clr \in COLR
  <2>1. value.v \in Values /\ value.x \in Int
    BY <1>5, ScaleRange
  <2>2. CASE clr = Black
    BY <2>2, BlackType
  <2>3. CASE clr # Black
    BY <1>6, <2>1, <2>3, NewPixel, CodedFacts
  <2> QED
    BY <2>2, <2>3
<1> QED
  BY <1>5, <1>6, <1>7 DEF RgbeInv

(* The new pixel of a state. *)
LEMMA NewFacts ==
  ASSUME RgbeInv, NEW new, new = setcolr(value.v, value.x), new # Black
  PROVE  /\ Coded(value.v, value.x, new) /\ new \in COLR /\ LargestOf(new.m) \in 127 .. 255
         /\ TooBright => new.e = 0
         /\ ~TooBright => new.e >= 22
<1>1. value.v \in Values /\ value.x \in Int /\ value.x <= 255
  BY ScaleRange DEF RgbeInv
<1>2. Coded(value.v, value.x, new)
  BY <1>1, NewPixel
<1>3. /\ new \in COLR /\ LargestOf(new.m) \in 127 .. 255 /\ LargestOf(value.v) > 0
      /\ Bits(LargestOf(value.v)) + value.x - 9 < 256 => new.e >= 22
      /\ Bits(LargestOf(value.v)) + value.x - 9 >= 256 => new.e = 0
  BY <1>1, <1>2, CodedFacts
<1>4. PICK e \in Int : e = Bits(LargestOf(value.v)) + value.x - 9
  <2>1. PICK d \in Nat, k \in Nat : d = LargestOf(value.v) /\ k = Bits(d)
    BY <1>2 DEF Coded
  <2> QED
    BY <1>1, <2>1
<1>5. TooBright <=> e >= 256
  BY <1>3, <1>4 DEF TooBright, COLXS
<1>6. e < 256 \/ e >= 256
  OBVIOUS
<1> QED
  BY <1>2, <1>3, <1>4, <1>5, <1>6

(* A conversion. *)
LEMMA PassRgbe == RgbeInv /\ Pass => RgbeInv'
<1> SUFFICES ASSUME RgbeInv, Pass PROVE RgbeInv'
  OBVIOUS
<1>1. clr' = Again(clr) /\ UNCHANGED value /\ passes' = passes + 1 /\ passes \in Nat
      /\ clr \in COLR
  BY DEF Pass, Again, RgbeInv
<1>2. passes' \in Nat /\ passes' # 0
  BY <1>1
<1>3. UNCHANGED TooBright
  BY <1>1 DEF TooBright
<1>4. PICK new : new = setcolr(value.v, value.x)
  OBVIOUS
<1>5. CASE clr.e = 0
  <2>1. clr' = Black
    BY <1>1, <1>5, AgainBlack
  <2> QED
    BY <1>1, <1>2, <2>1, BlackType DEF RgbeInv
<1>6. CASE passes = 0 /\ clr.e # 0
  <2>1. clr = new /\ new # Black
    BY <1>4, <1>6, BlackType DEF RgbeInv
  <2>2. new \in COLR /\ LargestOf(new.m) \in 127 .. 255 /\ ~TooBright /\ new.e >= 22
    BY <1>4, <1>6, <2>1, NewFacts
  <2>3. CASE LargestOf(new.m) = 127
    <3>1. clr' = IF new.e = 22 THEN Black ELSE Doubled(new)
      BY <1>1, <2>1, <2>2, <2>3, AgainHalf
    <3>2. CASE new.e = 22
      BY <1>1, <1>2, <3>1, <3>2, BlackType DEF RgbeInv
    <3>3. CASE new.e # 22
      <4>1. clr' = Doubled(new) /\ new.e >= 23
        BY <2>2, <3>1, <3>3 DEF COLR
      <4>2. Doubled(new) \in COLR /\ LargestOf(Doubled(new).m) = 254 /\ Doubled(new).e >= 22
        BY <2>2, <2>3, <4>1, DoubledFacts DEF COLR
      <4>3. Kept'
        BY <1>1, <1>3, <1>4, <2>1, <2>2, <2>3, <4>1, <4>2 DEF Kept
      <4> QED
        BY <1>1, <1>2, <4>1, <4>2, <4>3 DEF RgbeInv
    <3> QED
      BY <3>2, <3>3
  <2>4. CASE LargestOf(new.m) # 127
    <3>1. LargestOf(new.m) \in 128 .. 255
      BY <2>2, <2>4
    <3>2. clr' = IF new.e = 22 /\ LargestOf(new.m) <= 207 THEN Black ELSE new
      BY <1>1, <2>1, <2>2, <3>1, AgainUpper
    <3>3. CASE new.e = 22 /\ LargestOf(new.m) <= 207
      BY <1>1, <1>2, <3>2, <3>3, BlackType DEF RgbeInv
    <3>4. CASE ~(new.e = 22 /\ LargestOf(new.m) <= 207)
      <4>1. clr' = new /\ (new.e = 22 => LargestOf(new.m) >= 208)
        BY <3>1, <3>2, <3>4
      <4>2. Kept'
        BY <1>1, <1>3, <1>4, <2>1, <2>2, <2>4, <3>1, <4>1 DEF Kept
      <4> QED
        BY <1>1, <1>2, <2>2, <4>1, <4>2 DEF RgbeInv
    <3> QED
      BY <3>3, <3>4
  <2> QED
    BY <2>3, <2>4
<1>7. CASE passes # 0 /\ clr.e # 0
  <2>1. Kept
    BY <1>7, BlackType DEF RgbeInv
  <2>2. clr' = IF clr.e = 22 /\ LargestOf(clr.m) <= 207 THEN Black ELSE clr
    <3>1. clr \in COLR /\ LargestOf(clr.m) >= 128 /\ clr.e >= 22
      BY <1>1, <2>1 DEF Kept
    <3>2. Again(clr) = IF clr.e = 22 /\ LargestOf(clr.m) <= 207 THEN Black ELSE clr
      BY <3>1, AgainUpper
    <3> QED
      BY <1>1, <3>2
  <2>3. clr' = clr
    <3>1. ~(clr.e = 22 /\ LargestOf(clr.m) <= 207)
      BY <2>1 DEF Kept
    <3> QED
      BY <2>2, <3>1
  <2>4. Kept'
    BY <1>1, <1>3, <2>1, <2>3 DEF Kept
  <2> QED
    BY <1>1, <1>2, <2>3, <2>4 DEF RgbeInv
<1>8. value' \in [x : Exponent, v : Values]
  BY <1>1 DEF RgbeInv
<1> QED
  BY <1>5, <1>6, <1>7

LEMMA RgbeInvariant == Spec => []RgbeInv
<1>1. RgbeInv /\ UNCHANGED vars => RgbeInv'
  BY DEF RgbeInv, vars, Kept, TooBright
<1> QED
  BY <1>1, InitRgbe, PassRgbe, PTL DEF Spec, Next

-----------------------------------------------------------------------------
(* A pixel that looks like something else has small mantissas.             *)
LEMMA LooksLike ==
  ASSUME NEW q \in COLR, LargestOf(q.m) >= 127
  PROVE  /\ ~AsMarker(q)
         /\ AsHeader(q) => q.m["BLU"] = 127 /\ LargestOf(q.m) = 127
<1>1. q.m \in [Channels -> Int] /\ \A c \in Channels : q.m[c] \in 0 .. 255
  BY DEF COLR, Bytes
<1>2. PICK t \in Channels : LargestOf(q.m) = q.m[t] /\ Tops(q.m, t)
  BY <1>1, LargestFound
<1>3. ~AsMarker(q)
  BY <1>1, <1>2 DEF AsMarker
<1>4. ASSUME AsHeader(q) PROVE q.m["BLU"] = 127 /\ q.m[t] = 127
  <2>1. t \in {"RED", "GRN", "BLU"} /\ q.m[t] \in 0 .. 255 /\ q.m[t] >= 127
    BY <1>1, <1>2 DEF Channels
  <2>2. q.m["RED"] = 2 /\ q.m["GRN"] = 2 /\ q.m["BLU"] < 128
    BY <1>4 DEF AsHeader, COLXS
  <2>3. t = "BLU"
    BY <2>1, <2>2
  <2> QED
    BY <2>1, <2>2, <2>3
<1> QED
  BY <1>2, <1>3, <1>4

(* Rgbe!Normalised: a pixel that is not black has a mantissa in the upper  *)
(* half, or 127 when it is new; it is never a run-length marker, and looks *)
(* like the header of a row only when it is new and its blue the power of  *)
(* two.                                                                    *)
THEOREM PixelsNormalised == Spec => []Normalised
<1>1. RgbeInv => Normalised
  <2> SUFFICES ASSUME RgbeInv PROVE Normalised
    OBVIOUS
  <2>1. clr \in COLR /\ \A c \in Channels : clr.m[c] \in 0 .. 255
    BY DEF RgbeInv, COLR, Bytes
  <2>2. CASE clr = Black
    <3>1. clr.m["RED"] = 0 /\ "RED" \in Channels
      BY <2>2 DEF Black, Channels
    <3> QED
      BY <2>1, <2>2, <3>1 DEF Normalised, AsMarker, AsHeader
  <2>3. ASSUME clr # Black
        PROVE  /\ LargestOf(clr.m) >= IF passes = 0 THEN 127 ELSE 128
               /\ ~(TooBright /\ passes = 0) => clr.e >= DarkExp
    <3>1. CASE passes = 0
      <4>1. clr = setcolr(value.v, value.x)
        BY <3>1 DEF RgbeInv
      <4>2. LargestOf(clr.m) \in 127 .. 255 /\ (~TooBright => clr.e >= 22)
        BY <2>3, <4>1, NewFacts
      <4> QED
        BY <3>1, <4>2 DEF DarkExp
    <3>2. CASE passes # 0
      <4>1. LargestOf(clr.m) \in 128 .. 255 /\ clr.e >= 22
        BY <2>3, <3>2 DEF RgbeInv, Kept
      <4> QED
        BY <3>2, <4>1 DEF DarkExp
    <3> QED
      BY <3>1, <3>2
  <2>4. CASE clr # Black
    <3>1. LargestOf(clr.m) >= IF passes = 0 THEN 127 ELSE 128
      BY <2>3, <2>4
    <3>2. PICK n \in Int : n = LargestOf(clr.m)
      <4>1. clr.m \in [Channels -> Int]
        BY <2>1 DEF COLR, Bytes
      <4> QED
        BY <4>1, LargestFound
    <3>3. n >= 127 /\ (passes # 0 => n # 127)
      BY <3>1, <3>2
    <3>4. ~AsMarker(clr) /\ (AsHeader(clr) => clr.m["BLU"] = 127 /\ n = 127)
      BY <2>1, <3>2, <3>3, LooksLike
    <3> QED
      BY <2>1, <2>3, <2>4, <3>3, <3>4 DEF Normalised
  <2> QED
    BY <2>2, <2>4
<1> QED
  BY <1>1, RgbeInvariant, PTL

(* Rgbe!Settles: a pixel that has been converted once stays as it is,      *)
(* however often it is converted.                                          *)
THEOREM PixelsSettle == Spec => Settles
<1>1. RgbeInv /\ [Next]_vars => [passes >= 1 => clr' = clr]_vars
  <2> SUFFICES ASSUME RgbeInv, Pass, passes >= 1 PROVE clr' = clr
    BY DEF Next
  <2>1. passes # 0 /\ clr' = Again(clr) /\ clr \in COLR
    BY DEF RgbeInv, Pass, Again
  <2>2. CASE clr = Black
    BY <2>1, <2>2, BlackType, AgainBlack
  <2>3. CASE clr # Black
    <3>1. Kept
      BY <2>1, <2>3 DEF RgbeInv
    <3>2. Again(clr) = IF clr.e = 22 /\ LargestOf(clr.m) <= 207 THEN Black ELSE clr
      <4>1. clr \in COLR /\ LargestOf(clr.m) >= 128 /\ clr.e >= 22
        BY <2>1, <3>1 DEF Kept
      <4> QED
        BY <4>1, AgainUpper
    <3>3. ~(clr.e = 22 /\ LargestOf(clr.m) <= 207)
      BY <3>1 DEF Kept
    <3> QED
      BY <2>1, <3>2, <3>3
  <2> QED
    BY <2>2, <2>3
<1> QED
  BY <1>1, RgbeInvariant, PTL DEF Spec, Settles

-----------------------------------------------------------------------------
(* Closeness.  u and w are a value and the largest one, scaled up by s to  *)
(* the range below r, and cut to the mantissa m.                           *)
Cut(u, w, r, m) ==
  /\ 10000 * r * m <= 2559999 * u /\ 2559999 * u < 10000 * r * m + 10000 * r
  /\ u <= w /\ w < r /\ r <= 2 * w

LEMMA CutAt ==
  ASSUME NEW d \in Nat, NEW k \in Nat, NEW p \in Nat, HasBits(d, k, p), d > 0, d <= 1023,
         NEW n \in Nat, n <= d, NEW s \in Nat, s > 0, NEW m, m = Mantissa(n, k)
  PROVE  m \in Nat /\ Cut(n * s, d * s, p * s, m)
<1>1. CutTo(n, k, p)
  <2>1. Power(k, p) /\ n <= 1023
    BY DEF HasBits
  <2> QED
    BY <2>1, MantissaFound
<1>2. m \in Nat /\ 10000 * (p * m) <= 2559999 * n /\ 2559999 * n < 10000 * (p * m) + 10000 * p
  BY <1>1 DEF CutTo, IsMantissa
<1>3. p <= 2 * d /\ d < p
  BY DEF HasBits
<1>4. PICK a \in Nat, b \in Nat : a = 10000 * (p * m) /\ b = 2559999 * n
  BY <1>2
<1>5. a * s <= b * s /\ b * s < (a + 10000 * p) * s
  BY <1>2, <1>4
<1>6. /\ a * s = 10000 * (p * s) * m /\ b * s = 2559999 * (n * s)
      /\ (a + 10000 * p) * s = 10000 * (p * s) * m + 10000 * (p * s)
  BY <1>2, <1>4
<1>7. n * s <= d * s /\ d * s < p * s /\ p * s <= (2 * d) * s /\ (2 * d) * s = 2 * (d * s)
  BY <1>3
<1> QED
  BY <1>2, <1>5, <1>6, <1>7 DEF Cut

NearBy(u, b, w) == 128 * (u - b) <= w /\ -128 * (u - b) <= w

(* The half added, the value is missed by less than one part in 128: the   *)
(* mantissa found among nine bits, the one found among ten when the pixel  *)
(* is scaled up by two, and the double of the one found among ten.         *)
LEMMA CloseAtNine ==
  ASSUME NEW u \in Nat, NEW w \in Nat, NEW m \in Nat, Cut(u, w, 512, m)
  PROVE  NearBy(u, 2 * m + 1, w)
BY DEF Cut, NearBy

LEMMA CloseAtTen ==
  ASSUME NEW u \in Nat, NEW w \in Nat, NEW m \in Nat, Cut(u, w, 1024, m)
  PROVE  NearBy(u, 2 * (2 * m + 1), w)
BY DEF Cut, NearBy

LEMMA CloseDoubled ==
  ASSUME NEW u \in Nat, NEW w \in Nat, NEW m \in Nat, Cut(u, w, 1024, m)
  PROVE  NearBy(u, 2 * (2 * m) + 1, w)
BY DEF Cut, NearBy

(* What StaysClose says of a pixel q made of the values v at the scale x,  *)
(* and the same with the scaling done: s the power of two between the      *)
(* scales, t that by which the values read are scaled instead.             *)
Near(v, x, q) ==
  LET back == colr_color(q)
      d    == LargestOf(v)
      k    == x - q.e
      Up(n)   == IF k >= 0 THEN n * 2 ^ k ELSE n
      Back(n) == IF k >= 0 THEN n ELSE n * 2 ^ (-k)
      Diff(c) == IF v[c] > 0 THEN Up(v[c]) - Back(back[c]) ELSE -Back(back[c])
  IN  \A c \in Channels : 128 * Diff(c) <= Up(d) /\ -128 * Diff(c) <= Up(d)

LEMMA NearIs == StaysClose <=> (clr # Black /\ ~TooBright => Near(value.v, value.x, clr))
BY DEF StaysClose, Near

Above(n) == IF n > 0 THEN n ELSE 0

AllNear(v, b, s, d)  == \A c \in Channels : NearBy(Above(v[c]) * s, b[c], d * s)
AllNearDown(v, b, d) == \A c \in Channels : NearBy(Above(v[c]), 2 * b[c], d)

LEMMA NearUp ==
  ASSUME NEW v \in [Channels -> Int], NEW x \in Int, NEW q, NEW e \in Int, e = q.e,
         NEW s \in Nat, NEW j \in Nat, j = x - e, Power(j, s), NEW d \in Int, d = LargestOf(v),
         NEW b \in [Channels -> Nat], b = colr_color(q),
         AllNear(v, b, s, d)
  PROVE  Near(v, x, q)
<1>1. 2 ^ j = s
  BY PowerOfTwo
<1>2. \A c \in Channels : v[c] \in Int /\ b[c] \in Nat
  OBVIOUS
<1>3. ASSUME NEW c \in Channels
      PROVE  /\ 128 * (IF v[c] > 0 THEN v[c] * s - b[c] ELSE -b[c]) <= d * s
             /\ -128 * (IF v[c] > 0 THEN v[c] * s - b[c] ELSE -b[c]) <= d * s
  <2>1. NearBy(Above(v[c]) * s, b[c], d * s)
    BY DEF AllNear
  <2>2. CASE v[c] > 0
    BY <1>2, <2>1, <2>2 DEF NearBy, Above
  <2>3. CASE ~(v[c] > 0)
    <3>1. 0 * s - b[c] = -b[c]
      BY <1>2
    <3> QED
      BY <2>1, <2>3, <3>1 DEF NearBy, Above
  <2> QED
    BY <2>2, <2>3
<1>4. j >= 0
  OBVIOUS
<1> QED
  BY <1>1, <1>3, <1>4 DEF Near

LEMMA NearDown ==
  ASSUME NEW v \in [Channels -> Int], NEW x \in Int, NEW q, NEW e \in Int, e = q.e,
         NEW i \in Int, i + 1 = 0, i = x - e,
         NEW d \in Int, d = LargestOf(v),
         NEW b \in [Channels -> Nat], b = colr_color(q),
         AllNearDown(v, b, d)
  PROVE  Near(v, x, q)
<1>power. 2 ^ (-i) = 2 /\ ~(i >= 0)
  <2>1. -i = 1 /\ ~(i >= 0)
    OBVIOUS
  <2>2. 2 ^ 1 = 2
    OBVIOUS
  <2> QED
    BY <2>1, <2>2
<1>2. \A c \in Channels : v[c] \in Int /\ b[c] \in Nat
  OBVIOUS
<1>3. ASSUME NEW c \in Channels
      PROVE  /\ 128 * (IF v[c] > 0 THEN v[c] - b[c] * 2 ELSE -(b[c] * 2)) <= d
             /\ -128 * (IF v[c] > 0 THEN v[c] - b[c] * 2 ELSE -(b[c] * 2)) <= d
  <2>1. NearBy(Above(v[c]), 2 * b[c], d)
    BY DEF AllNearDown
  <2>2. CASE v[c] > 0
    BY <1>2, <2>1, <2>2 DEF NearBy, Above
  <2>3. CASE ~(v[c] > 0)
    BY <1>2, <2>1, <2>3 DEF NearBy, Above
  <2> QED
    BY <2>2, <2>3
<1> QED
  BY <1>power, <1>3 DEF Near

(* A value that is not positive is 0 for its mantissa, too. *)
MantissaOf(i, k) == IF i > 0 THEN Mantissa(i, k) ELSE 0
AboveCut(i, d, p, s, m) ==
  m \in Nat /\ Above(i) \in Nat /\ Cut(Above(i) * s, d * s, p * s, m)

LEMMA CodeMantissa ==
  ASSUME NEW d \in Nat, NEW k \in Nat, NEW p \in Nat, HasBits(d, k, p), d > 0, d <= 1023,
         NEW i \in Int, i <= d, NEW s \in Nat, s > 0,
         NEW m, m = MantissaOf(i, k)
  PROVE  AboveCut(i, d, p, s, m)
<1> USE DEF MantissaOf, AboveCut
<1>2. PICK n \in Nat : n = Above(i) /\ n <= d
  BY DEF Above
<1>3. Mantissa(n, k) \in Nat /\ Cut(n * s, d * s, p * s, Mantissa(n, k))
  BY <1>2, CutAt
<1>4. n = 0 => Mantissa(n, k) = 0
  <2>2. p > 0
    BY DEF HasBits
  <2>3. ASSUME n = 0 PROVE Mantissa(n, k) = 0
    <3>1. PICK j \in Nat : j = Mantissa(n, k)
      BY <1>3
    <3>2. IsMantissa(n, p, j)
      <4>1. CutTo(n, k, p)
        <5>1. Power(k, p) /\ n <= 1023
          BY <1>2 DEF HasBits
        <5> QED
          BY <5>1, MantissaFound
      <4> QED
        BY <3>1, <4>1 DEF CutTo
    <3>3. p * j <= 0
      BY <2>3, <3>2 DEF IsMantissa
    <3>4. j = 0
      BY <2>2, <3>3
    <3> QED
      BY <3>1, <3>4
  <2> QED
    BY <2>3
<1>5. m = Mantissa(n, k)
  BY <1>2, <1>4 DEF Above
<1> QED
  BY <1>2, <1>3, <1>5

(* The power that p lacks to 512 or 1024. *)
LEMMA Complement ==
  ASSUME NEW k \in Nat, NEW p \in Nat, Power(k, p), NEW j \in Nat, k + j = 9 \/ k + j = 10
  PROVE  \E s \in Nat : Power(j, s) /\ s > 0 /\ p * s = IF k + j = 9 THEN 512 ELSE 1024
<1>1. j \in 0 .. 10
  OBVIOUS
<1>2. Power(j, 2 ^ j)
  BY <1>1, PowerFound
<1>3. PICK s : s = 2 ^ j
  OBVIOUS
<1>4. Power(j, s)
  BY <1>2, <1>3
<1>5. s \in 1 .. 1024
  BY <1>4, PowerFacts
<1>6. p * s = IF k + j = 9 THEN 512 ELSE 1024
  BY <1>4 DEF Power
<1> QED
  BY <1>4, <1>5, <1>6

(* The mantissas of a new pixel q are its values, scaled and cut. *)
Scaled(v, x, q) ==
  \E d \in Nat, k \in Nat, p \in Nat :
    /\ d = LargestOf(v) /\ k > 0 /\ k <= 10 /\ HasBits(d, k, p) /\ q.e = (k + x) - 9
    /\ \A c \in Channels, s \in Nat : s > 0 =>
         q.m[c] \in Nat /\ Above(v[c]) \in Nat /\ Cut(Above(v[c]) * s, d * s, p * s, q.m[c])

LEMMA NewScaled ==
  ASSUME NEW v \in Values, NEW x \in Int, x <= 255, NEW q, Coded(v, x, q), q.e >= 22
  PROVE  Scaled(v, x, q)
<1>1. PICK d \in Nat, k \in Nat, p \in Nat :
        /\ d = LargestOf(v) /\ d > 0 /\ d <= 838 /\ k > 0 /\ k <= 10
        /\ k = Bits(d) /\ HasBits(d, k, p)
        /\ ~Dark(d, p, (k + x) - 9) /\ q = Code(v, k, x)
  BY DEF Coded, LargestValue
<1>2. v \in [Channels -> Int] /\ \A c \in Channels : v[c] \in Int
  BY DEF Values, LargestValue
<1>4. q.e = (k + x) - 9
  <2>1. q.e = ((k + x) - 9) % 256
    BY <1>1 DEF Code
  <2>2. PICK e \in Int : e = (k + x) - 9 /\ e >= 22 /\ e <= 256
    BY <1>1 DEF Dark, DarkExp
  <2>3. e % 256 = IF e = 256 THEN 0 ELSE e
    BY <2>2
  <2> QED
    BY <2>1, <2>2, <2>3
<1>7. ASSUME NEW c \in Channels, NEW s \in Nat, s > 0
      PROVE  q.m[c] \in Nat /\ Above(v[c]) \in Nat /\ Cut(Above(v[c]) * s, d * s, p * s, q.m[c])
  <2>1. v[c] <= d
    <3>1. PICK t \in Channels : Tops(v, t) /\ d = v[t]
      BY <1>1, <1>2, LargestFound
    <3> QED
      BY <3>1 DEF Tops
  <2>2. d <= 1023 /\ HasBits(d, k, p)
    BY <1>1
  <2>3. PICK i \in Int : i = v[c] /\ i <= d
    BY <1>2, <2>1
  <2>4. PICK m : m = q.m[c] /\ m = MantissaOf(i, k)
    BY <1>1, <2>3 DEF Code, MantissaOf
  <2>5. AboveCut(i, d, p, s, m)
    BY <1>1, <1>7, <2>2, <2>3, <2>4, CodeMantissa
  <2> QED
    BY <2>3, <2>4, <2>5 DEF AboveCut
<1> QED
  BY <1>1, <1>4, <1>7 DEF Scaled

(* The new pixel is near its value. *)
LEMMA NewNear ==
  ASSUME NEW v \in Values, NEW x \in Int, x <= 255, NEW q \in COLR, Scaled(v, x, q), q.e >= 22
  PROVE  Near(v, x, q)
<1>0. PICK d \in Nat, k \in Nat, p \in Nat :
        /\ d = LargestOf(v) /\ k > 0 /\ k <= 10 /\ HasBits(d, k, p) /\ q.e = (k + x) - 9
        /\ \A c \in Channels, s \in Nat : s > 0 =>
             q.m[c] \in Nat /\ Above(v[c]) \in Nat /\ Cut(Above(v[c]) * s, d * s, p * s, q.m[c])
  BY DEF Scaled
<1>1. /\ d = LargestOf(v) /\ k > 0 /\ k <= 10 /\ HasBits(d, k, p) /\ Power(k, p)
      /\ q.e = (k + x) - 9
  BY <1>0 DEF HasBits
<1>cut. ASSUME NEW c \in Channels, NEW s \in Nat, s > 0
        PROVE  q.m[c] \in Nat /\ Above(v[c]) \in Nat /\ Cut(Above(v[c]) * s, d * s, p * s, q.m[c])
  BY <1>0, <1>cut
<1>2. v \in [Channels -> Int] /\ \A c \in Channels : v[c] \in Int
  BY DEF Values, LargestValue
<1>3. q.e # 0 /\ \A c \in Channels : q.m[c] \in 0 .. 255
  BY DEF COLR, Bytes
<1>5. PICK b : b = colr_color(q)
  OBVIOUS
<1>6. b = [c \in Channels |-> 2 * q.m[c] + 1] /\ b \in [Channels -> Nat]
  <2>1. b = [c \in Channels |-> 2 * q.m[c] + 1]
    BY <1>3, <1>5, ColourOf
  <2> QED
    BY <1>3, <2>1
<1>8. CASE k <= 9
  <2>j. PICK j \in Nat : j = 9 - k /\ j <= 10
    BY <1>1, <1>8
  <2>1. PICK s \in Nat : Power(j, s) /\ s > 0 /\ p * s = 512
    BY <1>1, <2>j, Complement
  <2>2. ASSUME NEW c \in Channels PROVE NearBy(Above(v[c]) * s, b[c], d * s)
    <3>1. PICK m \in Nat, u \in Nat, w \in Nat :
             m = q.m[c] /\ u = Above(v[c]) * s /\ w = d * s /\ Cut(u, w, 512, m)
      <4>1. q.m[c] \in Nat /\ Above(v[c]) \in Nat /\ Cut(Above(v[c]) * s, d * s, p * s, q.m[c])
        BY <1>cut, <2>1
      <4> QED
        BY <2>1, <4>1
    <3>2. NearBy(u, 2 * m + 1, w)
      BY <3>1, CloseAtNine
    <3> QED
      BY <1>6, <3>1, <3>2
  <2>3. PICK e \in Int : e = q.e /\ j = x - e
    BY <1>1, <2>j
  <2>4. AllNear(v, b, s, d)
    BY <2>2 DEF AllNear
  <2>5. /\ v \in [Channels -> Int] /\ d \in Int /\ d = LargestOf(v)
        /\ b \in [Channels -> Nat] /\ b = colr_color(q) /\ Power(j, s)
    BY <1>1, <1>2, <1>5, <1>6, <2>1
  <2> QED
    BY <2>3, <2>4, <2>5, NearUp, Zenon
<1>9. CASE k = 10
  <2>1. PICK s \in Nat : s = 1 /\ s > 0
    OBVIOUS
  <2>2. p = 1024
    <3>1. Power(k, p)
      BY <1>1 DEF HasBits
    <3> QED
      BY <1>9, <3>1 DEF Power
  <2>3. ASSUME NEW c \in Channels PROVE NearBy(Above(v[c]), 2 * b[c], d)
    <3>1. PICK m \in Nat, u \in Nat : m = q.m[c] /\ u = Above(v[c]) /\ Cut(u, d, 1024, m)
      <4>1. q.m[c] \in Nat /\ Above(v[c]) \in Nat /\ Cut(Above(v[c]) * s, d * s, p * s, q.m[c])
        BY <1>cut, <2>1
      <4>2. Above(v[c]) * s = Above(v[c]) /\ d * s = d /\ p * s = 1024
        BY <2>1, <2>2, <4>1
      <4> QED
        BY <4>1, <4>2
    <3>2. NearBy(u, 2 * (2 * m + 1), d)
      BY <3>1, CloseAtTen
    <3> QED
      BY <1>6, <3>1, <3>2
  <2>4. PICK i \in Int, e \in Int : i + 1 = 0 /\ e = q.e /\ i = x - e
    BY <1>1, <1>9
  <2>5. AllNearDown(v, b, d)
    BY <2>3 DEF AllNearDown
  <2>6. /\ v \in [Channels -> Int] /\ d \in Int /\ d = LargestOf(v)
        /\ b \in [Channels -> Nat] /\ b = colr_color(q)
    BY <1>1, <1>2, <1>5, <1>6
  <2> QED
    BY <2>4, <2>5, <2>6, NearDown, Zenon
<1> QED
  BY <1>1, <1>8, <1>9

(* So is the pixel at half the scale that 127 becomes. *)
LEMMA DoubledNear ==
  ASSUME NEW v \in Values, NEW x \in Int, x <= 255, NEW q \in COLR, Scaled(v, x, q),
         LargestOf(q.m) = 127, q.e >= 23
  PROVE  Near(v, x, Doubled(q))
<1>0. PICK d \in Nat, k \in Nat, p \in Nat :
        /\ d = LargestOf(v) /\ k > 0 /\ k <= 10 /\ HasBits(d, k, p) /\ q.e = (k + x) - 9
        /\ \A c \in Channels, s \in Nat : s > 0 =>
             q.m[c] \in Nat /\ Above(v[c]) \in Nat /\ Cut(Above(v[c]) * s, d * s, p * s, q.m[c])
  BY DEF Scaled
<1>1. /\ d = LargestOf(v) /\ k > 0 /\ k <= 10 /\ HasBits(d, k, p) /\ Power(k, p)
      /\ q.e = (k + x) - 9
  BY <1>0 DEF HasBits
<1>cut. ASSUME NEW c \in Channels, NEW s \in Nat, s > 0
        PROVE  q.m[c] \in Nat /\ Above(v[c]) \in Nat /\ Cut(Above(v[c]) * s, d * s, p * s, q.m[c])
  BY <1>0, <1>cut
<1>2. v \in [Channels -> Int] /\ \A c \in Channels : v[c] \in Int
  BY DEF Values, LargestValue
<1>3. PICK h \in COLR : h = Doubled(q) /\ h.e = q.e - 1 /\ h.e # 0
  BY DoubledFacts DEF COLR
<1>4. PICK b : b = colr_color(h)
  OBVIOUS
<1>5. b = [c \in Channels |-> 2 * h.m[c] + 1] /\ \A c \in Channels : h.m[c] \in 0 .. 255
  BY <1>3, <1>4, ColourOf DEF COLR, Bytes
<1>6. b \in [Channels -> Nat] /\ \A c \in Channels : h.m[c] = 2 * q.m[c]
  <2>1. ASSUME NEW c \in Channels PROVE 2 * h.m[c] + 1 \in Nat
    <3>1. PICK n \in 0 .. 255 : n = h.m[c]
      BY <1>5
    <3>2. 2 * n + 1 \in Nat
      OBVIOUS
    <3> QED
      BY <3>1, <3>2
  <2>2. h.m = [c \in Channels |-> 2 * q.m[c]]
    BY <1>3 DEF Doubled
  <2> QED
    BY <1>5, <2>1, <2>2
<1>7. PICK j \in Nat : j = 10 - k /\ k + j = 10
  BY <1>1
<1>8. PICK s \in Nat : Power(j, s) /\ s > 0 /\ p * s = 1024
  BY <1>1, <1>7, Complement
<1>9. ASSUME NEW c \in Channels PROVE NearBy(Above(v[c]) * s, b[c], d * s)
  <2>1. PICK m \in Nat, u \in Nat, w \in Nat :
           m = q.m[c] /\ u = Above(v[c]) * s /\ w = d * s /\ Cut(u, w, 1024, m)
    <3>1. q.m[c] \in Nat /\ Above(v[c]) \in Nat /\ Cut(Above(v[c]) * s, d * s, p * s, q.m[c])
      BY <1>cut, <1>8
    <3> QED
      BY <1>8, <3>1
  <2>2. NearBy(u, 2 * (2 * m) + 1, w)
    BY <2>1, CloseDoubled
  <2> QED
    BY <1>5, <1>6, <2>1, <2>2
<1>10. AllNear(v, b, s, d)
  BY <1>9 DEF AllNear
<1>11. PICK e \in Int : e = h.e /\ j = x - e
  BY <1>1, <1>3, <1>7
<1>12. /\ v \in [Channels -> Int] /\ d \in Int /\ d = LargestOf(v)
       /\ b \in [Channels -> Nat] /\ b = colr_color(h) /\ Power(j, s)
  BY <1>1, <1>2, <1>4, <1>6, <1>8
<1>13. Near(v, x, h)
  BY <1>10, <1>11, <1>12, NearUp
<1> QED
  BY <1>3, <1>13

(* Rgbe!StaysClose: the value read differs from the one written by at most *)
(* one part in 128 of the largest channel, for every colour and however    *)
(* often the pixel has been converted.                                     *)
THEOREM PixelsStayClose == Spec => []StaysClose
<1>1. RgbeInv => StaysClose
  <2> SUFFICES ASSUME RgbeInv, clr # Black, ~TooBright PROVE Near(value.v, value.x, clr)
    BY NearIs
  <2>1. PICK v \in Values, x \in Int : v = value.v /\ x = value.x /\ x <= 255
    BY ScaleRange DEF RgbeInv
  <2>2. PICK new : new = setcolr(v, x)
    OBVIOUS
  <2>3. new # Black /\ (clr = new \/ (LargestOf(new.m) = 127 /\ clr = Doubled(new) /\ clr.e >= 22))
    BY <2>1, <2>2 DEF RgbeInv, Kept
  <2>4. Coded(v, x, new) /\ new \in COLR /\ new.e >= 22
    BY <2>1, <2>2, <2>3, NewFacts
  <2>5. Scaled(v, x, new)
    BY <2>1, <2>4, NewScaled
  <2>6. CASE clr = new
    BY <2>1, <2>4, <2>5, <2>6, NewNear
  <2>7. CASE LargestOf(new.m) = 127 /\ clr = Doubled(new) /\ clr.e >= 22
    <3>1. clr.e = new.e - 1
      BY <2>7 DEF Doubled
    <3>2. new.e >= 23
      BY <2>4, <2>7, <3>1 DEF COLR
    <3>3. Near(v, x, Doubled(new))
      BY <2>1, <2>4, <2>5, <2>7, <3>2, DoubledNear
    <3> QED
      BY <2>1, <2>7, <3>3
  <2> QED
    BY <2>3, <2>6, <2>7
<1> QED
  BY <1>1, RgbeInvariant, PTL
=============================================================================
