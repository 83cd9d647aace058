------------------------------ MODULE TiffProofs ------------------------------
(***************************************************************************)
(* What TiffFiles promises, for any number of files of any type, width and *)
(* height, for all samples, and for any order of calls.                    *)
(*                                                                         *)
(* The first part is about the numbers of 16 and 24 bits: ThereAndBack.    *)
(* The provers know no law of powers with a variable exponent; a table of  *)
(* them takes its place, and what is left is linear arithmetic.  The       *)
(* second is about the table of types: what a directory that matches an    *)
(* entry has in its tags.  The third is the inductive invariant IInv, kept *)
(* by each action (Step_...), and the theorems that follow from it.        *)
(***************************************************************************)
EXTENDS TiffFiles, NatLemmas

-----------------------------------------------------------------------------
(* Powers of two.                                                          *)
TwoTo == <<1, 2, 4, 8, 16, 32, 64, 128, 256, 512, 1024, 2048, 4096, 8192, 16384, 32768,
           65536, 131072, 262144, 524288, 1048576, 2097152, 4194304, 8388608>>
Lead == 8388608      \* the bit above a float's mantissa
Power(k, p) == k \in 0 .. 23 /\ p = TwoTo[k + 1]

LEMMA TwoToIs ==
  /\ TwoTo[1] = 1 /\ TwoTo[2] = 2 /\ TwoTo[3] = 4 /\ TwoTo[4] = 8 /\ TwoTo[5] = 16
  /\ TwoTo[6] = 32 /\ TwoTo[7] = 64 /\ TwoTo[8] = 128 /\ TwoTo[9] = 256
  /\ TwoTo[10] = 512 /\ TwoTo[11] = 1024 /\ TwoTo[12] = 2048 /\ TwoTo[13] = 4096
  /\ TwoTo[14] = 8192 /\ TwoTo[15] = 16384 /\ TwoTo[16] = 32768 /\ TwoTo[17] = 65536
  /\ TwoTo[18] = 131072 /\ TwoTo[19] = 262144 /\ TwoTo[20] = 524288
  /\ TwoTo[21] = 1048576 /\ TwoTo[22] = 2097152 /\ TwoTo[23] = 4194304
  /\ TwoTo[24] = 8388608
BY DEF TwoTo

(* A place in the table is one of 24.                                      *)
LEMMA PlaceIs ==
  ASSUME NEW i \in 1 .. 24
  PROVE  \/ i = 1 \/ i = 2 \/ i = 3 \/ i = 4 \/ i = 5 \/ i = 6 \/ i = 7 \/ i = 8 \/ i = 9
         \/ i = 10 \/ i = 11 \/ i = 12 \/ i = 13 \/ i = 14 \/ i = 15 \/ i = 16 \/ i = 17
         \/ i = 18 \/ i = 19 \/ i = 20 \/ i = 21 \/ i = 22 \/ i = 23 \/ i = 24
OBVIOUS

LEMMA TwoToType ==
  ASSUME NEW i \in 1 .. 24
  PROVE  /\ TwoTo[i] \in Nat \ {0}
         /\ i < 24 => TwoTo[i + 1] = 2 * TwoTo[i]
BY PlaceIs, TwoToIs

LEMMA PowerOfTwo ==
  ASSUME NEW k, NEW p, Power(k, p)
  PROVE  2 ^ k = p
<1>0. k \in 0 .. 23 /\ p = TwoTo[k + 1] /\ k + 1 \in 1 .. 24
  BY DEF Power
<1>1. PICK g : g = [i \in 1 .. 24 |-> 2 ^ (i - 1)]
  OBVIOUS
<1>2. g[k + 1] = 2 ^ k
  <2>1. g[k + 1] = 2 ^ (k + 1 - 1)
    BY <1>0, <1>1
  <2>2. k + 1 - 1 = k
    BY <1>0
  <2> QED
    BY <2>1, <2>2
<1>3. /\ g[1] = 2 ^ 0 /\ g[2] = 2 ^ 1 /\ g[3] = 2 ^ 2 /\ g[4] = 2 ^ 3 /\ g[5] = 2 ^ 4
      /\ g[6] = 2 ^ 5 /\ g[7] = 2 ^ 6 /\ g[8] = 2 ^ 7 /\ g[9] = 2 ^ 8 /\ g[10] = 2 ^ 9
      /\ g[11] = 2 ^ 10 /\ g[12] = 2 ^ 11 /\ g[13] = 2 ^ 12 /\ g[14] = 2 ^ 13
      /\ g[15] = 2 ^ 14 /\ g[16] = 2 ^ 15 /\ g[17] = 2 ^ 16 /\ g[18] = 2 ^ 17
      /\ g[19] = 2 ^ 18 /\ g[20] = 2 ^ 19 /\ g[21] = 2 ^ 20 /\ g[22] = 2 ^ 21
      /\ g[23] = 2 ^ 22 /\ g[24] = 2 ^ 23
  BY <1>1
<1>4. g[k + 1] = TwoTo[k + 1]
  BY <1>0, <1>3, PlaceIs, TwoToIs
<1> QED
  BY <1>0, <1>2, <1>4

(* The two formats: 2 ^ f.bits, and the unit of a float's mantissa.        *)
FormatOf(f, B, U) ==
  \/ /\ f.bits = 10 /\ f.bias = 15 /\ f.max = 31 /\ f.renorm = 10 /\ B = 1024 /\ U = 8192
  \/ /\ f.bits = 16 /\ f.bias = 63 /\ f.max = 127 /\ f.renorm = 13 /\ B = 65536 /\ U = 128

LEMMA FormatFound ==
  ASSUME NEW f \in {Half, Triple}
  PROVE  \E B \in Nat, U \in Nat :
           /\ FormatOf(f, B, U) /\ B = 2 ^ f.bits /\ U = Unit(f)
           /\ f = Half => B = 1024
<1>1. 2 ^ 10 = 1024 /\ 2 ^ 16 = 65536 /\ 2 ^ 13 = 8192 /\ 2 ^ 7 = 128
  BY PowerOfTwo DEF Power
<1>2. CASE f = Half
  <2>1. f.bits = 10 /\ f.bias = 15 /\ f.max = 31 /\ f.renorm = 10 /\ 23 - f.bits = 13
    BY <1>2 DEF Half
  <2>2. 2 ^ f.bits = 1024 /\ Unit(f) = 8192
    BY <1>1, <2>1 DEF Unit, FloatBits
  <2> QED
    BY <2>1, <2>2 DEF FormatOf
<1>3. CASE f = Triple
  <2>1. f.bits = 16 /\ f.bias = 63 /\ f.max = 127 /\ f.renorm = 13 /\ 23 - f.bits = 7
    BY <1>3 DEF Triple
  <2>2. 2 ^ f.bits = 65536 /\ Unit(f) = 128
    BY <1>1, <2>1 DEF Unit, FloatBits
  <2>3. f # Half
    BY <2>1 DEF Half
  <2> QED
    BY <2>1, <2>2, <2>3 DEF FormatOf
<1> QED
  BY <1>2, <1>3

(* The floats, and the numbers that a file keeps.                          *)
FloatNumbers == [s : 0 .. 1, e : 0 .. FloatMax, m : 0 .. 2 ^ FloatBits - 1]
Kept(f, B)   == [s : 0 .. 1, e : 0 .. f.max, m : 0 .. B - 1]

LEMMA FloatFields ==
  ASSUME NEW v \in FloatNumbers
  PROVE  v.s \in 0 .. 1 /\ v.e \in Nat /\ v.e <= 255 /\ v.m \in Nat /\ v.m < Lead /\ Lead \in Nat
<1>1. PICK W \in Nat : W = 2 ^ FloatBits /\ W = Lead
  <2>1. Power(23, Lead)
    BY TwoToIs, SMT DEF Power, Lead
  <2> QED
    BY <2>1, PowerOfTwo, SMT DEF FloatBits, Lead
<1>2. v.m \in 0 .. W - 1 /\ v.s \in 0 .. 1 /\ v.e \in 0 .. 255
  BY <1>1 DEF FloatNumbers, FloatMax
<1> QED
  BY <1>1, <1>2, SMT

-----------------------------------------------------------------------------
(* A number n of b bits as a float; n and the float's mantissa differ by a *)
(* power of two, Q.                                                        *)
Digits(b, P, Q) == b \in 1 .. 18 /\ P = TwoTo[b] /\ Q = TwoTo[25 - b]
HasDigits(n, b, P, Q) == Digits(b, P, Q) /\ P <= n /\ n < 2 * P

InReach(n) == n \in Nat /\ 1 <= n /\ n < 262144
Sized(n)   == \E b \in 1 .. 18, P \in Nat, Q \in Nat : HasDigits(n, b, P, Q)

LEMMA DigitsFound ==
  ASSUME NEW n, InReach(n)
  PROVE  Sized(n)
<1>1. PICK b \in 1 .. 18 : TwoTo[b] <= n /\ n < TwoTo[b + 1]
  BY TwoToIs, SMT DEF InReach
<1>2. 25 - b \in 1 .. 24
  OBVIOUS
<1>3. TwoTo[b + 1] = 2 * TwoTo[b] /\ TwoTo[b] \in Nat /\ TwoTo[25 - b] \in Nat
  BY <1>2, TwoToType
<1> QED
  <2>1. HasDigits(n, b, TwoTo[b], TwoTo[25 - b])
    BY <1>1, <1>3 DEF HasDigits, Digits
  <2> QED
    BY <1>3, <2>1, Zenon DEF Sized

LEMMA DigitsPowers ==
  ASSUME NEW b, NEW P, NEW Q, Digits(b, P, Q)
  PROVE  /\ b \in 1 .. 18 /\ P \in Nat \ {0} /\ Q \in Nat \ {0}
         /\ 2 ^ (b - 1) = P /\ 2 ^ b = 2 * P /\ 2 ^ (23 + 1 - b) = Q
<1>1. b \in 1 .. 18 /\ P = TwoTo[b] /\ Q = TwoTo[25 - b]
  BY DEF Digits
<1>2. b \in 1 .. 24 /\ 25 - b \in 1 .. 24 /\ b - 1 + 1 = b /\ 23 + 1 - b + 1 = 25 - b
      /\ b < 24 /\ b - 1 \in 0 .. 23 /\ b \in 0 .. 23 /\ 23 + 1 - b \in 0 .. 23
  BY <1>1
<1>3. P \in Nat \ {0} /\ Q \in Nat \ {0} /\ TwoTo[b + 1] = 2 * P
  BY <1>1, <1>2, TwoToType
<1>4. Power(b - 1, P) /\ Power(b, 2 * P) /\ Power(23 + 1 - b, Q)
  BY <1>1, <1>2, <1>3 DEF Power
<1> QED
  BY <1>1, <1>3, <1>4, PowerOfTwo

(* The table grows.                                                        *)
LEMMA TableGrows ==
  ASSUME NEW i \in 1 .. 24, NEW j \in 1 .. 24, i < j
  PROVE  2 * TwoTo[i] <= TwoTo[j]
BY PlaceIs, TwoToIs

LEMMA OnlyOneSize ==
  ASSUME NEW i \in 1 .. 18, NEW j \in 1 .. 18, NEW n \in Nat,
         TwoTo[i] <= n, n < 2 * TwoTo[i], TwoTo[j] <= n, n < 2 * TwoTo[j]
  PROVE  i = j
<1>1. i \in 1 .. 24 /\ j \in 1 .. 24
  OBVIOUS
<1>2. TwoTo[i] \in Nat /\ TwoTo[j] \in Nat
  BY <1>1, TwoToType
<1>3. ~(i < j) /\ ~(j < i)
  BY <1>1, <1>2, TableGrows
<1> QED
  BY <1>3

LEMMA AsFloatIs ==
  ASSUME NEW s, NEW x \in Int, NEW n \in Nat, NEW b, NEW P, NEW Q, HasDigits(n, b, P, Q)
  PROVE  AsFloat(s, n, x) = [s |-> s, e |-> b + x + 126, m |-> (n - P) * Q]
<1>0. Digits(b, P, Q) /\ P <= n /\ n < 2 * P
  BY DEF HasDigits
<1>1. /\ b \in 1 .. 18 /\ P \in Nat /\ Q \in Nat
      /\ 2 ^ (b - 1) = P /\ 2 ^ b = 2 * P /\ 2 ^ (23 + 1 - b) = Q
  BY <1>0, DigitsPowers
<1>. P = TwoTo[b]
  BY <1>0 DEF Digits
<1>2. ASSUME NEW k \in 1 .. 18, n \in 2 ^ (k - 1) .. 2 ^ k - 1 PROVE k = b
  <2>1. PICK p, q : Digits(k, p, q)
    BY DEF Digits
  <2>2. 2 ^ (k - 1) = p /\ 2 ^ k = 2 * p /\ p \in Nat
    BY <2>1, DigitsPowers
  <2>3. p = TwoTo[k]
    BY <2>1 DEF Digits
  <2>4. p <= n /\ n < 2 * p
    BY <1>2, <2>2
  <2> QED
    BY <1>0, <1>1, <2>2, <2>3, <2>4, OnlyOneSize
<1>3. n \in 2 ^ (b - 1) .. 2 ^ b - 1
  BY <1>0, <1>1
<1>4. (CHOOSE k \in 1 .. 18 : n \in 2 ^ (k - 1) .. 2 ^ k - 1) = b
  BY <1>1, <1>2, <1>3
<1>5. AsFloat(s, n, x) = [s |-> s, e |-> b - 1 + x + FloatBias,
                          m |-> (n - 2 ^ (b - 1)) * 2 ^ (FloatBits + 1 - b)]
  BY <1>4, Zenon DEF AsFloat
<1>6. b - 1 + x + FloatBias = b + x + 126
  BY <1>1 DEF FloatBias
<1>7. 2 ^ (FloatBits + 1 - b) = Q
  BY <1>1 DEF FloatBits
<1> QED
  BY <1>1, <1>5, <1>6, <1>7, Zenon

LEMMA TableMirrors ==
  ASSUME NEW h \in 1 .. 24
  PROVE  TwoTo[h] \in Nat \ {0} /\ TwoTo[25 - h] \in Nat \ {0} /\ TwoTo[25 - h] * TwoTo[h] = Lead
BY PlaceIs, TwoToIs, SMT DEF Lead

LEMMA DigitsProduct ==
  ASSUME NEW b, NEW P, NEW Q, Digits(b, P, Q)
  PROVE  P * Q = Lead
<1>1. b \in 1 .. 18 /\ P = TwoTo[b] /\ Q = TwoTo[25 - b]
  BY DEF Digits
<1>2. 25 - b \in 1 .. 24 /\ 25 - (25 - b) = b
  BY <1>1
<1> QED
  BY <1>1, <1>2, TableMirrors

LEMMA ProductGrows ==
  ASSUME NEW a \in Int, NEW b \in Int, NEW h \in 1 .. 24
  PROVE  /\ a < b => a * TwoTo[h] < b * TwoTo[h]
         /\ a <= b => a * TwoTo[h] <= b * TwoTo[h]
BY PlaceIs, TwoToIs

(* The size of n, from that of n * 2^(h-1).                                *)
LEMMA SizeFromProduct ==
  ASSUME NEW n \in Nat, NEW b, NEW P, NEW Q, HasDigits(n, b, P, Q), NEW h \in 1 .. 24
  PROVE  /\ b < 25 - h => n * TwoTo[h] <= Lead
         /\ b > 25 - h => n * TwoTo[h] >= 2 * Lead
         /\ b = 25 - h => Q = TwoTo[h]
<1>1. /\ b \in 1 .. 18 /\ P \in Nat /\ Q \in Nat /\ P = TwoTo[b] /\ Q = TwoTo[25 - b]
      /\ P <= n /\ n < 2 * P
  <2>1. Digits(b, P, Q) /\ P <= n /\ n < 2 * P
    BY DEF HasDigits
  <2> QED
    BY <2>1, DigitsPowers, SMT DEF Digits
<1>2. b \in 1 .. 24 /\ 25 - h \in 1 .. 24 /\ 25 - (25 - h) = h
  BY <1>1
<1>3. PICK H \in Nat, G \in Nat : H = TwoTo[h] /\ G = TwoTo[25 - h]
  BY <1>2, TwoToType
<1>4. G * H = Lead
  BY <1>3, TableMirrors
<1>5. ASSUME b < 25 - h PROVE n * TwoTo[h] <= Lead
  <2>1. 2 * P <= G
    BY <1>1, <1>2, <1>3, <1>5, TableGrows
  <2>2. n <= G
    BY <1>1, <2>1
  <2> QED
    BY <1>3, <1>4, <2>2, ProductGrows
<1>6. ASSUME b > 25 - h PROVE n * TwoTo[h] >= 2 * Lead
  <2>1. 2 * G <= P
    BY <1>1, <1>2, <1>3, <1>6, TableGrows
  <2>2. 2 * G <= n
    BY <1>1, <2>1
  <2>3. PICK D \in Nat : D = 2 * G
    OBVIOUS
  <2>4. D * TwoTo[h] <= n * TwoTo[h]
    BY <2>2, <2>3, ProductGrows
  <2>5. D * H = 2 * Lead
    BY <1>4, <2>3
  <2> QED
    BY <1>3, <2>4, <2>5
<1> QED
  BY <1>1, <1>5, <1>6

(* A magnitude compared with a float's.                                    *)
LEMMA AtMostIs ==
  ASSUME NEW s, NEW x \in Int, NEW n \in Nat, NEW b, NEW P, NEW Q, HasDigits(n, b, P, Q),
         NEW v \in FloatNumbers
  PROVE  AtMost(AsFloat(s, n, x), v) <=>
           \/ b + x + 126 < v.e
           \/ b + x + 126 = v.e /\ n * Q <= Lead + v.m
<1>1. AsFloat(s, n, x) = [s |-> s, e |-> b + x + 126, m |-> (n - P) * Q]
  BY AsFloatIs
<1>2. P \in Nat /\ Q \in Nat /\ P * Q = Lead
  BY DigitsPowers, DigitsProduct DEF HasDigits
<1>3. PICK y \in Int : y = n * Q
  BY <1>2
<1>4. v.m \in Int /\ Lead \in Int
  BY FloatFields
<1>5. (n - P) * Q <= v.m <=> n * Q <= Lead + v.m
  <2>1. PICK z \in Int : z = (n - P) * Q
    BY <1>2
  <2>2. z = y - Lead
    BY <1>4, <1>2, <1>3, <2>1
  <2> QED
    BY <1>3, <1>4, <2>1, <2>2
<1> QED
  BY <1>1, <1>5 DEF AtMost

-----------------------------------------------------------------------------
(* The middle above a number k of a file, in the exponent and mantissa of  *)
(* the float v it is compared with.                                        *)
Place(k) == IF k.e = 0 THEN 1 ELSE k.e

LEMMA UnitsType ==
  ASSUME NEW f \in {Half, Triple}, NEW B \in Nat, NEW U \in Nat, FormatOf(f, B, U), B = 2 ^ f.bits,
         NEW k \in Kept(f, B)
  PROVE  /\ Units(f, k) = IF k.e = 0 THEN k.m ELSE B + k.m
         /\ Units(f, k) \in 0 .. 2 * B - 1
         /\ 2 * Units(f, k) + 1 \in Nat /\ 2 * Units(f, k) + 1 < 262144
         /\ LastPlace(f, k) = Place(k) - f.bias - f.bits
         /\ LastPlace(f, k) \in Int
         /\ k.e \in Nat /\ k.m \in Nat /\ k.m < B /\ k.e <= f.max
<1>1. k.e \in 0 .. f.max /\ k.m \in 0 .. B - 1 /\ k.s \in 0 .. 1
  BY DEF Kept
<1>2. f.max \in Nat /\ f.bias \in Nat /\ f.bits \in Nat /\ B \in {1024, 65536}
  BY DEF FormatOf
<1>3. Units(f, k) = IF k.e = 0 THEN k.m ELSE B + k.m
  BY DEF Units
<1>4. LastPlace(f, k) = Place(k) - f.bias - f.bits
  BY DEF LastPlace, Place
<1>5. Place(k) \in Int
  BY <1>1, <1>2 DEF Place
<1>6. Units(f, k) \in 0 .. 2 * B - 1
  BY <1>1, <1>2, <1>3
<1>7. 2 * Units(f, k) + 1 \in Nat /\ 2 * Units(f, k) + 1 < 262144
  BY <1>2, <1>6, SMT
<1>8. LastPlace(f, k) \in Int
  BY <1>2, <1>4, <1>5
<1>9. k.e \in Nat /\ k.m \in Nat /\ k.m < B /\ k.e <= f.max
  BY <1>1, <1>2
<1> QED
  BY <1>3, <1>4, <1>6, <1>7, <1>8, <1>9, SMT

LEMMA MiddleIs ==
  ASSUME NEW f \in {Half, Triple}, NEW B \in Nat, NEW U \in Nat, FormatOf(f, B, U), B = 2 ^ f.bits,
         NEW k \in Kept(f, B), NEW v \in FloatNumbers,
         NEW n, n = 2 * Units(f, k) + 1, NEW b, NEW P, NEW Q, HasDigits(n, b, P, Q)
  PROVE  AtMost(Middle(f, k), v) <=>
           \/ b + Place(k) - f.bits - 2 < v.e - (127 - f.bias)
           \/ b + Place(k) - f.bits - 2 = v.e - (127 - f.bias) /\ n * Q <= Lead + v.m
<1>1. n \in Nat /\ LastPlace(f, k) - 1 \in Int
  BY UnitsType
<1>2. Middle(f, k) = AsFloat(k.s, n, LastPlace(f, k) - 1)
  BY DEF Middle
<1>3. AtMost(Middle(f, k), v) <=>
           \/ b + (LastPlace(f, k) - 1) + 126 < v.e
           \/ b + (LastPlace(f, k) - 1) + 126 = v.e /\ n * Q <= Lead + v.m
  <2>1. PICK x \in Int : x = LastPlace(f, k) - 1
    BY <1>1
  <2>2. AtMost(AsFloat(k.s, n, x), v) <=>
           \/ b + x + 126 < v.e
           \/ b + x + 126 = v.e /\ n * Q <= Lead + v.m
    BY <1>1, AtMostIs
  <2> QED
    BY <1>2, <2>1, <2>2
<1>4. LastPlace(f, k) = Place(k) - f.bias - f.bits /\ k.e \in Nat
  BY UnitsType
<1>5. b \in Int /\ Place(k) \in Int /\ f.bias \in Int /\ f.bits \in Int /\ v.e \in Int
  BY <1>4, FloatFields DEF FormatOf, HasDigits, Digits, Place
<1>6. /\ b + (LastPlace(f, k) - 1) + 126 < v.e <=> b + Place(k) - f.bits - 2 < v.e - (127 - f.bias)
      /\ b + (LastPlace(f, k) - 1) + 126 = v.e <=> b + Place(k) - f.bits - 2 = v.e - (127 - f.bias)
  BY <1>4, <1>5
<1> QED
  BY <1>3, <1>6, Zenon

(* How a format's numbers relate to the table.                             *)
LEMMA FormatTable ==
  ASSUME NEW f, NEW B, NEW U, FormatOf(f, B, U)
  PROVE  /\ f.bits \in {10, 16} /\ f.bias \in Nat /\ f.max \in Nat /\ f.max > 30
         /\ B \in {1024, 65536} /\ U \in {128, 8192} /\ B * U = Lead
         /\ B = TwoTo[f.bits + 1] /\ U = TwoTo[24 - f.bits]
         /\ 2 * B = TwoTo[f.bits + 2] /\ U \div 2 = TwoTo[23 - f.bits] /\ 2 * (U \div 2) = U
         /\ 255 - (127 - f.bias) > f.max
<1>1. CASE f.bits = 10
  BY <1>1, TwoToIs, SMT DEF FormatOf, Lead
<1>2. CASE f.bits = 16
  BY <1>2, TwoToIs, SMT DEF FormatOf, Lead
<1> QED
  BY <1>1, <1>2 DEF FormatOf

LEMMA FullDigits ==
  ASSUME NEW f, NEW B, NEW U, FormatOf(f, B, U), NEW n \in Nat
  PROVE  /\ 2 * B <= n /\ n < 4 * B => HasDigits(n, f.bits + 2, 2 * B, U \div 2)
         /\ B <= n /\ n < 2 * B => HasDigits(n, f.bits + 1, B, U)
<1>1. /\ f.bits \in {10, 16} /\ B \in Nat /\ B = TwoTo[f.bits + 1] /\ U = TwoTo[24 - f.bits]
      /\ 2 * B = TwoTo[f.bits + 2] /\ U \div 2 = TwoTo[23 - f.bits]
  BY FormatTable
<1>2. /\ 25 - (f.bits + 1) = 24 - f.bits /\ 25 - (f.bits + 2) = 23 - f.bits
      /\ f.bits + 1 \in 1 .. 18 /\ f.bits + 2 \in 1 .. 18
  BY <1>1
<1>3. Digits(f.bits + 1, B, U) /\ Digits(f.bits + 2, 2 * B, U \div 2)
  BY <1>1, <1>2 DEF Digits
<1>4. 4 * B = 2 * (2 * B)
  BY <1>1
<1> QED
  BY <1>3, <1>4 DEF HasDigits

(* The middle above a normal number.                                       *)
LEMMA NormalMiddle ==
  ASSUME NEW f \in {Half, Triple}, NEW B \in Nat, NEW U \in Nat, FormatOf(f, B, U), B = 2 ^ f.bits,
         NEW k \in Kept(f, B), k.e > 0, NEW v \in FloatNumbers,
         NEW e \in Int, e = v.e - (127 - f.bias)
  PROVE  AtMost(Middle(f, k), v) <=>
           \/ k.e < e
           \/ k.e = e /\ (2 * k.m + 1) * (U \div 2) <= v.m
<1>1. /\ Units(f, k) = B + k.m /\ Place(k) = k.e /\ k.e \in Nat /\ k.m \in Nat /\ k.m < B
  BY UnitsType DEF Place
<1>2. PICK n \in Nat : n = 2 * Units(f, k) + 1 /\ n = 2 * B + 2 * k.m + 1
  BY <1>1
<1>3. HasDigits(n, f.bits + 2, 2 * B, U \div 2)
  BY <1>1, <1>2, FullDigits
<1>4. AtMost(Middle(f, k), v) <=>
           \/ f.bits + 2 + Place(k) - f.bits - 2 < v.e - (127 - f.bias)
           \/ f.bits + 2 + Place(k) - f.bits - 2 = v.e - (127 - f.bias) /\ n * (U \div 2) <= Lead + v.m
  BY <1>2, <1>3, MiddleIs
<1>5. f.bits + 2 + Place(k) - f.bits - 2 = k.e
  BY <1>1, FormatTable
<1>6. n * (U \div 2) <= Lead + v.m <=> (2 * k.m + 1) * (U \div 2) <= v.m
  <2>1. B * U = Lead /\ v.m \in Nat /\ U \in {128, 8192}
    BY FormatTable, FloatFields
  <2>2. CASE U = 128
    BY <1>1, <1>2, <2>1, <2>2
  <2>3. CASE U = 8192
    BY <1>1, <1>2, <2>1, <2>3
  <2> QED
    BY <2>1, <2>2, <2>3
<1> QED
  BY <1>4, <1>5, <1>6, Zenon

(* The middle above a number of the smallest exponent, u units.            *)
SmallPlace(f, v)     == 23 - f.bits + (1 - (v.e - (127 - f.bias)))
HalfSteps(f, k, h)   == (2 * Units(f, k) + 1) * TwoTo[h]
MiddleBy(f, k, v, n) == /\ n <= Lead + v.m => AtMost(Middle(f, k), v)
                        /\ n > Lead + v.m => ~AtMost(Middle(f, k), v)

LEMMA SmallMiddle ==
  ASSUME NEW f \in {Half, Triple}, NEW B \in Nat, NEW U \in Nat, FormatOf(f, B, U), B = 2 ^ f.bits,
         NEW k \in Kept(f, B), Place(k) = 1, NEW v \in FloatNumbers,
         NEW h \in 1 .. 24, h = SmallPlace(f, v),
         NEW n \in Nat, n = HalfSteps(f, k, h)
  PROVE  MiddleBy(f, k, v, n)
<1>1. PICK d \in Nat : d = 2 * Units(f, k) + 1 /\ InReach(d)
  BY UnitsType, SMT DEF InReach
<1>2. PICK b \in 1 .. 18, P \in Nat, Q \in Nat : HasDigits(d, b, P, Q)
  <2>1. Sized(d)
    BY <1>1, DigitsFound, Zenon
  <2> QED
    BY <2>1, Zenon DEF Sized
<1>3. AtMost(Middle(f, k), v) <=>
           \/ b + Place(k) - f.bits - 2 < v.e - (127 - f.bias)
           \/ b + Place(k) - f.bits - 2 = v.e - (127 - f.bias) /\ d * Q <= Lead + v.m
  BY <1>1, <1>2, MiddleIs
<1>4. v.e \in Nat /\ v.m \in Nat /\ v.m < Lead /\ Lead \in Nat /\ f.bits \in Nat /\ f.bias \in Nat
  BY FloatFields, FormatTable
<1>0. h = 23 - f.bits + (1 - (v.e - (127 - f.bias)))
  BY DEF SmallPlace
<1>5. /\ b + Place(k) - f.bits - 2 < v.e - (127 - f.bias) <=> b < 25 - h
      /\ b + Place(k) - f.bits - 2 = v.e - (127 - f.bias) <=> b = 25 - h
  BY <1>0, <1>4
<1>6. /\ b < 25 - h => d * TwoTo[h] <= Lead
      /\ b > 25 - h => d * TwoTo[h] >= 2 * Lead
      /\ b = 25 - h => Q = TwoTo[h]
  BY <1>2, SizeFromProduct
<1>7. n = d * TwoTo[h]
  BY <1>1 DEF HalfSteps
<1> SUFFICES /\ n <= Lead + v.m => AtMost(Middle(f, k), v)
             /\ n > Lead + v.m => ~AtMost(Middle(f, k), v)
  BY DEF MiddleBy
<1>8. CASE b < 25 - h
  <2>1. n <= Lead + v.m
    BY <1>4, <1>6, <1>7, <1>8
  <2> QED
    BY <1>3, <1>4, <1>5, <1>8, <2>1
<1>9. CASE b = 25 - h
  <2>1. d * Q = n /\ (AtMost(Middle(f, k), v) <=> d * Q <= Lead + v.m)
    BY <1>3, <1>5, <1>6, <1>7, <1>9
  <2>2. n > Lead + v.m <=> ~(n <= Lead + v.m)
    BY <1>4
  <2> QED
    BY <2>1, <2>2, Zenon
<1>10. CASE b > 25 - h
  <2>1. n > Lead + v.m /\ ~(b < 25 - h) /\ b # 25 - h
    BY <1>4, <1>6, <1>7, <1>10
  <2> QED
    BY <1>3, <1>4, <1>5, <2>1
<1> QED
  BY <1>8, <1>9, <1>10

-----------------------------------------------------------------------------
(* Rounding: to a multiple of the unit, in the middle to the larger one.   *)
RoundsTo(n, c, w) == (2 * c - 1) * w <= n /\ n < (2 * c + 1) * w

LEMMA RoundedIs ==
  ASSUME NEW f, NEW B, NEW U, FormatOf(f, B, U), U = Unit(f), NEW n \in Nat
  PROVE  \E c \in Nat, r \in 0 .. U - 1 :
           Rounded(f, n) = c * U + r /\ RoundsTo(n, c, U \div 2)
<1>1. Rounded(f, n) = IF ((2 * n) \div U) % 2 = 1 THEN n + U ELSE n
  BY DEF Rounded
<1>2. U \in {128, 8192}
  BY FormatTable
<1>3. CASE U = 128
  <2>1. PICK q \in Nat, r \in 0 .. 127 : n = 128 * q + r
    <3>1. n = 128 * (n \div 128) + (n % 128) /\ n \div 128 \in Nat /\ n % 128 \in 0 .. 127
      BY SMT
    <3> QED
      BY <3>1
  <2>2. CASE r < 64
    <3>1. ((2 * n) \div 128) % 2 # 1
      <4>1. (2 * n) \div 128 = 2 * q
        BY <2>1, <2>2, SMT
      <4> QED
        BY <2>1, <4>1
    <3>2. Rounded(f, n) = q * U + r
      BY <1>1, <1>3, <2>1, <3>1, SMT
    <3>3. RoundsTo(n, q, U \div 2)
      BY <1>3, <2>1, <2>2, SMT DEF RoundsTo
    <3>4. r \in 0 .. U - 1
      BY <1>3, SMT
    <3> QED
      BY <2>1, <3>2, <3>3, <3>4
  <2>3. CASE r >= 64
    <3>1. ((2 * n) \div 128) % 2 = 1
      <4>1. (2 * n) \div 128 = 2 * q + 1
        BY <2>1, <2>3, SMT
      <4> QED
        BY <2>1, <4>1
    <3>2. PICK c \in Nat : c = q + 1
      OBVIOUS
    <3>3. Rounded(f, n) = c * U + r
      BY <1>1, <1>3, <2>1, <3>1, <3>2, SMT
    <3>4. RoundsTo(n, c, U \div 2)
      BY <1>3, <2>1, <2>3, <3>2, SMT DEF RoundsTo
    <3>5. r \in 0 .. U - 1
      BY <1>3, SMT
    <3> QED
      BY <2>1, <3>3, <3>4, <3>5
  <2> QED
    BY <2>1, <2>2, <2>3
<1>4. CASE U = 8192
  <2>1. PICK q \in Nat, r \in 0 .. 8191 : n = 8192 * q + r
    <3>1. n = 8192 * (n \div 8192) + (n % 8192) /\ n \div 8192 \in Nat /\ n % 8192 \in 0 .. 8191
      BY SMT
    <3> QED
      BY <3>1, SMT
  <2>2. CASE r < 4096
    <3>1. ((2 * n) \div 8192) % 2 # 1
      <4>1. (2 * n) \div 8192 = 2 * q
        BY <2>1, <2>2, SMT
      <4> QED
        BY <2>1, <4>1, SMT
    <3>2. Rounded(f, n) = q * U + r
      BY <1>1, <1>4, <2>1, <3>1, SMT
    <3>3. RoundsTo(n, q, U \div 2)
      BY <1>4, <2>1, <2>2, SMT DEF RoundsTo
    <3>4. r \in 0 .. U - 1
      BY <1>4, SMT
    <3> QED
      BY <2>1, <3>2, <3>3, <3>4
  <2>3. CASE r >= 4096
    <3>1. ((2 * n) \div 8192) % 2 = 1
      <4>1. (2 * n) \div 8192 = 2 * q + 1
        BY <2>1, <2>3, SMT
      <4> QED
        BY <2>1, <4>1, SMT
    <3>2. PICK c \in Nat : c = q + 1
      OBVIOUS
    <3>3. Rounded(f, n) = c * U + r
      BY <1>1, <1>4, <2>1, <3>1, <3>2, SMT
    <3>4. RoundsTo(n, c, U \div 2)
      BY <1>4, <2>1, <2>3, <3>2, SMT DEF RoundsTo
    <3>5. r \in 0 .. U - 1
      BY <1>4, SMT
    <3> QED
      BY <2>1, <3>3, <3>4, <3>5
  <2> QED
    BY <2>1, <2>2, <2>3, SMT
<1> QED
  BY <1>2, <1>3, <1>4, SMT

(* Units carried out of a mantissa, of the one size and of the other.       *)
LEMMA UnitsCarried ==
  ASSUME NEW c \in Nat, NEW r \in Nat
  PROVE  /\ c <= 65536 /\ r < 128 =>
              /\ (c * 128 + r) \div 8388608 = IF c = 65536 THEN 1 ELSE 0
              /\ ((c * 128 + r) % 8388608) \div 128 = IF c = 65536 THEN 0 ELSE c
         /\ c <= 1024 /\ r < 8192 =>
              /\ (c * 8192 + r) \div 8388608 = IF c = 1024 THEN 1 ELSE 0
              /\ ((c * 8192 + r) % 8388608) \div 8192 = IF c = 1024 THEN 0 ELSE c
<1>1. ASSUME c <= 65536, r < 128
      PROVE  /\ (c * 128 + r) \div 8388608 = IF c = 65536 THEN 1 ELSE 0
             /\ ((c * 128 + r) % 8388608) \div 128 = IF c = 65536 THEN 0 ELSE c
  BY <1>1, SMT
<1>2. ASSUME c <= 1024, r < 8192
      PROVE  /\ (c * 8192 + r) \div 8388608 = IF c = 1024 THEN 1 ELSE 0
             /\ ((c * 8192 + r) % 8388608) \div 8192 = IF c = 1024 THEN 0 ELSE c
  BY <1>2, SMT
<1> QED
  BY <1>1, <1>2, SMT

(* A mantissa rounded: B units are a carry.                                *)
LEMMA MantissaRounded ==
  ASSUME NEW f, NEW B, NEW U, FormatOf(f, B, U), U = Unit(f), NEW m \in Nat, m < Lead
  PROVE  \E c \in 0 .. B :
           /\ RoundsTo(m, c, U \div 2)
           /\ Rounded(f, m) \div 2 ^ FloatBits = IF c = B THEN 1 ELSE 0
           /\ (Rounded(f, m) % 2 ^ FloatBits) \div U = IF c = B THEN 0 ELSE c
<1>1. PICK c \in Nat, r \in 0 .. U - 1 : Rounded(f, m) = c * U + r /\ RoundsTo(m, c, U \div 2)
  BY RoundedIs
<1>2. B * U = Lead /\ U \in {128, 8192} /\ B \in {1024, 65536}
  BY FormatTable
<1>3. 2 ^ FloatBits = Lead
  <2>1. Power(23, Lead)
    BY TwoToIs, SMT DEF Power, Lead
  <2>2. 2 ^ 23 = Lead
    BY <2>1, PowerOfTwo
  <2> QED
    BY <2>2 DEF FloatBits
<1>4. CASE U = 128
  <2>1. B = 65536
    BY <1>2, <1>4, SMT DEF Lead
  <2>2. c \in 0 .. B
    BY <1>1, <1>2, <1>4, SMT DEF RoundsTo, Lead
  <2>3. /\ (c * U + r) \div Lead = IF c = B THEN 1 ELSE 0
        /\ ((c * U + r) % Lead) \div U = IF c = B THEN 0 ELSE c
    <3>1. r \in Nat /\ r < 128 /\ c <= 65536
      BY <1>4, <2>1, <2>2, SMT
    <3> QED
      BY <1>4, <2>1, <3>1, UnitsCarried, SMT DEF Lead
  <2> QED
    BY <1>1, <1>3, <2>2, <2>3
<1>5. CASE U = 8192
  <2>1. B = 1024
    BY <1>2, <1>5, SMT DEF Lead
  <2>2. c \in 0 .. B
    BY <1>1, <1>2, <1>5, SMT DEF RoundsTo, Lead
  <2>3. /\ (c * U + r) \div Lead = IF c = B THEN 1 ELSE 0
        /\ ((c * U + r) % Lead) \div U = IF c = B THEN 0 ELSE c
    <3>1. r \in Nat /\ r < 8192 /\ c <= 1024
      BY <1>5, <2>1, <2>2, SMT
    <3> QED
      BY <1>5, <2>1, <3>1, UnitsCarried, SMT DEF Lead
  <2> QED
    BY <1>1, <1>3, <2>2, <2>3
<1> QED
  BY <1>2, <1>4, <1>5, SMT

(* The four cases of FromFloat, for a float of exponent e in format f.     *)
Tiny(f, v)    == [s |-> v.s, e |-> 0, m |-> 0]
Shifted(f, v, t) == Rounded(f, (2 ^ FloatBits + v.m) \div 2 ^ t) \div Unit(f)
Small(f, v, t) == [s |-> v.s, e |-> Shifted(f, v, t) \div 2 ^ f.bits,
                   m |-> Shifted(f, v, t) % 2 ^ f.bits]
Special(f, v) == [s |-> v.s, e |-> f.max,
                  m |-> IF v.m > 0 /\ v.m \div Unit(f) = 0 THEN 1 ELSE v.m \div Unit(f)]
Carry(f, v)   == Rounded(f, v.m) \div 2 ^ FloatBits
Normal(f, v, e) ==
  IF e + Carry(f, v) >= f.max THEN [s |-> v.s, e |-> f.max, m |-> 0]
  ELSE [s |-> v.s, e |-> e + Carry(f, v),
        m |-> (Rounded(f, v.m) % 2 ^ FloatBits) \div Unit(f)]

LEMMA FromFloatIs ==
  ASSUME NEW f, NEW B, NEW U, FormatOf(f, B, U), NEW v \in FloatNumbers,
         NEW e \in Int, e = v.e - (127 - f.bias)
  PROVE  /\ e < -f.bits => FromFloat(f, v) = Tiny(f, v)
         /\ e \in -f.bits .. 0 => FromFloat(f, v) = Small(f, v, 1 - e)
         /\ v.e = 255 => FromFloat(f, v) = Special(f, v)
         /\ e > 0 /\ v.e # 255 => FromFloat(f, v) = Normal(f, v, e)
<1>1. /\ f.bits \in Nat /\ f.bias \in Nat /\ v.e \in Nat /\ (v.e = 255 => e > 0)
      /\ v.e - (FloatBias - f.bias) = e
  BY FormatTable, FloatFields DEF FloatBias
<1>2. CASE e < -f.bits
  <2>1. ~(e \in -f.bits .. 0) /\ v.e # FloatMax /\ ~(e > 0)
    BY <1>1, <1>2 DEF FloatMax
  <2>2. FromFloat(f, v) = Tiny(f, v)
    BY <1>1, <1>2, <2>1, Zenon DEF FromFloat, Tiny
  <2> QED
    BY <1>1, <2>1, <2>2 DEF FloatMax
<1>3. CASE e \in -f.bits .. 0
  <2>1. ~(e < -f.bits) /\ v.e # FloatMax /\ ~(e > 0)
    BY <1>1, <1>3 DEF FloatMax
  <2>2. FromFloat(f, v) = Small(f, v, 1 - e)
    BY <1>1, <1>3, <2>1, Zenon DEF FromFloat, Small, Shifted
  <2> QED
    BY <1>1, <2>1, <2>2 DEF FloatMax
<1>4. CASE v.e = 255
  <2>1. ~(e < -f.bits) /\ ~(e \in -f.bits .. 0) /\ v.e = FloatMax
    BY <1>1, <1>4 DEF FloatMax
  <2>2. FromFloat(f, v) = Special(f, v)
    BY <1>1, <2>1, Zenon DEF FromFloat, Special
  <2> QED
    BY <1>1, <1>4, <2>1, <2>2
<1>5. CASE e > 0 /\ v.e # 255
  <2>1. ~(e < -f.bits) /\ ~(e \in -f.bits .. 0) /\ v.e # FloatMax
    BY <1>1, <1>5 DEF FloatMax
  <2>2. FromFloat(f, v) = Normal(f, v, e)
    BY <1>1, <1>5, <2>1, Zenon DEF FromFloat, Normal, Carry
  <2> QED
    BY <1>1, <1>5, <2>1, <2>2
<1> QED
  BY <1>1, <1>2, <1>3, <1>4, <1>5

(* The number below another that is not 0.                                 *)
LEMMA BeforeIs ==
  ASSUME NEW f, NEW B \in Nat, NEW U \in Nat, FormatOf(f, B, U), B = 2 ^ f.bits,
         NEW k \in Kept(f, B), k.e # 0 \/ k.m # 0
  PROVE  /\ Before(f, k) \in Kept(f, B)
         /\ k.m > 0 => Before(f, k).e = k.e /\ Before(f, k).m = k.m - 1
         /\ k.m = 0 => Before(f, k).e = k.e - 1 /\ Before(f, k).m = B - 1
<1>1. k.s \in 0 .. 1 /\ k.e \in 0 .. f.max /\ k.m \in 0 .. B - 1 /\ k = [s |-> k.s, e |-> k.e, m |-> k.m]
  BY DEF Kept
<1>2. B \in Nat /\ B > 0 /\ f.max \in Nat
  <2>1. B \in {1024, 65536} /\ f.max \in Nat
    BY FormatTable
  <2> QED
    BY <2>1
<1>3. CASE k.m > 0
  <2>1. Before(f, k) = [s |-> k.s, e |-> k.e, m |-> k.m - 1]
    BY <1>1, <1>3 DEF Before
  <2>2. k.m - 1 \in 0 .. B - 1 /\ k.m # 0
    BY <1>1, <1>3
  <2> QED
    BY <1>1, <1>3, <2>1, <2>2 DEF Kept
<1>4. CASE k.m = 0
  <2>0. ~(k.m > 0)
    BY <1>4
  <2>1. Before(f, k) = [k EXCEPT !.e = k.e - 1, !.m = B - 1]
    BY <2>0, Zenon DEF Before
  <2>2. k.e - 1 \in 0 .. f.max /\ B - 1 \in 0 .. B - 1
    BY <1>1, <1>2, <1>4
  <2>3. Before(f, k) = [s |-> k.s, e |-> k.e - 1, m |-> B - 1]
    BY <1>1, <2>1
  <2> QED
    BY <1>1, <1>4, <2>0, <2>2, <2>3 DEF Kept
<1> QED
  BY <1>1, <1>3, <1>4

(* What a file keeps of v: a number of the file's, nearest to v.           *)
Nearest(f, B, k, v) ==
  k \in Kept(f, B) /\ IF IsNaN(v, FloatMax) THEN IsNaN(k, f.max) ELSE IsNearest(f, k, v)

LEMMA TinyNearest ==
  ASSUME NEW f \in {Half, Triple}, NEW B \in Nat, NEW U \in Nat, FormatOf(f, B, U), B = 2 ^ f.bits,
         NEW v \in FloatNumbers, NEW e \in Int, e = v.e - (127 - f.bias), e < -f.bits
  PROVE  Nearest(f, B, Tiny(f, v), v)
<1>1. PICK k : k = Tiny(f, v)
  OBVIOUS
<1>2. f.bits \in Nat /\ f.bias \in Nat /\ f.max \in Nat /\ B > 0 /\ 255 - (127 - f.bias) > f.max /\ f.max > 30
  BY FormatTable
<1>3. /\ v.s \in 0 .. 1 /\ v.e \in Nat /\ v.m \in Nat /\ v.m < Lead /\ Lead \in Nat
  BY FloatFields
<1>4. k \in Kept(f, B) /\ k.s = v.s /\ k.e = 0 /\ k.m = 0
  BY <1>1, <1>2, <1>3 DEF Kept, Tiny
<1>5. ~IsNaN(v, FloatMax)
  BY <1>2, <1>3 DEF IsNaN, FloatMax
<1>6. ~AtMost(Middle(f, k), v)
  <2>1. 2 * Units(f, k) + 1 = 1 /\ Place(k) = 1
    BY <1>4, UnitsType DEF Place
  <2>2. TwoTo[1] = 1 /\ 25 - 1 = 24
    BY TwoToIs
  <2>3. PICK Q : Q = TwoTo[24]
    OBVIOUS
  <2>4. HasDigits(1, 1, 1, Q)
    BY <2>2, <2>3 DEF HasDigits, Digits
  <2>5. AtMost(Middle(f, k), v) <=>
           \/ 1 + Place(k) - f.bits - 2 < v.e - (127 - f.bias)
           \/ 1 + Place(k) - f.bits - 2 = v.e - (127 - f.bias) /\ 1 * Q <= Lead + v.m
    BY <1>4, <2>1, <2>4, MiddleIs
  <2>6. /\ ~(1 + Place(k) - f.bits - 2 < v.e - (127 - f.bias))
        /\ ~(1 + Place(k) - f.bits - 2 = v.e - (127 - f.bias))
    BY <1>2, <1>3, <2>1
  <2> QED
    BY <2>5, <2>6, Zenon
<1>7. IsNearest(f, k, v)
  BY <1>4, <1>6 DEF IsNearest
<1> QED
  BY <1>1, <1>4, <1>5, <1>7, Zenon DEF Nearest

LEMMA SpecialNearest ==
  ASSUME NEW f \in {Half, Triple}, NEW B \in Nat, NEW U \in Nat, FormatOf(f, B, U), B = 2 ^ f.bits,
         U = Unit(f), NEW v \in FloatNumbers, v.e = 255
  PROVE  Nearest(f, B, Special(f, v), v)
<1>1. PICK k : k = Special(f, v)
  OBVIOUS
<1>2. /\ f.bits \in Nat /\ f.bias \in Nat /\ f.max \in Nat /\ B \in {1024, 65536} /\ U \in {128, 8192}
      /\ 255 - (127 - f.bias) > f.max /\ f.max > 30 /\ B * U = Lead
  BY FormatTable
<1>3. /\ v.s \in 0 .. 1 /\ v.e \in Nat /\ v.m \in Nat /\ v.m < Lead /\ Lead \in Nat
  BY FloatFields
<1>4. PICK q \in Nat : q = v.m \div Unit(f) /\ q < B /\ (v.m = 0 => q = 0)
  <2>1. CASE U = 128
    <3>1. B = 65536
      BY <1>2, <2>1, SMT DEF Lead
    <3>2. v.m \div 128 \in Nat /\ v.m \div 128 < 65536 /\ (v.m = 0 => v.m \div 128 = 0)
      BY <1>3, SMT DEF Lead
    <3> QED
      BY <2>1, <3>1, <3>2, SMT
  <2>2. CASE U = 8192
    <3>1. B = 1024
      BY <1>2, <2>2, SMT DEF Lead
    <3>2. v.m \div 8192 \in Nat /\ v.m \div 8192 < 1024 /\ (v.m = 0 => v.m \div 8192 = 0)
      BY <1>3, SMT DEF Lead
    <3> QED
      BY <2>2, <3>1, <3>2, SMT
  <2> QED
    BY <1>2, <2>1, <2>2, SMT
<1>5. k = [s |-> v.s, e |-> f.max, m |-> IF v.m > 0 /\ q = 0 THEN 1 ELSE q]
  BY <1>1, <1>4, Zenon DEF Special
<1>6. /\ k \in Kept(f, B) /\ k.s = v.s /\ k.e = f.max
      /\ (v.m > 0 => k.m > 0) /\ (v.m = 0 => k.m = 0)
  <2>1. B > 1 /\ f.max \in 0 .. f.max
    BY <1>2, SMT
  <2> QED
    BY <1>2, <1>3, <1>4, <1>5, <2>1, SMT DEF Kept
<1>7. CASE v.m > 0
  <2>1. IsNaN(v, FloatMax) /\ IsNaN(k, f.max)
    BY <1>6, <1>7 DEF IsNaN, FloatMax
  <2> QED
    BY <1>1, <1>6, <2>1, Zenon DEF Nearest
<1>8. CASE v.m = 0
  <2>1. ~IsNaN(v, FloatMax) /\ k.m = 0 /\ k.e # 0 /\ ~(k.e < f.max)
    BY <1>2, <1>6, <1>8 DEF IsNaN
  <2>2. PICK j : j = Before(f, k)
    OBVIOUS
  <2>3. j \in Kept(f, B) /\ j.e = f.max - 1 /\ j.e > 0
    BY <1>2, <1>6, <2>1, <2>2, BeforeIs
  <2>4. PICK e \in Int : e = v.e - (127 - f.bias)
    BY <1>2, <1>3
  <2>5. j.e < e
    BY <1>2, <2>3, <2>4
  <2>6. AtMost(Middle(f, j), v)
    BY <2>3, <2>4, <2>5, NormalMiddle
  <2>7. IsNearest(f, k, v)
    BY <1>6, <2>1, <2>2, <2>6, Zenon DEF IsNearest
  <2> QED
    BY <1>1, <1>6, <2>1, <2>7, Zenon DEF Nearest
<1> QED
  BY <1>3, <1>7, <1>8

LEMMA NormalNearest ==
  ASSUME NEW f \in {Half, Triple}, NEW B \in Nat, NEW U \in Nat, FormatOf(f, B, U), B = 2 ^ f.bits,
         U = Unit(f), NEW v \in FloatNumbers, v.e # 255,
         NEW e \in Int, e = v.e - (127 - f.bias), e > 0
  PROVE  Nearest(f, B, Normal(f, v, e), v)
<1>1. PICK k : k = Normal(f, v, e)
  OBVIOUS
<1>2. /\ f.bits \in Nat /\ f.bias \in Nat /\ f.max \in Nat /\ f.max > 30 /\ B \in {1024, 65536}
  BY FormatTable
<1>3. /\ v.s \in 0 .. 1 /\ v.e \in Nat /\ v.m \in Nat /\ v.m < Lead /\ Lead \in Nat
  BY FloatFields
<1>4. PICK c \in 0 .. B :
        /\ RoundsTo(v.m, c, U \div 2)
        /\ Rounded(f, v.m) \div 2 ^ FloatBits = IF c = B THEN 1 ELSE 0
        /\ (Rounded(f, v.m) % 2 ^ FloatBits) \div U = IF c = B THEN 0 ELSE c
  BY <1>3, MantissaRounded
<1>5. PICK w \in Nat : w = U \div 2
  <2>1. U \in {128, 8192}
    BY FormatTable
  <2>2. U \div 2 \in Nat
    BY <2>1
  <2> QED
    BY <2>2
<1>6. (2 * c - 1) * w <= v.m /\ v.m < (2 * c + 1) * w
  BY <1>4, <1>5 DEF RoundsTo
<1>7. ~IsNaN(v, FloatMax)
  BY DEF IsNaN, FloatMax
<1>8. ASSUME NEW j \in Kept(f, B), j.e > 0
      PROVE  AtMost(Middle(f, j), v) <=> (j.e < e \/ (j.e = e /\ (2 * j.m + 1) * w <= v.m))
  BY <1>5, <1>8, NormalMiddle
<1>9. CASE e + Carry(f, v) >= f.max
  <2>1. k = [s |-> v.s, e |-> f.max, m |-> 0]
    BY <1>1, <1>9, Zenon DEF Normal
  <2>2. k \in Kept(f, B) /\ k.s = v.s /\ k.e = f.max /\ k.m = 0 /\ k.e # 0 /\ ~(k.e < f.max)
    BY <1>2, <1>3, <2>1 DEF Kept
  <2>3. PICK j : j = Before(f, k)
    OBVIOUS
  <2>4. j \in Kept(f, B) /\ j.e = f.max - 1 /\ j.e > 0 /\ j.m = B - 1
    BY <1>2, <2>2, <2>3, BeforeIs
  <2>5. f.max - 1 < e \/ (f.max - 1 = e /\ c = B)
    BY <1>2, <1>4, <1>9 DEF Carry
  <2>6. c = B => (2 * j.m + 1) * w <= v.m
    <3>1. 2 * j.m + 1 = 2 * B - 1
      BY <2>4
    <3> QED
      BY <1>6, <3>1
  <2>7. AtMost(Middle(f, j), v)
    BY <1>8, <2>4, <2>5, <2>6
  <2>8. IsNearest(f, k, v)
    BY <2>2, <2>3, <2>7, Zenon DEF IsNearest
  <2> QED
    BY <1>1, <1>7, <2>2, <2>8, Zenon DEF Nearest
<1>10. CASE ~(e + Carry(f, v) >= f.max)
  <2>1. k = [s |-> v.s, e |-> e + Carry(f, v),
             m |-> (Rounded(f, v.m) % 2 ^ FloatBits) \div Unit(f)]
    BY <1>1, <1>10, Zenon DEF Normal
  <2>2. /\ Carry(f, v) = IF c = B THEN 1 ELSE 0
        /\ k.e = e + Carry(f, v) /\ k.m = IF c = B THEN 0 ELSE c
    BY <1>4, <2>1 DEF Carry
  <2>3. k \in Kept(f, B) /\ k.s = v.s
    <3>1. v.s \in 0 .. 1 /\ e + Carry(f, v) \in 0 .. f.max
      BY <1>2, <1>3, <1>10, <2>2
    <3>2. (Rounded(f, v.m) % 2 ^ FloatBits) \div Unit(f) \in 0 .. B - 1
      BY <1>2, <1>4
    <3> QED
      BY <2>1, <3>1, <3>2 DEF Kept
  <2>4. k.e > 0 /\ k.e < f.max
    BY <1>2, <1>10, <2>2
  <2>5. ~AtMost(Middle(f, k), v)
    <3>1. ~(k.e < e)
      BY <2>2
    <3>2. k.e = e => ~((2 * k.m + 1) * w <= v.m)
      BY <1>3, <1>6, <2>2
    <3> QED
      BY <1>8, <2>3, <2>4, <3>1, <3>2
  <2>6. PICK j : j = Before(f, k)
    OBVIOUS
  <2>7. /\ j \in Kept(f, B)
        /\ k.m > 0 => j.e = k.e /\ j.m = k.m - 1
        /\ k.m = 0 => j.e = k.e - 1 /\ j.m = B - 1
    BY <2>3, <2>4, <2>6, BeforeIs
  <2>8. AtMost(Middle(f, j), v)
    <3>1. CASE c = B
      <4>1. j.e = e /\ j.e > 0 /\ 2 * j.m + 1 = 2 * c - 1
        BY <1>2, <2>2, <2>7, <3>1
      <4>2. (2 * j.m + 1) * w <= v.m
        BY <1>6, <4>1
      <4> QED
        BY <1>8, <2>7, <4>1, <4>2
    <3>2. CASE c # B /\ c > 0
      <4>1. j.e = e /\ j.e > 0 /\ 2 * j.m + 1 = 2 * c - 1
        BY <1>2, <2>2, <2>7, <3>2
      <4>2. (2 * j.m + 1) * w <= v.m
        BY <1>6, <4>1
      <4> QED
        BY <1>8, <2>7, <4>1, <4>2
    <3>3. CASE c = 0 /\ e > 1
      <4>1. j.e = e - 1 /\ j.e > 0 /\ j.e < e
        BY <1>2, <2>2, <2>7, <3>3
      <4> QED
        BY <1>8, <2>7, <4>1
    <3>4. CASE c = 0 /\ e = 1
      <4>1. j.e = 0 /\ j.m = B - 1
        BY <1>2, <2>2, <2>7, <3>4
      <4>2. Units(f, j) = B - 1 /\ Place(j) = 1
        BY <2>7, <4>1, UnitsType DEF Place
      <4>3. PICK n \in Nat : n = 2 * Units(f, j) + 1 /\ n = 2 * B - 1
        BY <1>2, <4>2
      <4>4. HasDigits(n, f.bits + 1, B, U)
        BY <1>2, <4>3, FullDigits
      <4>5. AtMost(Middle(f, j), v) <=>
           \/ f.bits + 1 + Place(j) - f.bits - 2 < v.e - (127 - f.bias)
           \/ f.bits + 1 + Place(j) - f.bits - 2 = v.e - (127 - f.bias) /\ n * U <= Lead + v.m
        BY <2>7, <4>3, <4>4, MiddleIs
      <4>6. f.bits + 1 + Place(j) - f.bits - 2 < v.e - (127 - f.bias)
        BY <1>2, <1>3, <3>4, <4>2
      <4> QED
        BY <4>5, <4>6, Zenon
    <3> QED
      BY <1>2, <1>4, <3>1, <3>2, <3>3, <3>4
  <2>9. IsNearest(f, k, v)
    BY <2>3, <2>5, <2>6, <2>8, Zenon DEF IsNearest
  <2> QED
    BY <1>1, <1>7, <2>3, <2>9, Zenon DEF Nearest
<1> QED
  BY <1>9, <1>10

(* Division by a power of two, and a product of two of them.               *)
LEMMA ShiftIs ==
  ASSUME NEW n \in Nat, NEW i \in 1 .. 24, NEW M, M = n \div TwoTo[i]
  PROVE  M \in Nat /\ M * TwoTo[i] <= n /\ n < (M + 1) * TwoTo[i]
<1>1. PICK d \in Nat \ {0} : d = TwoTo[i]
  BY TwoToType
<1>2. M = n \div d
  BY <1>1
<1>3. M \in Nat /\ M * d <= n /\ n < (M + 1) * d
  <2>1. \/ d = 1 \/ d = 2 \/ d = 4 \/ d = 8 \/ d = 16 \/ d = 32 \/ d = 64 \/ d = 128 \/ d = 256
        \/ d = 512 \/ d = 1024 \/ d = 2048 \/ d = 4096 \/ d = 8192 \/ d = 16384 \/ d = 32768
        \/ d = 65536 \/ d = 131072 \/ d = 262144 \/ d = 524288 \/ d = 1048576 \/ d = 2097152
        \/ d = 4194304 \/ d = 8388608
    BY <1>1, PlaceIs, TwoToIs, SMT
  <2> QED
    BY <1>2, <2>1, SMT
<1> QED
  BY <1>1, <1>3

LEMMA TableProduct ==
  ASSUME NEW a \in 1 .. 24, NEW b \in 1 .. 24, NEW h \in 1 .. 24, h = a + b - 1, a \in {7, 13}
  PROVE  TwoTo[a] * TwoTo[b] = TwoTo[h]
<1>1. CASE a = 7
  <2>1. TwoTo[7] = 64 /\ TwoTo[b] \in Nat /\ b <= 18 /\ h = b + 6
    BY <1>1, TwoToIs, TwoToType
  <2>2. 64 * TwoTo[b] = TwoTo[b + 6]
    BY <2>1, PlaceIs, TwoToIs, SMT
  <2> QED
    BY <1>1, <2>1, <2>2
<1>2. CASE a = 13
  <2>1. TwoTo[13] = 4096 /\ TwoTo[b] \in Nat /\ b <= 12 /\ h = b + 12
    BY <1>2, TwoToIs, TwoToType
  <2>2. 4096 * TwoTo[b] = TwoTo[b + 12]
    BY <2>1, PlaceIs, TwoToIs, SMT
  <2> QED
    BY <1>2, <2>1, <2>2
<1> QED
  BY <1>1, <1>2

(* A mantissa cut by t bits and rounded.                                   *)
LEMMA ShiftedIs ==
  ASSUME NEW f, NEW B \in Nat, NEW U \in Nat, FormatOf(f, B, U), U = Unit(f),
         NEW v \in FloatNumbers, NEW t \in 1 .. f.bits + 1, NEW h, h = 23 - f.bits + t
  PROVE  /\ h \in 1 .. 24
         /\ Shifted(f, v, t) \in 0 .. B
         /\ (2 * Shifted(f, v, t) - 1) * TwoTo[h] <= Lead + v.m
         /\ Lead + v.m < (2 * Shifted(f, v, t) + 1) * TwoTo[h]
<1>1. f.bits \in {10, 16} /\ B * U = Lead /\ U \in {128, 8192} /\ U \div 2 = TwoTo[23 - f.bits]
  BY FormatTable
<1>2. v.m \in Nat /\ v.m < Lead /\ Lead \in Nat
  BY FloatFields
<1>3. t + 1 \in 1 .. 24 /\ h \in 1 .. 24 /\ 23 - f.bits \in {7, 13} /\ h = 23 - f.bits + (t + 1) - 1
      /\ t \in 0 .. 23 /\ 23 - f.bits \in 1 .. 24
  BY <1>1
<1>4. PICK T \in Nat \ {0} : T = TwoTo[t + 1]
  BY <1>3, TwoToType
<1>5. 2 ^ t = T
  BY <1>3, <1>4, PowerOfTwo DEF Power
<1>6. PICK w \in Nat \ {0} : w = U \div 2 /\ w = TwoTo[23 - f.bits] /\ 2 * w = U
  <2>1. U \div 2 \in Nat \ {0} /\ 2 * (U \div 2) = U
    BY <1>1
  <2> QED
    BY <1>1, <2>1
<1>7. PICK H \in Nat \ {0} : H = TwoTo[h] /\ w * T = H
  <2>1. TwoTo[23 - f.bits] * TwoTo[t + 1] = TwoTo[h]
    BY <1>3, TableProduct
  <2>2. TwoTo[h] \in Nat \ {0}
    BY <1>3, TwoToType
  <2> QED
    BY <1>4, <1>6, <2>1, <2>2
<1>8. PICK N \in Nat : N = Lead + v.m
  BY <1>2
<1>9. 2 ^ FloatBits = Lead
  <2>1. Power(23, Lead)
    BY TwoToIs, SMT DEF Power, Lead
  <2>2. 2 ^ 23 = Lead
    BY <2>1, PowerOfTwo
  <2> QED
    BY <2>2 DEF FloatBits
<1>10. PICK M \in Nat : M = N \div T /\ M * TwoTo[t + 1] <= N /\ N < (M + 1) * TwoTo[t + 1]
  <2>1. PICK M : M = N \div TwoTo[t + 1]
    OBVIOUS
  <2>2. M \in Nat /\ M * TwoTo[t + 1] <= N /\ N < (M + 1) * TwoTo[t + 1]
    BY <1>3, <2>1, ShiftIs
  <2> QED
    BY <1>4, <2>1, <2>2
<1>11. PICK c \in Nat, r \in 0 .. U - 1 : Rounded(f, M) = c * U + r /\ RoundsTo(M, c, U \div 2)
  BY RoundedIs
<1>12. Shifted(f, v, t) = c
  <2>1. Shifted(f, v, t) = (c * U + r) \div U
    BY <1>5, <1>8, <1>9, <1>10, <1>11 DEF Shifted
  <2>2. (c * U + r) \div U = c
    <3>1. CASE U = 128
      BY <1>11, <3>1
    <3>2. CASE U = 8192
      <4>1. r \in Nat /\ r < 8192
        BY <3>2, SMT
      <4>2. (c * 8192 + r) \div 8192 = c
        BY <4>1, SMT
      <4> QED
        BY <3>2, <4>2, SMT
    <3> QED
      BY <1>1, <3>1, <3>2, SMT
  <2> QED
    BY <2>1, <2>2
<1>13. (2 * c - 1) * w <= M /\ M + 1 <= (2 * c + 1) * w
  <2>1. PICK x \in Int, y \in Int : x = (2 * c - 1) * w /\ y = (2 * c + 1) * w
    OBVIOUS
  <2>2. x <= M /\ M < y
    BY <1>6, <1>11, <2>1 DEF RoundsTo
  <2> QED
    BY <2>1, <2>2
<1>14. (2 * c - 1) * H <= N
  <2>1. PICK x \in Int : x = (2 * c - 1) * w
    OBVIOUS
  <2>2. x * TwoTo[t + 1] <= M * TwoTo[t + 1]
    <3>1. x <= M
      BY <1>13, <2>1
    <3>2. x \in Int /\ M \in Int /\ t + 1 \in 1 .. 24
      BY <1>3
    <3> QED
      BY <3>1, <3>2, ProductGrows, Zenon
  <2>3. x * T = (2 * c - 1) * H
    <3>1. PICK z \in Int : z = 2 * c - 1
      OBVIOUS
    <3>2. (z * w) * T = z * (w * T)
      OBVIOUS
    <3> QED
      BY <1>7, <2>1, <3>1, <3>2
  <2>4. PICK p \in Int, q \in Int : p = x * T /\ q = M * T
    OBVIOUS
  <2> QED
    BY <1>4, <1>10, <2>2, <2>3, <2>4
<1>15. N < (2 * c + 1) * H
  <2>1. PICK x \in Int : x = (2 * c + 1) * w
    OBVIOUS
  <2>2. PICK y \in Int : y = M + 1
    OBVIOUS
  <2>3. y * TwoTo[t + 1] <= x * TwoTo[t + 1]
    <3>1. y <= x
      BY <1>13, <2>1, <2>2
    <3>2. x \in Int /\ y \in Int /\ t + 1 \in 1 .. 24
      BY <1>3
    <3> QED
      BY <3>1, <3>2, ProductGrows, Zenon
  <2>4. x * T = (2 * c + 1) * H
    <3>1. PICK z \in Int : z = 2 * c + 1
      OBVIOUS
    <3>2. (z * w) * T = z * (w * T)
      OBVIOUS
    <3> QED
      BY <1>7, <2>1, <3>1, <3>2
  <2>5. PICK p \in Int, q \in Int : p = x * T /\ q = y * T
    OBVIOUS
  <2> QED
    BY <1>4, <1>10, <2>2, <2>3, <2>4, <2>5
<1>16. c <= B
  <2> SUFFICES ASSUME c > B PROVE FALSE
    OBVIOUS
  <2>1. U <= H
    <3>1. T >= 2
      BY <1>3, <1>4, PlaceIs, TwoToIs
    <3>2. w * 2 <= w * T
      BY <3>1
    <3> QED
      BY <1>6, <1>7, <3>2
  <2>2. PICK z \in Nat : z = 2 * c - 1 /\ z >= 2 * B + 1
    BY SMT
  <2>3. z * U <= z * H
    BY <2>1
  <2>4. (2 * B + 1) * U <= z * U
    BY <2>2
  <2>5. (2 * B + 1) * U = 2 * Lead + U
    BY <1>1
  <2>6. PICK p \in Int, q \in Int : p = z * U /\ q = z * H
    OBVIOUS
  <2> QED
    BY <1>2, <1>8, <1>14, <2>2, <2>3, <2>4, <2>5, <2>6
<1> QED
  BY <1>3, <1>7, <1>8, <1>12, <1>14, <1>15, <1>16

LEMMA SmallNearest ==
  ASSUME NEW f \in {Half, Triple}, NEW B \in Nat, NEW U \in Nat, FormatOf(f, B, U), B = 2 ^ f.bits,
         U = Unit(f), NEW v \in FloatNumbers,
         NEW e \in Int, e = v.e - (127 - f.bias), e \in -f.bits .. 0
  PROVE  Nearest(f, B, Small(f, v, 1 - e), v)
<1>1. PICK k : k = Small(f, v, 1 - e)
  OBVIOUS
<1>2. /\ f.bits \in Nat /\ f.bias \in Nat /\ f.max \in Nat /\ f.max > 30 /\ B \in {1024, 65536}
      /\ 255 - (127 - f.bias) > f.max
  BY FormatTable
<1>3. /\ v.s \in 0 .. 1 /\ v.e \in Nat /\ v.m \in Nat /\ v.m < Lead /\ Lead \in Nat
  BY FloatFields
<1>4. PICK t \in 1 .. f.bits + 1 : t = 1 - e
  BY <1>2
<1>5. PICK h : h = 23 - f.bits + t
  OBVIOUS
<1>6. PICK c : c = Shifted(f, v, t)
  OBVIOUS
<1>7. /\ h \in 1 .. 24 /\ c \in 0 .. B
      /\ (2 * c - 1) * TwoTo[h] <= Lead + v.m
      /\ Lead + v.m < (2 * c + 1) * TwoTo[h]
  BY <1>5, <1>6, ShiftedIs
<1>8. TwoTo[h] \in Nat \ {0} /\ h = SmallPlace(f, v)
  BY <1>2, <1>3, <1>4, <1>5, <1>7, TwoToType DEF SmallPlace
<1>9. k = [s |-> v.s, e |-> c \div B, m |-> c % B]
  BY <1>1, <1>4, <1>6 DEF Small
<1>10. /\ c \div B = IF c = B THEN 1 ELSE 0
       /\ c % B = IF c = B THEN 0 ELSE c
  <2>1. CASE B = 1024
    BY <1>7, <2>1, SMT
  <2>2. CASE B = 65536
    BY <1>7, <2>2, SMT
  <2> QED
    BY <1>2, <2>1, <2>2, SMT
<1>11. /\ k \in Kept(f, B) /\ k.s = v.s /\ k.e < f.max
       /\ k.e = IF c = B THEN 1 ELSE 0
       /\ k.m = IF c = B THEN 0 ELSE c
  <2>1. c \div B \in 0 .. f.max /\ c % B \in 0 .. B - 1
    BY <1>2, <1>7, <1>10
  <2> QED
    BY <1>2, <1>3, <1>9, <1>10, <2>1 DEF Kept
<1>12. Units(f, k) = c /\ Place(k) = 1
  BY <1>2, <1>7, <1>11, UnitsType DEF Place
<1>13. ~IsNaN(v, FloatMax)
  BY <1>2, <1>3, <1>4 DEF IsNaN, FloatMax
<1>14. ~AtMost(Middle(f, k), v)
  <2>1. PICK n \in Nat : n = HalfSteps(f, k, h) /\ n = (2 * c + 1) * TwoTo[h]
    BY <1>7, <1>8, <1>12 DEF HalfSteps
  <2>2. n > Lead + v.m
    BY <1>3, <1>7, <2>1
  <2>3. MiddleBy(f, k, v, n)
    BY <1>7, <1>8, <1>11, <1>12, <2>1, SmallMiddle
  <2> QED
    BY <2>2, <2>3, Zenon DEF MiddleBy
<1>15. ASSUME k.e # 0 \/ k.m # 0 PROVE AtMost(Middle(f, Before(f, k)), v)
  <2>1. PICK j : j = Before(f, k)
    OBVIOUS
  <2>2. /\ j \in Kept(f, B)
        /\ k.m > 0 => j.e = k.e /\ j.m = k.m - 1
        /\ k.m = 0 => j.e = k.e - 1 /\ j.m = B - 1
    BY <1>11, <1>15, <2>1, BeforeIs
  <2>3. j.e = 0 /\ j.m = c - 1
    BY <1>2, <1>7, <1>11, <1>15, <2>2
  <2>4. Units(f, j) = c - 1 /\ Place(j) = 1
    BY <2>2, <2>3, UnitsType DEF Place
  <2>5. c - 1 \in Nat
    <3>1. c # 0
      BY <1>2, <1>11, <1>15
    <3> QED
      BY <1>7, <3>1
  <2>6. PICK n \in Nat : n = HalfSteps(f, j, h) /\ n = (2 * c - 1) * TwoTo[h]
    <3>1. PICK z \in Nat : z = 2 * c - 1 /\ z = 2 * Units(f, j) + 1
      <4>1. 2 * c - 1 \in Nat
        BY <1>7, <2>5
      <4>2. 2 * c - 1 = 2 * (c - 1) + 1
        BY <1>7
      <4> QED
        BY <2>4, <4>1, <4>2
    <3> QED
      BY <1>8, <3>1 DEF HalfSteps
  <2>7. n <= Lead + v.m
    BY <1>3, <1>7, <2>6
  <2>8. MiddleBy(f, j, v, n)
    BY <1>7, <1>8, <2>2, <2>4, <2>6, SmallMiddle
  <2> QED
    BY <2>1, <2>7, <2>8, Zenon DEF MiddleBy
<1>16. IsNearest(f, k, v)
  BY <1>11, <1>14, <1>15, Zenon DEF IsNearest
<1> QED
  BY <1>1, <1>11, <1>13, <1>16, Zenon DEF Nearest

(* What float_to_half and float_to_triple make of a float.                 *)
LEMMA FromFloatNearest ==
  ASSUME NEW f \in {Half, Triple}, NEW B \in Nat, NEW U \in Nat, FormatOf(f, B, U), B = 2 ^ f.bits,
         U = Unit(f), NEW v \in FloatNumbers
  PROVE  Nearest(f, B, FromFloat(f, v), v)
<1>1. f.bits \in Nat /\ f.bias \in Nat /\ v.e \in Nat
  BY FormatTable, FloatFields
<1>2. PICK e \in Int : e = v.e - (127 - f.bias)
  BY <1>1
<1>3. CASE v.e = 255
  BY <1>2, <1>3, FromFloatIs, SpecialNearest
<1>4. CASE v.e # 255 /\ e > 0
  BY <1>2, <1>4, FromFloatIs, NormalNearest
<1>5. CASE e \in -f.bits .. 0
  BY <1>2, <1>5, FromFloatIs, SmallNearest
<1>6. CASE e < -f.bits
  BY <1>2, <1>6, FromFloatIs, TinyNearest
<1> QED
  BY <1>1, <1>2, <1>3, <1>4, <1>5, <1>6

-----------------------------------------------------------------------------
(* The numbers back as floats.  No mantissa spills into the exponent, so   *)
(* Or has nothing to do.                                                   *)
LEMMA OrNothing ==
  ASSUME NEW a
  PROVE  Or(a, 0) = a + 0
<1>1. ASSUME NEW k \in 0 .. 8 PROVE Bit(0, k) # 1
  <2>1. PICK p \in Nat \ {0} : p = TwoTo[k + 1]
    BY TwoToType
  <2>2. 2 ^ k = p
    BY <2>1, PowerOfTwo DEF Power
  <2>3. \/ p = 1 \/ p = 2 \/ p = 4 \/ p = 8 \/ p = 16 \/ p = 32 \/ p = 64 \/ p = 128 \/ p = 256
    BY <2>1, TwoToIs
  <2>4. (0 \div p) % 2 = 0
    BY <2>3
  <2> QED
    BY <2>2, <2>4 DEF Bit
<1>2. {k \in 0 .. 8 : Bit(0, k) = 1 /\ Bit(a, k) = 0} = {}
  BY <1>1
<1> DEFINE Element(s) == CHOOSE x \in s : TRUE
           Body(it) == [s \in SUBSET {} |-> IF s = {} THEN 0
                                            ELSE 2 ^ Element(s) + it[s \ {Element(s)}]]
<1>3. MapThenSumSet(LAMBDA k : 2 ^ k, {}) = (CHOOSE it : it = Body(it))[{}]
  BY DEF MapThenSumSet, MapThenFoldSet
<1>4. \E it : it = Body(it)
  <2>1. PICK it : it = [s \in SUBSET {} |-> 0]
    OBVIOUS
  <2>2. Body(it) = [s \in SUBSET {} |-> 0]
    <3>1. ASSUME NEW s \in SUBSET {}
          PROVE  (IF s = {} THEN 0 ELSE 2 ^ Element(s) + it[s \ {Element(s)}]) = 0
      <4>1. s = {}
        OBVIOUS
      <4> QED
        BY <4>1, Zenon
    <3> HIDE DEF Element
    <3> QED
      BY <3>1, Zenon
  <2> QED
    BY <2>1, <2>2
<1>5. PICK jt : jt = (CHOOSE it : it = Body(it)) /\ jt = Body(jt)
  BY <1>4
<1>6. jt[{}] = 0
  <2>1. {} \in SUBSET {}
    OBVIOUS
  <2> HIDE DEF Element
  <2> QED
    BY <1>5, <2>1, Zenon
<1>7. MapThenSumSet(LAMBDA k : 2 ^ k, {}) = 0
  BY <1>3, <1>5, <1>6
<1> QED
  BY <1>2, <1>7 DEF Or

(* A mantissa m of its own bits, and an exponent that fits.                *)
Sizes(f, B, U) == B = 2 ^ f.bits /\ U = Unit(f)

Fields(B, s, e, m) == s \in 0 .. 1 /\ e \in 0 .. 255 /\ m \in 0 .. B - 1

LEMMA AssembleIs ==
  ASSUME NEW f, NEW B \in Nat, NEW U \in Nat, FormatOf(f, B, U), Sizes(f, B, U),
         NEW s, NEW e, NEW m, Fields(B, s, e, m)
  PROVE  Assemble(f, s, e, m) = [s |-> s, e |-> e, m |-> m * U]
<1>. B = 2 ^ f.bits /\ U = Unit(f)
  BY DEF Sizes
<1>. s \in 0 .. 1 /\ e \in 0 .. 255 /\ m \in 0 .. B - 1
  BY DEF Fields
<1>1. m \div B = 0 /\ m % B = m
  <2>1. B \in {1024, 65536}
    BY FormatTable
  <2>2. CASE B = 1024
    BY <2>2, SMT
  <2>3. CASE B = 65536
    BY <2>3, SMT
  <2> QED
    BY <2>1, <2>2, <2>3, SMT
<1>2. (m \div B) % 512 = 0
  BY <1>1
<1>3. 0 \div 256 = 0
  OBVIOUS
<1>4. Or(s, 0) = s /\ Or(e, 0) = e
  <2>1. s + 0 = s /\ e + 0 = e
    OBVIOUS
  <2> QED
    BY <2>1, OrNothing
<1>5. e % 256 = e
  OBVIOUS
<1>6. PICK spill : spill = (m \div 2 ^ f.bits) % 512 /\ spill = 0
  BY <1>2
<1>7. Assemble(f, s, e, m) = [s |-> Or(s, spill \div 256), e |-> Or(e, spill) % 256,
                              m |-> (m % 2 ^ f.bits) * Unit(f)]
  BY <1>6, Zenon DEF Assemble
<1>8. Or(s, spill \div 256) = s
  BY <1>3, <1>4, <1>6
<1>9. Or(e, spill) % 256 = e
  BY <1>4, <1>5, <1>6
<1>10. (m % 2 ^ f.bits) * Unit(f) = m * U
  BY <1>1
<1> QED
  BY <1>7, <1>8, <1>9, <1>10, Zenon

(* A normal number.                                                        *)
LEMMA NormalMeaning ==
  ASSUME NEW f \in {Half, Triple}, NEW B \in Nat, NEW U \in Nat, FormatOf(f, B, U), B = 2 ^ f.bits,
         U = Unit(f), NEW k \in Kept(f, B), k.e # 0, k.e # f.max
  PROVE  ToFloat(f, k) = Meaning(f, k)
<1>1. f.bits \in {10, 16} /\ f.bias \in Nat /\ f.max \in Nat /\ B * U = Lead /\ B > 0
      /\ k.e + FloatBias - f.bias <= 255 /\ f.bias <= FloatBias
  <2>1. k.e \in Nat /\ k.e <= f.max
    BY UnitsType
  <2> QED
    BY <2>1, FormatTable DEF FormatOf, FloatBias
<1>2. k.s \in 0 .. 1 /\ k.e \in Nat /\ k.m \in 0 .. B - 1
  BY <1>1 DEF Kept
<1>3. ToFloat(f, k) = Assemble(f, k.s, k.e + FloatBias - f.bias, k.m)
  BY Zenon DEF ToFloat
<1>4. PICK e \in 0 .. 255 : e = k.e + FloatBias - f.bias
  <2>1. PICK n \in Nat, z \in Nat : n = k.e /\ z = f.bias
    BY <1>1, <1>2
  <2>2. n + FloatBias - z <= 255 /\ z <= FloatBias
    BY <1>1, <2>1
  <2>3. n + FloatBias - z \in 0 .. 255
    BY <2>2 DEF FloatBias
  <2> QED
    BY <2>1, <2>3
<1>5. ToFloat(f, k) = [s |-> k.s, e |-> e, m |-> k.m * U]
  <2>1. PICK s \in 0 .. 1, m \in 0 .. B - 1 : s = k.s /\ m = k.m
    BY <1>2
  <2>2. Assemble(f, s, e, m) = [s |-> s, e |-> e, m |-> m * U]
    <3>1. Sizes(f, B, U) /\ Fields(B, s, e, m)
      BY DEF Sizes, Fields
    <3> QED
      BY <3>1, AssembleIs
  <2> QED
    BY <1>3, <1>4, <2>1, <2>2
<1>6. Meaning(f, k) = AsFloat(k.s, Units(f, k), LastPlace(f, k))
  BY Zenon DEF Meaning
<1>7. Units(f, k) = B + k.m /\ LastPlace(f, k) = k.e - f.bias - f.bits
  BY UnitsType DEF Place
<1>8. PICK n \in Nat : n = B + k.m
  BY <1>2
<1>9. HasDigits(n, f.bits + 1, B, U)
  BY <1>1, <1>2, <1>8, FullDigits
<1>10. PICK x \in Int : x = k.e - f.bias - f.bits
  BY <1>1, <1>2
<1>11. AsFloat(k.s, n, x) = [s |-> k.s, e |-> f.bits + 1 + x + 126, m |-> (n - B) * U]
  BY <1>9, AsFloatIs
<1>12. f.bits + 1 + x + 126 = e /\ n - B = k.m
  BY <1>1, <1>2, <1>4, <1>8, <1>10 DEF FloatBias
<1> QED
  BY <1>5, <1>6, <1>7, <1>8, <1>10, <1>11, <1>12, Zenon

(* The shift i that Renormalized looks for.                                *)
Leads(m, r, i) == m * 2 ^ i \in 2 ^ r .. 2 ^ (r + 1) - 1

LEMMA LeadsIs ==
  ASSUME NEW m \in Nat, NEW i \in 0 .. 10, NEW p \in Nat, Power(i, p)
  PROVE  Leads(m, 10, i) <=> 1024 <= m * p /\ m * p < 2048
<1>1. 2 ^ 10 = 1024 /\ 2 ^ 11 = 2048
  BY TwoToIs, PowerOfTwo DEF Power
<1>2. PICK x \in Nat : x = m * p
  OBVIOUS
<1>3. 10 + 1 = 11 /\ 2048 - 1 = 2047
  OBVIOUS
<1>4. 2 ^ i = p
  BY PowerOfTwo
<1>5. Leads(m, 10, i) <=> x \in 1024 .. 2047
  BY <1>1, <1>2, <1>3, <1>4 DEF Leads
<1> QED
  BY <1>2, <1>5

(* A denormalized half is shifted until its leading 1 is at bit 10.        *)
LEMMA DenormalMeaning ==
  ASSUME NEW B \in Nat, NEW U \in Nat, FormatOf(Half, B, U), B = 2 ^ Half.bits,
         U = Unit(Half), NEW k \in Kept(Half, B), k.e = 0, k.m # 0
  PROVE  ToFloat(Half, k) = Meaning(Half, k)
<1>1. PICK f : f = Half
  OBVIOUS
<1>2. /\ f.bits = 10 /\ f.bias = 15 /\ f.max = 31 /\ f.renorm = 10 /\ B = 1024 /\ U = 8192
      /\ f \in {Half, Triple}
  <2>1. f.bits = 10 /\ f.bias = 15 /\ f.max = 31 /\ f.renorm = 10
    BY <1>1 DEF Half
  <2> QED
    BY <1>1, <2>1 DEF FormatOf
<1>3. k.s \in 0 .. 1 /\ k.m \in 1 .. 1023 /\ k.m > 0
  <2>1. k.s \in 0 .. 1 /\ k.m \in 0 .. 1023
    BY <1>1, <1>2 DEF Kept
  <2> QED
    BY <2>1
<1>4. PICK m \in Nat : m = k.m
  <2>1. k.m \in Nat
    BY <1>3
  <2> QED
    BY <2>1, Zenon
<1>fits. m < 1024 /\ m > 0
  BY <1>3, <1>4
<1>5. PICK b \in 1 .. 18, P \in Nat, Q \in Nat : HasDigits(m, b, P, Q)
  <2>1. InReach(m)
    BY <1>fits, SMT DEF InReach
  <2>2. Sized(m)
    BY <2>1, DigitsFound, Zenon
  <2> QED
    BY <2>2, Zenon DEF Sized
<1>6. b \in 1 .. 10 /\ P = TwoTo[b] /\ Q = TwoTo[25 - b] /\ P <= m /\ m < 2 * P /\ P * Q = Lead
  <2>1. Digits(b, P, Q) /\ P <= m /\ m < 2 * P
    BY <1>5 DEF HasDigits
  <2>2. P = TwoTo[b] /\ Q = TwoTo[25 - b]
    BY <2>1 DEF Digits
  <2>3. b <= 10
    <3>1. ASSUME b > 10 PROVE FALSE
      <4>1. 11 \in 1 .. 24 /\ b \in 1 .. 24 /\ TwoTo[10] = 512 /\ TwoTo[11] = 1024
        BY TwoToIs
      <4>2. 2 * TwoTo[10] <= TwoTo[b]
        BY <3>1, <4>1, TableGrows
      <4> QED
        BY <1>fits, <2>1, <2>2, <4>1, <4>2
    <3> QED
      BY <3>1
  <2> QED
    BY <2>1, <2>2, <2>3, DigitsProduct
<1>7. PICK j \in 1 .. 10 : j = 11 - b
  BY <1>6
<1>8. PICK J \in Nat \ {0} : J = TwoTo[j + 1] /\ 2 ^ j = J
  <2>1. j + 1 \in 1 .. 24 /\ j \in 0 .. 23
    BY <1>7
  <2>2. PICK p \in Nat \ {0} : p = TwoTo[j + 1]
    BY <2>1, TwoToType
  <2> QED
    BY <2>1, <2>2, PowerOfTwo DEF Power
<1>9. P * J = 1024 /\ 8192 * J = Q
  <2>1. \/ b = 1 \/ b = 2 \/ b = 3 \/ b = 4 \/ b = 5 \/ b = 6 \/ b = 7 \/ b = 8 \/ b = 9 \/ b = 10
    BY <1>6
  <2>2. j + 1 = 12 - b
    BY <1>6, <1>7
  <2> QED
    BY <1>6, <1>8, <2>1, <2>2, TwoToIs, SMT
<1>10. 1024 <= m * J /\ m * J < 2048
  <2>1. PICK x \in Int, y \in Int, z \in Int : x = m * J /\ y = P * J /\ z = (2 * P - 1) * J
    BY <1>5
  <2>2. P * J <= m * J /\ m * J <= (2 * P - 1) * J
    BY <1>5, <1>6
  <2>3. (2 * P - 1) * J = 2 * (P * J) - J
    BY <1>5
  <2>4. y <= x /\ x <= z /\ z = 2 * y - J /\ y = 1024
    BY <1>9, <2>1, <2>2, <2>3
  <2>5. 1024 <= x /\ x < 2048
    BY <2>4
  <2> QED
    BY <2>1, <2>5
<1>11. ASSUME NEW i \in 0 .. 10, Leads(m, 10, i) PROVE i = j
  <2>1. PICK I \in Nat \ {0} : I = TwoTo[i + 1]
    BY TwoToType
  <2>2. Power(i, I)
    BY <2>1 DEF Power
  <2>3. i + 1 \in 1 .. 24 /\ j + 1 \in 1 .. 24
    BY <1>7
  <2>4. i < j => 2 * I <= J
    BY <1>8, <2>1, <2>3, TableGrows
  <2>5. j < i => 2 * J <= I
    BY <1>8, <2>1, <2>3, TableGrows
  <2>6. PICK x \in Int, y \in Int : x = m * I /\ y = m * J
    BY <1>8
  <2>7. x \in 1024 .. 2047 /\ y \in 1024 .. 2047
    <3>1. 1024 <= m * I /\ m * I < 2048
      BY <1>11, <2>2, LeadsIs
    <3> QED
      BY <1>10, <2>6, <3>1
  <2>8. ~(2 * x <= y) /\ ~(2 * y <= x)
    BY <2>7
  <2>9. 2 * I <= J => 2 * x <= y
    <3>1. 2 * I <= J => m * (2 * I) <= m * J
      OBVIOUS
    <3>2. m * (2 * I) = 2 * (m * I)
      OBVIOUS
    <3> QED
      BY <2>6, <3>1, <3>2
  <2>10. 2 * J <= I => 2 * y <= x
    <3>1. 2 * J <= I => m * (2 * J) <= m * I
      OBVIOUS
    <3>2. m * (2 * J) = 2 * (m * J)
      OBVIOUS
    <3> QED
      BY <2>6, <3>1, <3>2
  <2> QED
    BY <2>4, <2>5, <2>8, <2>9, <2>10
<1>12. 2 ^ 10 = 1024 /\ 2 ^ 11 = 2048
  BY TwoToIs, PowerOfTwo DEF Power
<1>13. (CHOOSE i \in 0 .. f.renorm : Leads(m, f.renorm, i)) = j
  <2>1. Leads(m, 10, j)
    <3>1. j \in 0 .. 10 /\ Power(j, J)
      BY <1>8 DEF Power
    <3>2. Leads(m, 10, j) <=> 1024 <= m * J /\ m * J < 2048
      BY <3>1, LeadsIs
    <3> QED
      BY <1>10, <3>2
  <2>2. (CHOOSE i \in 0 .. 10 : Leads(m, 10, i)) = j
    BY <1>11, <2>1
  <2> QED
    BY <1>2, <2>2
<1>14. k.m % 2 ^ (f.renorm + 1) = m
  <2>1. m % 2048 = m
    BY <1>fits
  <2> QED
    BY <1>2, <1>4, <1>12, <2>1
<1>15. Renormalized(f, k) = Assemble(f, k.s, DenormalExponent(f, j), m * J - 1024)
  <2>1. PICK low : low = k.m % 2 ^ (f.renorm + 1) /\ low = m /\ low # 0
    BY <1>fits, <1>14
  <2>2. PICK z : z = (CHOOSE i \in 0 .. f.renorm : Leads(k.m % 2 ^ (f.renorm + 1), f.renorm, i))
    OBVIOUS
  <2>3. Renormalized(f, k) = Assemble(f, k.s, DenormalExponent(f, z), k.m * 2 ^ z - 2 ^ f.renorm)
    <3>1. k.m % 2 ^ (f.renorm + 1) # 0
      BY <2>1
    <3>2. z = (CHOOSE i \in 0 .. f.renorm :
                 (k.m % 2 ^ (f.renorm + 1)) * 2 ^ i \in 2 ^ f.renorm .. 2 ^ (f.renorm + 1) - 1)
      BY <2>2, Zenon DEF Leads
    <3> QED
      BY <3>1, <3>2, Zenon DEF Renormalized
  <2>4. z = j
    BY <1>13, <1>14, <2>2
  <2> QED
    BY <1>2, <1>4, <1>8, <1>12, <2>3, <2>4
<1>16. PICK e \in 0 .. 255 : e = DenormalExponent(f, j) /\ e = b + 102
  <2>1. FloatBias - f.bias + 1 - j = b + 102
    BY <1>2, <1>6, <1>7 DEF FloatBias
  <2> QED
    BY <1>6, <2>1 DEF DenormalExponent
<1>17. PICK r \in 0 .. B - 1 : r = m * J - 1024
  BY <1>2, <1>10
<1>18. Renormalized(f, k) = [s |-> k.s, e |-> e, m |-> r * U]
  <2>1. PICK s \in 0 .. 1 : s = k.s
    BY <1>3
  <2>2. FormatOf(f, B, U) /\ Sizes(f, B, U) /\ Fields(B, s, e, r)
    BY <1>1 DEF Sizes, Fields
  <2>3. Assemble(f, s, e, r) = [s |-> s, e |-> e, m |-> r * U]
    BY <2>2, AssembleIs
  <2> QED
    BY <1>15, <1>16, <1>17, <2>1, <2>3
<1>19. r * U = (m - P) * Q
  <2>1. r * 8192 = m * (8192 * J) - Lead
    BY <1>8, <1>17 DEF Lead
  <2>2. (m - P) * Q = m * Q - Lead
    <3>1. (m - P) * Q = m * Q - P * Q
      OBVIOUS
    <3>2. P * Q = Lead
      BY <1>6
    <3> QED
      BY <3>1, <3>2
  <2> QED
    BY <1>2, <1>9, <2>1, <2>2
<1>20. ToFloat(f, k) = Renormalized(f, k)
  <2>1. k.m > 0
    BY <1>3
  <2>2. k.e # f.max
    <3>1. f.max # 0
      BY <1>2
    <3> QED
      BY <3>1
  <2> QED
    BY <2>1, <2>2, Zenon DEF ToFloat
<1>21. Meaning(f, k) = [s |-> k.s, e |-> e, m |-> (m - P) * Q]
  <2>1. k.e # f.max /\ 1 - f.bias - f.bits = -24
    BY <1>2
  <2>2. Meaning(f, k) = AsFloat(k.s, Units(f, k), LastPlace(f, k))
    BY <2>1, Zenon DEF Meaning
  <2>3. Units(f, k) = m
    BY <1>4, Zenon DEF Units
  <2>4. PICK x \in Int : x = LastPlace(f, k) /\ x = -24
    BY <2>1 DEF LastPlace
  <2>5. AsFloat(k.s, m, x) = [s |-> k.s, e |-> b + x + 126, m |-> (m - P) * Q]
    BY <1>5, AsFloatIs
  <2>6. b + x + 126 = e
    BY <1>16, <2>4
  <2> QED
    BY <2>2, <2>3, <2>4, <2>5, <2>6
<1> QED
  BY <1>1, <1>18, <1>19, <1>20, <1>21

(* What half_to_float and triple_to_float make of a number that a file     *)
(* keeps: the float of the same value, denormalized triples apart.         *)
LEMMA ToFloatMeaning ==
  ASSUME NEW f \in {Half, Triple}, NEW B \in Nat, NEW U \in Nat, FormatOf(f, B, U), B = 2 ^ f.bits,
         U = Unit(f), NEW k \in Kept(f, B), f = Half \/ ~IsDenormal(k)
  PROVE  ToFloat(f, k) = Meaning(f, k)
<1>1. f.max \in Nat /\ f.max > 30 /\ k.m \in Nat /\ k.e \in Nat
  BY FormatTable, UnitsType
<1>2. CASE k.e = 0 /\ k.m = 0
  <2>1. k.e # f.max /\ ~(k.m > 0)
    BY <1>1, <1>2
  <2> QED
    BY <1>2, <2>1, Zenon DEF ToFloat, Meaning
<1>3. CASE k.e = f.max
  <2>1. k.e # 0
    BY <1>1, <1>3
  <2> QED
    BY <1>3, <2>1, Zenon DEF ToFloat, Meaning
<1>4. CASE k.e = 0 /\ k.m # 0
  <2>1. f = Half
    BY <1>1, <1>4 DEF IsDenormal
  <2> QED
    BY <1>4, <2>1, DenormalMeaning
<1>5. CASE k.e # 0 /\ k.e # f.max
  BY <1>5, NormalMeaning
<1> QED
  BY <1>2, <1>3, <1>4, <1>5

(* There and back: every float that float_to_half rounds to 16 bits is the *)
(* nearest number there, and half_to_float gives back what that number     *)
(* stands for.  float_to_triple and triple_to_float do so for 24 bits, but *)
(* for denormalized numbers.                                               *)
THEOREM ThereAndBack ==
  ASSUME NEW f \in {Half, Triple}, NEW v \in FloatNumbers
  PROVE  /\ f = Half => AsKept(f, ToFloat(f, FromFloat(f, v)), FromFloat(f, v), v)
         /\ f = Triple => \/ IsDenormal(FromFloat(f, v))
                          \/ AsKept(f, ToFloat(f, FromFloat(f, v)), FromFloat(f, v), v)
<1>1. PICK B \in Nat, U \in Nat : FormatOf(f, B, U) /\ B = 2 ^ f.bits /\ U = Unit(f)
  BY FormatFound
<1>2. PICK k : k = FromFloat(f, v)
  OBVIOUS
<1>3. Nearest(f, B, k, v)
  BY <1>1, <1>2, FromFloatNearest
<1>4. k \in Kept(f, B) /\ IF IsNaN(v, FloatMax) THEN IsNaN(k, f.max) ELSE IsNearest(f, k, v)
  BY <1>3, Zenon DEF Nearest
<1>5. f = Half \/ ~IsDenormal(k) => ToFloat(f, k) = Meaning(f, k)
  BY <1>1, <1>4, ToFloatMeaning
<1>6. f = Half \/ ~IsDenormal(k) => AsKept(f, ToFloat(f, k), k, v)
  BY <1>4, <1>5, Zenon DEF AsKept
<1> QED
  BY <1>2, <1>6, Zenon

-----------------------------------------------------------------------------
(* A directory d has the tags of a row of the table, and the row tells     *)
(* programs the type t.                                                    *)
AsTold(t) == IF t = "YCbCr" THEN "RGB" ELSE t
Looks(d, t) ==
  \E i \in 1 .. 23 : match_tiff_parms(d, TIFF_file_parms[i]) /\ t = AsTold(TIFF_file_parms[i].type)

(* What that leaves for the tags.                                          *)
Tells(d, t) ==
  \/ d.bits = 8 /\ d.format = "UINT" /\
       \/ d.samples = 1 /\ d.photo = "MINISBLACK" /\ t = "Gray"
       \/ d.samples = 3 /\ d.photo = "RGB"        /\ t = "RGB"
       \/ d.samples = 3 /\ d.photo = "YCBCR"      /\ t = "RGB"
       \/ d.samples = 1 /\ d.photo = "PALETTE"    /\ t = "Colormap"
       \/ d.samples = 4 /\ d.photo = "RGB"        /\ t = "RGBA"
  \/ d.samples = 3 /\ d.photo = "RGB" /\
       \/ d.bits = 16 /\ d.format = "UINT"   /\ t = "RGB16"
       \/ d.bits = 32 /\ d.format = "UINT"   /\ t = "RGB_int"
       \/ d.bits = 32 /\ d.format = "IEEEFP" /\ t = "RGBf"
       \/ d.bits = 16 /\ d.format = "IEEEFP" /\ t = "RGBf16"
       \/ d.bits = 24 /\ d.format = "IEEEFP" /\ t = "RGBf24"
  \/ d.bits = 32 /\ d.samples = 3 /\ d.photo = "MINISBLACK" /\ d.format = "IEEEFP" /\ t = "XYZ"
  \/ d.bits = 16 /\ d.format = "INT" /\
       \/ d.samples = 3 /\ d.photo = "LOGLUV" /\ t = "LogLuv"
       \/ d.samples = 1 /\ d.photo = "LOGL"   /\ t = "LogL"
  \/ d.bits = 32 /\ d.format = "IEEEFP" /\
       \/ d.samples = 3 /\ d.photo = "LOGLUV" /\ t = "LogLuv"
       \/ d.samples = 1 /\ d.photo = "LOGL"   /\ t = "LogL"
  \/ d.samples = 1 /\ d.photo = "MINISBLACK" /\
       \/ d.bits = 16 /\ d.format = "UINT"   /\ t = "Gray16"
       \/ d.bits = 16 /\ d.format = "INT"    /\ t = "Short"
       \/ d.bits = 32 /\ d.format = "UINT"   /\ t = "UInt"
       \/ d.bits = 32 /\ d.format = "INT"    /\ t = "Int"
       \/ d.bits = 32 /\ d.format = "IEEEFP" /\ t = "Float"
       \/ d.bits = 16 /\ d.format = "IEEEFP" /\ t = "Float16"
       \/ d.bits = 24 /\ d.format = "IEEEFP" /\ t = "Float24"
       \/ d.bits = 64 /\ d.format = "IEEEFP" /\ t = "Double"

LogTypes == {"LogLuv", "LogL"}

LEMMA TableLength == DOMAIN TIFF_file_parms = 1 .. 23 /\ Len(TIFF_file_parms) = 23
BY DEF TIFF_file_parms, Parms

LEMMA TableIs ==
  /\ TIFF_file_parms[1] = Parms(8, 1, "MINISBLACK", "UINT", "Gray")
  /\ TIFF_file_parms[2] = Parms(8, 3, "RGB", "UINT", "RGB")
  /\ TIFF_file_parms[3] = Parms(8, 1, "PALETTE", "UINT", "Colormap")
  /\ TIFF_file_parms[4] = Parms(8, 4, "RGB", "UINT", "RGBA")
  /\ TIFF_file_parms[5] = Parms(8, 3, "YCBCR", "UINT", "YCbCr")
  /\ TIFF_file_parms[6] = Parms(16, 3, "RGB", "UINT", "RGB16")
  /\ TIFF_file_parms[7] = Parms(32, 3, "RGB", "UINT", "RGB_int")
  /\ TIFF_file_parms[8] = Parms(32, 3, "RGB", "IEEEFP", "RGBf")
  /\ TIFF_file_parms[9] = Parms(16, 3, "RGB", "IEEEFP", "RGBf16")
  /\ TIFF_file_parms[10] = Parms(24, 3, "RGB", "IEEEFP", "RGBf24")
  /\ TIFF_file_parms[11] = Parms(32, 3, "MINISBLACK", "IEEEFP", "XYZ")
  /\ TIFF_file_parms[12] = Parms(16, 3, "LOGLUV", "INT", "LogLuv")
  /\ TIFF_file_parms[13] = Parms(16, 1, "LOGL", "INT", "LogL")
  /\ TIFF_file_parms[14] = Parms(16, 1, "MINISBLACK", "UINT", "Gray16")
  /\ TIFF_file_parms[15] = Parms(16, 1, "MINISBLACK", "INT", "Short")
  /\ TIFF_file_parms[16] = Parms(32, 1, "MINISBLACK", "UINT", "UInt")
  /\ TIFF_file_parms[17] = Parms(32, 1, "MINISBLACK", "INT", "Int")
  /\ TIFF_file_parms[18] = Parms(32, 1, "MINISBLACK", "IEEEFP", "Float")
  /\ TIFF_file_parms[19] = Parms(16, 1, "MINISBLACK", "IEEEFP", "Float16")
  /\ TIFF_file_parms[20] = Parms(24, 1, "MINISBLACK", "IEEEFP", "Float24")
  /\ TIFF_file_parms[21] = Parms(64, 1, "MINISBLACK", "IEEEFP", "Double")
  /\ TIFF_file_parms[22] = Parms(32, 3, "LOGLUV", "IEEEFP", "LogLuv")
  /\ TIFF_file_parms[23] = Parms(32, 1, "LOGL", "IEEEFP", "LogL")
BY DEF TIFF_file_parms

LEMMA ParmsIs ==
  ASSUME NEW b, NEW s, NEW p, NEW f, NEW t
  PROVE  /\ Parms(b, s, p, f, t).bits = b /\ Parms(b, s, p, f, t).samples = s
         /\ Parms(b, s, p, f, t).photo = p /\ Parms(b, s, p, f, t).format = f
         /\ Parms(b, s, p, f, t).type = t
BY DEF Parms

(* Row i of the table.                                                     *)
RowOK(p, i) ==
  /\ Tells(p, AsTold(p.type))
  /\ p.photo = "YCBCR" <=> p.type = "YCbCr"
  /\ p.type \in LogTypes /\ i < 20 => p.bits = 16 /\ p.format = "INT"

LEMMA TableRow ==
  ASSUME NEW i \in 1 .. 23
  PROVE  RowOK(TIFF_file_parms[i], i)
<1>1. RowOK(TIFF_file_parms[1], 1)
  BY TableIs, ParmsIs DEF RowOK, Tells, AsTold, LogTypes
<1>2. RowOK(TIFF_file_parms[2], 2)
  BY TableIs, ParmsIs DEF RowOK, Tells, AsTold, LogTypes
<1>3. RowOK(TIFF_file_parms[3], 3)
  BY TableIs, ParmsIs DEF RowOK, Tells, AsTold, LogTypes
<1>4. RowOK(TIFF_file_parms[4], 4)
  BY TableIs, ParmsIs DEF RowOK, Tells, AsTold, LogTypes
<1>5. RowOK(TIFF_file_parms[5], 5)
  BY TableIs, ParmsIs DEF RowOK, Tells, AsTold, LogTypes
<1>6. RowOK(TIFF_file_parms[6], 6)
  BY TableIs, ParmsIs DEF RowOK, Tells, AsTold, LogTypes
<1>7. RowOK(TIFF_file_parms[7], 7)
  BY TableIs, ParmsIs DEF RowOK, Tells, AsTold, LogTypes
<1>8. RowOK(TIFF_file_parms[8], 8)
  BY TableIs, ParmsIs DEF RowOK, Tells, AsTold, LogTypes
<1>9. RowOK(TIFF_file_parms[9], 9)
  BY TableIs, ParmsIs DEF RowOK, Tells, AsTold, LogTypes
<1>10. RowOK(TIFF_file_parms[10], 10)
  BY TableIs, ParmsIs DEF RowOK, Tells, AsTold, LogTypes
<1>11. RowOK(TIFF_file_parms[11], 11)
  BY TableIs, ParmsIs DEF RowOK, Tells, AsTold, LogTypes
<1>12. RowOK(TIFF_file_parms[12], 12)
  BY TableIs, ParmsIs DEF RowOK, Tells, AsTold, LogTypes
<1>13. RowOK(TIFF_file_parms[13], 13)
  BY TableIs, ParmsIs DEF RowOK, Tells, AsTold, LogTypes
<1>14. RowOK(TIFF_file_parms[14], 14)
  BY TableIs, ParmsIs DEF RowOK, Tells, AsTold, LogTypes
<1>15. RowOK(TIFF_file_parms[15], 15)
  BY TableIs, ParmsIs DEF RowOK, Tells, AsTold, LogTypes
<1>16. RowOK(TIFF_file_parms[16], 16)
  BY TableIs, ParmsIs DEF RowOK, Tells, AsTold, LogTypes
<1>17. RowOK(TIFF_file_parms[17], 17)
  BY TableIs, ParmsIs DEF RowOK, Tells, AsTold, LogTypes
<1>18. RowOK(TIFF_file_parms[18], 18)
  BY TableIs, ParmsIs DEF RowOK, Tells, AsTold, LogTypes
<1>19. RowOK(TIFF_file_parms[19], 19)
  BY TableIs, ParmsIs DEF RowOK, Tells, AsTold, LogTypes
<1>20. RowOK(TIFF_file_parms[20], 20)
  BY TableIs, ParmsIs DEF RowOK, Tells, AsTold, LogTypes
<1>21. RowOK(TIFF_file_parms[21], 21)
  BY TableIs, ParmsIs DEF RowOK, Tells, AsTold, LogTypes
<1>22. RowOK(TIFF_file_parms[22], 22)
  BY TableIs, ParmsIs DEF RowOK, Tells, AsTold, LogTypes
<1>23. RowOK(TIFF_file_parms[23], 23)
  BY TableIs, ParmsIs DEF RowOK, Tells, AsTold, LogTypes
<1>24. \/ i = 1 \/ i = 2 \/ i = 3 \/ i = 4 \/ i = 5 \/ i = 6 \/ i = 7 \/ i = 8 \/ i = 9
       \/ i = 10 \/ i = 11 \/ i = 12 \/ i = 13 \/ i = 14 \/ i = 15 \/ i = 16 \/ i = 17
       \/ i = 18 \/ i = 19 \/ i = 20 \/ i = 21 \/ i = 22 \/ i = 23
  OBVIOUS
<1> QED
  BY <1>1, <1>2, <1>3, <1>4, <1>5, <1>6, <1>7, <1>8, <1>9, <1>10, <1>11, <1>12, <1>13, <1>14,
     <1>15, <1>16, <1>17, <1>18, <1>19, <1>20, <1>21, <1>22, <1>23, <1>24

LEMMA MatchIs ==
  ASSUME NEW d, NEW p, match_tiff_parms(d, p)
  PROVE  d.bits = p.bits /\ d.samples = p.samples /\ d.photo = p.photo /\ d.format = p.format
BY DEF match_tiff_parms

LEMMA RowTells ==
  ASSUME NEW d, NEW p, NEW t, Tells(p, t), match_tiff_parms(d, p)
  PROVE  Tells(d, t)
<1>1. d.bits = p.bits /\ d.samples = p.samples /\ d.photo = p.photo /\ d.format = p.format
  BY MatchIs
<1> QED
  BY <1>1 DEF Tells

LEMMA LooksTells ==
  ASSUME NEW d, NEW t, Looks(d, t)
  PROVE  Tells(d, t)
<1>1. PICK i \in 1 .. 23 : match_tiff_parms(d, TIFF_file_parms[i])
                           /\ t = AsTold(TIFF_file_parms[i].type)
  BY DEF Looks
<1> QED
  BY <1>1, TableRow, RowTells DEF RowOK

LEMMA OneType ==
  ASSUME NEW d, NEW t, NEW u, Tells(d, t), Tells(d, u)
  PROVE  t = u
BY DEF Tells

(* The first of the rows asked for.                                        *)
LEMMA FirstOf ==
  ASSUME NEW I \in SUBSET (1 .. 23), I # {}
  PROVE  Min(I) \in I /\ \A i \in I : Min(I) <= i
<1>2. I \subseteq Int
  OBVIOUS
<1>3. IsFiniteSet(1 .. 23)
  BY 1 \in Int, 23 \in Int, FS_Interval
<1>4. IsFiniteSet(I)
  BY <1>3, FS_Subset
<1>5. \E i \in I : \A k \in I : i <= k
  BY <1>2, <1>4, SmallestOf
<1> QED
  BY <1>5 DEF Min

LEMMA LooksType ==
  ASSUME NEW d, NEW t, Looks(d, t)
  PROVE  TT_file_type(d) = t
<1> DEFINE I == {i \in 1 .. Len(TIFF_file_parms) : match_tiff_parms(d, TIFF_file_parms[i])}
           i == SelectInSeq(TIFF_file_parms, LAMBDA p : match_tiff_parms(d, p))
<1>1. I \in SUBSET (1 .. 23) /\ I # {}
  BY TableLength DEF Looks
<1>2. i = Min(I)
  BY <1>1 DEF SelectInSeq
<1>3. i \in I
  BY <1>1, <1>2, FirstOf
<1>4. i \in 1 .. 23 /\ match_tiff_parms(d, TIFF_file_parms[i])
  BY <1>1, <1>3
<1>5. AsTold(TIFF_file_parms[i].type) = t
  BY <1>4, TableRow, RowTells, LooksTells, OneType DEF RowOK
<1>6. TT_file_type(d) = AsTold(TIFF_file_parms[i].type)
  BY <1>4 DEF TT_file_type, AsTold
<1> QED
  BY <1>5, <1>6

(* The tags a file is created with.                                        *)
LEMMA ParmsOfType ==
  ASSUME NEW t \in Creatable, NEW p, p = TT_type2parms(t)
  PROVE  /\ Looks(p, t) /\ p.photo # "YCBCR"
         /\ t \in LogTypes => p.bits = 16 /\ p.format = "INT"
<1> DEFINE I == {i \in 1 .. Len(TIFF_file_parms) : TIFF_file_parms[i].type = t}
           i == SelectInSeq(TIFF_file_parms, LAMBDA q : q.type = t)
<1>1. I \in SUBSET (1 .. 23) /\ I # {} /\ t # "YCbCr"
  BY TableLength DEF Creatable
<1>2. i = Min(I)
  BY <1>1 DEF SelectInSeq
<1>3. i \in I /\ \A j \in I : i <= j
  BY <1>1, <1>2, FirstOf
<1>4. i \in 1 .. 23 /\ p = TIFF_file_parms[i] /\ p.type = t
  BY <1>1, <1>3 DEF TT_type2parms
<1>5. RowOK(p, i) /\ AsTold(p.type) = t
  BY <1>1, <1>4, TableRow DEF AsTold
<1>6. t \in LogTypes => i < 20
  <2>1. TIFF_file_parms[12].type = "LogLuv" /\ TIFF_file_parms[13].type = "LogL"
    BY TableIs, ParmsIs
  <2>2. t \in LogTypes => \E j \in I : j < 14
    BY <2>1, TableLength DEF LogTypes
  <2>3. I \subseteq Int /\ i \in Int
    BY <1>1, <1>4
  <2> HIDE DEF I, i
  <2>4. ASSUME t \in LogTypes PROVE i < 20
    <3>1. PICK j \in I : j < 14
      BY <2>2, <2>4, Zenon
    <3>2. i <= j /\ j \in Int
      BY <1>3, <2>3
    <3> QED
      BY <2>3, <3>1, <3>2
  <2> QED
    BY <2>4, Zenon
<1>7. match_tiff_parms(p, TIFF_file_parms[i])
  BY <1>4 DEF match_tiff_parms
<1> QED
  BY <1>1, <1>4, <1>5, <1>6, <1>7 DEF RowOK, Looks

LEMMA SameSamples ==
  ASSUME NEW d, NEW p, NEW t, Tells(d, t), Tells(p, t)
  PROVE  d.samples = p.samples /\ d.samples \in {1, 3, 4}
BY DEF Tells

(* The types whose rows are converted.                                     *)
SmallTypes == {"Float16", "Float24", "RGBf16", "RGBf24"}

(* Changes of the tags that keep the type: SetLogFormat, LogLuvClose and   *)
(* YCBCR.                                                                  *)
SameTagsAs(e, p) == e.bits = p.bits /\ e.samples = p.samples /\ e.photo = p.photo /\ e.format = p.format

LEMMA LooksLikeRow ==
  ASSUME NEW e, NEW t, NEW i \in 1 .. 23, SameTagsAs(e, TIFF_file_parms[i]),
         t = AsTold(TIFF_file_parms[i].type)
  PROVE  Looks(e, t)
<1>1. match_tiff_parms(e, TIFF_file_parms[i])
  BY DEF match_tiff_parms, SameTagsAs
<1> QED
  BY <1>1 DEF Looks

LEMMA LooksAgain ==
  ASSUME NEW d, NEW e, NEW t, Looks(d, t), SameTagsAs(e, d)
  PROVE  Looks(e, t)
<1>1. PICK i \in 1 .. 23 : match_tiff_parms(d, TIFF_file_parms[i])
                           /\ t = AsTold(TIFF_file_parms[i].type)
  BY DEF Looks
<1>2. SameTagsAs(e, TIFF_file_parms[i])
  BY <1>1, MatchIs DEF SameTagsAs
<1> QED
  BY <1>1, <1>2, LooksLikeRow

LogAs(e, d, bits, format) ==
  e.bits = bits /\ e.format = format /\ e.samples = d.samples /\ e.photo = d.photo

LEMMA LooksLog ==
  ASSUME NEW d, NEW e, NEW t \in LogTypes, Looks(d, t),
         LogAs(e, d, 16, "INT") \/ LogAs(e, d, 32, "IEEEFP")
  PROVE  Looks(e, t)
<1>1. \/ t = "LogLuv" /\ d.samples = 3 /\ d.photo = "LOGLUV"
      \/ t = "LogL" /\ d.samples = 1 /\ d.photo = "LOGL"
  BY LooksTells DEF Tells, LogTypes
<1>2. \/ t = AsTold(TIFF_file_parms[12].type) /\ SameTagsAs(e, TIFF_file_parms[12])
      \/ t = AsTold(TIFF_file_parms[22].type) /\ SameTagsAs(e, TIFF_file_parms[22])
      \/ t = AsTold(TIFF_file_parms[13].type) /\ SameTagsAs(e, TIFF_file_parms[13])
      \/ t = AsTold(TIFF_file_parms[23].type) /\ SameTagsAs(e, TIFF_file_parms[23])
  BY <1>1, TableIs, ParmsIs DEF SameTagsAs, LogAs, AsTold
<1> QED
  BY <1>2, LooksLikeRow

LEMMA LooksYCbCr ==
  ASSUME NEW d, NEW e, NEW t, Looks(d, t), t = "RGB", e.photo = "YCBCR", e.bits = d.bits,
         e.samples = d.samples, e.format = d.format
  PROVE  Looks(e, t)
<1>1. d.bits = 8 /\ d.samples = 3 /\ d.format = "UINT"
  BY LooksTells DEF Tells
<1>2. SameTagsAs(e, TIFF_file_parms[5]) /\ t = AsTold(TIFF_file_parms[5].type)
  BY <1>1, TableIs, ParmsIs DEF SameTagsAs, AsTold
<1> QED
  BY <1>2, LooksLikeRow

(* Bytes of a row: c bits a pixel in the file, p bytes a pixel in memory.  *)
LEMMA RowBytes ==
  ASSUME NEW b \in Nat, NEW s \in Nat, NEW p \in Nat, NEW w \in Nat, b * s <= 8 * p
  PROVE  (b * s * w + 7) \div 8 \in Nat /\ (b * s * w + 7) \div 8 <= p * w
<1>1. PICK c \in Nat : c = b * s
  OBVIOUS
<1>2. c * w <= (8 * p) * w
  BY <1>1
<1>3. (8 * p) * w = 8 * (p * w)
  OBVIOUS
<1>4. PICK x \in Nat, y \in Nat : x = c * w /\ y = p * w
  BY <1>1
<1>5. x <= 8 * y
  BY <1>2, <1>3, <1>4
<1>6. (x + 7) \div 8 \in Nat /\ (x + 7) \div 8 <= y
  BY <1>5
<1> QED
  BY <1>1, <1>4, <1>6

(* Bytes of a row that is not empty, and rows of a strip.                  *)
LEMMA SizeIs ==
  ASSUME NEW b \in {8, 16, 24, 32, 64}, NEW s \in {1, 3, 4}, NEW w \in Nat, w > 0
  PROVE  (b * s * w + 7) \div 8 \in Nat /\ (b * s * w + 7) \div 8 > 0
<1>1. PICK c \in Nat : c = b * s
  OBVIOUS
<1>2. c >= 8
  BY <1>1
<1>3. PICK x \in Nat : x = c * w
  OBVIOUS
<1>4. x >= 8
  BY <1>2, <1>3
<1> QED
  BY <1>1, <1>3, <1>4

LEMMA StripRows ==
  ASSUME NEW size \in Nat, size > 0, NEW strip \in Nat, NEW n,
         n = IF size <= strip THEN strip \div size ELSE 1
  PROVE  n \in Nat /\ n > 0
<1>1. CASE size <= strip
  <2>1. PICK q : q = strip \div size
    OBVIOUS
  <2>2. q \in Int /\ strip < (q + 1) * size /\ q * size <= strip
    BY <2>1
  <2>3. q >= 1
    <3>1. CASE q <= 0
      <4>1. (q + 1) * size <= size
        BY <2>2, <3>1
      <4> QED
        BY <1>1, <2>2, <4>1
    <3> QED
      BY <2>2, <3>1
  <2> QED
    BY <1>1, <2>1, <2>2, <2>3
<1>2. CASE ~(size <= strip)
  BY <1>2
<1> QED
  BY <1>1, <1>2

-----------------------------------------------------------------------------
(* The third part: what is true of a file at all times.  Its record d on   *)
(* disk, its handle h and what the program meant, g, belong together.      *)
DirFields    == {"bits", "samples", "photo", "format", "width", "comp", "pred", "alpha", "desc",
                 "stonits", "exif"}
HandleFields == {"mode", "dir", "datafmt", "colormode", "rows", "use"}
GivenFields  == {"mode", "type", "width", "start", "by", "jpeg", "packed", "desc", "focal", "stonits", "alpha"}

(* A directory tells the type and the width, and its tags agree with each  *)
(* other: a codec or a predictor is set only where it can encode.          *)
DirOK(d, g) ==
  /\ DOMAIN d = DirFields
  /\ Looks(d, g.type) /\ d.width = g.width
  /\ d.comp = "JPEG" => g.jpeg
  /\ d.comp # "none" => g.packed
  /\ d.comp = "SGILOG" => g.type \in LogTypes /\ d.pred = "none"
  /\ d.pred = "HORIZONTAL" => d.bits \in {8, 16, 32}
  /\ d.pred = "FLOATINGPOINT" => d.format = "IEEEFP"
  /\ d.photo = "YCBCR" => g.jpeg

SameTags(d, g) ==
  /\ d.desc = g.desc /\ d.stonits = g.stonits /\ d.alpha = g.alpha
  /\ IF g.focal = Nothing THEN d.exif = 0 ELSE d.exif = 1

FocalOK(d, g) == g.focal # Nothing => g.focal[1] \in Nat /\ d.exif = <<Short(g.focal[1])>>

(* The type as TT_WRITE sees it.                                           *)
AsProgram(t) == CASE t = "LogLuv" -> "XYZ" [] t = "LogL" -> "Float" [] OTHER -> t

(* The routine that wrote the rows was one for the type.                   *)
ByOK(by, t) ==
  \/ by = Nothing
  \/ \E k \in WriteKinds : by = <<"write", k>> /\ AsProgram(t) = TransferCode[k]
  \/ by = <<"write", "float">> /\ t \in {"Float", "Float16", "Float24"}
  \/ by = <<"write", "RGBf">> /\ t \in {"RGBf", "RGBf16", "RGBf24"}
  \/ \E k \in ImageKinds : by = <<"to_file", k>> /\ t = ImageToCode[k]

MadeOK(g) ==
  /\ DOMAIN g = GivenFields /\ g.mode = "made"
  /\ g.type \in Creatable /\ g.width \in Nat /\ g.width > 0 /\ g.start \in Nat
  /\ ByOK(g.by, g.type)

(* Row r as it is kept, and how it may be coded.                           *)
Codings == {"plain", "log", "ycc"}
KeptRow(t, x) ==
  CASE t = "Float16" -> convert_float_32_16(x)
    [] t = "Float24" -> convert_float_32_24(x)
    [] t = "RGBf16"  -> convert_RGB_float_32_16(x)
    [] t = "RGBf24"  -> convert_RGB_float_32_24(x)
    [] OTHER         -> x
ImageRow(g, r) == Image(g.width, TT_type2parms(g.type).samples, g.start)[r]
Row(g, r, c)   == [samples |-> KeptRow(g.type, ImageRow(g, r)), coded |-> c]
RowIs(s, r, comp, g) ==
  \E c \in Codings : /\ s = Row(g, r, c)
                     /\ c = "log" => comp = "SGILOG"
                     /\ c = "ycc" => g.jpeg /\ g.type = "RGB"
KeptRows(g) == {Row(g, r, c) : r \in 1 .. Height, c \in Codings}
RowsOK(rows, comp, g) ==
  rows \in Seq(KeptRows(g)) /\ \A r \in 1 .. Len(rows) : RowIs(rows[r], r, comp, g)

DiskOK(d, g)    == DirOK(d.dir, g) /\ Len(d.rows) = Height
Unmade(d, h, g) == g = None /\ h = None /\ d.dir = None /\ d.rows = Nothing
Writing(d, h, g) ==
  /\ DOMAIN h = HandleFields /\ h.mode = "w" /\ DirOK(h.dir, g) /\ SameTags(h.dir, g)
  /\ h.rows = Len(d.rows) /\ h.rows <= Height /\ RowsOK(d.rows, h.dir.comp, g)
  /\ d.dir # None => DiskOK(d, g)
  /\ FocalOK(d, g)
Complete(d, g) ==
  DiskOK(d, g) /\ RowsOK(d.rows, d.dir.comp, g) /\ SameTags(d.dir, g) /\ FocalOK(d, g)
Reading(d, h, g) ==
  /\ Complete(d, g)
  /\ DOMAIN h = HandleFields /\ h.mode = "r" /\ DirOK(h.dir, g) /\ SameTags(h.dir, g)
  /\ h.dir.comp = d.dir.comp
  /\ h.use = "rows" /\ h.dir.comp = "SGILOG" => h.datafmt = "FLOAT"
FileOK(d, h, g) ==
  /\ DOMAIN d = {"dir", "rows", "exif"}
  /\ \/ Unmade(d, h, g)
     \/ MadeOK(g) /\ (Writing(d, h, g) \/ (h = None /\ Complete(d, g)) \/ Reading(d, h, g))

Each(x) == DOMAIN x = Files
FilesOK(D, H, G) ==
  Each(D) /\ Each(H) /\ Each(G) /\ \A f \in Files : FileOK(D[f], H[f], G[f])

BufferOK(b) == DOMAIN b = {"size", "old"} /\ b.size \in Nat /\ b.old \in Int /\ b.old <= b.size
Routines == {"float_read", "RGBf_read", "float_write", "RGBf_write"}
BuffersOK(B) == DOMAIN B = Routines /\ \A b \in Routines : BufferOK(B[b])

(* What the last call reported.                                            *)
RowBack(row, kept, image, t) ==
  /\ row.coded = "plain" /\ Len(row.samples) = Len(image)
  /\ \A i \in DOMAIN image : AsWritten(t, row.samples[i], kept.samples[i], image[i])
Fit(copied) == \A c \in copied : c.bytes <= c.room
AlphaIs(g, a) == g.alpha = a
FocalBack(g, value) ==
  IF g.focal = Nothing THEN value = NO_TIFF_35MM_EQUIV
  ELSE g.focal[1] < 32768 => value = g.focal[1]
TagBack(name, value, g) ==
  /\ name = "desc"    => value = g.desc
  /\ name = "stonits" => value = g.stonits
  /\ name = "focal"   => FocalBack(g, value)
  /\ name \notin {"desc", "stonits", "focal"} => value = AlphaIs(g, name)
Reads(call, kind) ==
  CASE call = "read"                  -> {<<"write", kind>>}
    [] call \in {"image", "filename"} -> {<<"to_file", kind>>}
    [] OTHER                          -> {}
Refused(call, kind, why, g) ==
  /\ why = "type" => g.by \notin Reads(call, kind) \ {<<"to_file", "XYZ">>}
  /\ why = "libtiff" => g.jpeg /\ g.type # "Gray"
Jumped(g, row, after) == g.packed /\ row # 1 /\ (row - 1 \in after => row \in after)
ReportOK(x, D, G) ==
  /\ x.is = "rows" => /\ \A r \in DOMAIN x.rows :
                           RowBack(x.rows[r], D[x.file].rows[r], ImageRow(G[x.file], r),
                                   G[x.file].type)
                      /\ Fit(x.copied)
  /\ x.is = "tag"  => TagBack(x.name, x.value, G[x.file])
  /\ x.is = "exit" => /\ Refused(x.call, x.kind, x.why, G[x.file])
                      /\ x.why = "seek" => Jumped(G[x.file], x.row, x.after)

(* A file that is read stands after the last of the rows just read.        *)
RowPoised(x, H) ==
  x.is = "rows" =>
    \A f \in Files : H[f].mode = "r" =>
      \A r \in DOMAIN x.rows : r + 1 \in DOMAIN x.rows \/ H[f].rows = r

IInv ==
  /\ FilesOK(disk, handle, given) /\ BuffersOK(buffer)
  /\ ReportOK(result, disk, given) /\ RowPoised(result, handle)

LEMMA NoneClosed == None.mode = "closed"
BY DEF None

(* The properties are parts of the invariant.                              *)
LEMMA TypeOfFile ==
  ASSUME NEW d, NEW h, NEW g, FileOK(d, h, g)
  PROVE  /\ h.mode \in {"closed", "r", "w"}
         /\ h # None => TT_file_type(h.dir) = g.type
         /\ d.dir # None => /\ Len(d.rows) = Height /\ TT_file_type(d.dir) = g.type
                            /\ d.dir.width = g.width
<1>1. CASE Unmade(d, h, g)
  BY <1>1, NoneClosed DEF Unmade
<1>2. CASE MadeOK(g) /\ Writing(d, h, g)
  BY <1>2, LooksType DEF Writing, DirOK, DiskOK
<1>3. CASE MadeOK(g) /\ h = None /\ Complete(d, g)
  BY <1>3, LooksType, NoneClosed DEF Complete, DirOK, DiskOK
<1>4. CASE MadeOK(g) /\ Reading(d, h, g)
  BY <1>4, LooksType DEF Reading, Complete, DirOK, DiskOK
<1> QED
  BY <1>1, <1>2, <1>3, <1>4 DEF FileOK

LEMMA IInvTypeOK == IInv => TypeOK
<1> SUFFICES ASSUME IInv PROVE TypeOK
  OBVIOUS
<1>1. \A f \in Files : FileOK(disk[f], handle[f], given[f])
  BY DEF IInv, FilesOK
<1>2. \A b \in DOMAIN buffer : buffer[b].size \in Nat /\ buffer[b].old \in Int
  BY DEF IInv, BuffersOK, BufferOK
<1> QED
  BY <1>1, <1>2, TypeOfFile DEF TypeOK

LEMMA IInvRowsReadBack == IInv => RowsReadBack
BY DEF IInv, ReportOK, RowsReadBack, RowBack, ImageRow

LEMMA IInvRowsFit == IInv => RowsFit
BY DEF IInv, ReportOK, RowsFit, Fit

LEMMA IInvTagsReadBack == IInv => TagsReadBack
<1> SUFFICES ASSUME IInv, result.is = "tag" PROVE TagsReadBack
  BY DEF TagsReadBack
<1>1. TagBack(result.name, result.value, given[result.file])
  BY DEF IInv, ReportOK
<1>2. CASE result.name = "desc"
  BY <1>1, <1>2 DEF TagsReadBack, TagBack, FocalBack
<1>3. CASE result.name = "stonits"
  BY <1>1, <1>3 DEF TagsReadBack, TagBack, FocalBack
<1>4. CASE result.name = "focal"
  BY <1>1, <1>4 DEF TagsReadBack, TagBack, FocalBack
<1>5. CASE result.name \notin {"desc", "stonits", "focal"}
  BY <1>1, <1>5 DEF TagsReadBack, TagBack, AlphaIs, FocalBack
<1> QED
  BY <1>2, <1>3, <1>4, <1>5

LEMMA IInvReadAsWritten == IInv => ReadAsWritten
BY Zenon DEF IInv, ReportOK, ReadAsWritten, Refused, Reads, Jumped

LEMMA InitIInv == Init => IInv
<1> SUFFICES ASSUME Init PROVE IInv
  OBVIOUS
<1>1. FilesOK(disk, handle, given)
  BY DEF Init, FilesOK, Each, FileOK, Unmade
<1>2. BuffersOK(buffer)
  BY DEF Init, BuffersOK, BufferOK, Routines
<1>3. ReportOK(result, disk, given) /\ RowPoised(result, handle)
  BY DEF Init, ReportOK, RowPoised, Done
<1> QED
  BY <1>1, <1>2, <1>3 DEF IInv

-----------------------------------------------------------------------------
(* What changes one file leaves the others alone.                          *)
Others(f, X, Y) == Each(Y) /\ \A x \in Files \ {f} : Y[x] = X[x]

LEMMA OneFile ==
  ASSUME NEW f \in Files, NEW D, NEW H, NEW G, NEW D2, NEW H2, NEW G2, FilesOK(D, H, G),
         Others(f, D, D2), Others(f, H, H2), Others(f, G, G2), FileOK(D2[f], H2[f], G2[f])
  PROVE  FilesOK(D2, H2, G2)
<1>1. ASSUME NEW x \in Files, x # f PROVE FileOK(D2[x], H2[x], G2[x])
  BY <1>1 DEF FilesOK, Others
<1> QED
  BY <1>1 DEF FilesOK, Others

(* The routines that report nothing.                                       *)
LEMMA DoneOK ==
  ASSUME NEW D, NEW H, NEW G, NEW x, x = Done
  PROVE  ReportOK(x, D, G) /\ RowPoised(x, H)
BY DEF ReportOK, RowPoised, Done

(* Fatal errors.                                                           *)
LEMMA StepOK ==
  ASSUME IInv, NEW f \in Files, Others(f, disk, disk'), Others(f, handle, handle'),
         Others(f, given, given'), FileOK(disk'[f], handle'[f], given'[f]), BuffersOK(buffer'),
         ReportOK(result', disk', given'), RowPoised(result', handle')
  PROVE  IInv'
<1>1. FilesOK(disk, handle, given)
  BY DEF IInv
<1>2. FilesOK(disk', handle', given')
  BY <1>1, OneFile
<1> QED
  BY <1>2 DEF IInv

LEMMA ExitOK ==
  ASSUME IInv, NEW f \in Files, NEW call, NEW kind, NEW why, Exit(f, call, kind, why),
         Refused(call, kind, why, given[f]), why # "seek"
  PROVE  IInv'
<1>1. ReportOK(result', disk', given') /\ RowPoised(result', handle')
  BY DEF Exit, ReportOK, RowPoised
<1> QED
  BY <1>1 DEF Exit, IInv

LEMMA FileHere ==
  ASSUME IInv, NEW f \in Files
  PROVE  /\ Each(disk) /\ Each(handle) /\ Each(given) /\ BuffersOK(buffer)
         /\ FileOK(disk[f], handle[f], given[f])
         /\ Others(f, disk, disk) /\ Others(f, handle, handle) /\ Others(f, given, given)
BY DEF IInv, FilesOK, Others

LEMMA Reader ==
  ASSUME NEW d, NEW h, NEW g, FileOK(d, h, g), h.mode = "r"
  PROVE  MadeOK(g) /\ Reading(d, h, g)
BY NoneClosed DEF FileOK, Unmade, Writing

LEMMA Writer ==
  ASSUME NEW d, NEW h, NEW g, FileOK(d, h, g), h.mode = "w"
  PROVE  MadeOK(g) /\ Writing(d, h, g)
BY NoneClosed DEF FileOK, Unmade, Reading

LEMMA NotOpen ==
  ASSUME NEW d, NEW h, NEW g, FileOK(d, h, g), h.mode = "closed"
  PROVE  h = None /\ (Unmade(d, h, g) \/ (MadeOK(g) /\ Complete(d, g)))
BY NoneClosed DEF FileOK, Unmade, Reading, Writing

LEMMA ReaderHere ==
  ASSUME IInv, NEW f \in Files, Is(f, "r")
  PROVE  MadeOK(given[f]) /\ Reading(disk[f], handle[f], given[f])
BY FileHere, Reader DEF Is

LEMMA WriterHere ==
  ASSUME IInv, NEW f \in Files, Is(f, "w")
  PROVE  MadeOK(given[f]) /\ Writing(disk[f], handle[f], given[f])
BY FileHere, Writer DEF Is

-----------------------------------------------------------------------------
(* Tags that are read.                                                     *)
LEMMA ToldOK ==
  ASSUME IInv, NEW f \in Files, NEW name, NEW value, Told(f, name, value),
         TagBack(name, value, given[f]),
         Others(f, handle, handle'), FileOK(disk[f], handle'[f], given[f])
  PROVE  IInv'
<1>1. ReportOK(result', disk', given') /\ RowPoised(result', handle')
  BY DEF Told, ReportOK, RowPoised
<1>2. disk' = disk /\ given' = given /\ buffer' = buffer
  BY DEF Told
<1> QED
  BY <1>1, <1>2, FileHere, StepOK

LEMMA Step_TT_get_description ==
  ASSUME IInv, NEW f \in Files, TT_get_description(f)
  PROVE  IInv'
<1>1. Told(f, "desc", handle[f].dir.desc) /\ handle' = handle /\ Is(f, "r")
  BY DEF TT_get_description
<1>2. TagBack("desc", handle[f].dir.desc, given[f])
  BY <1>1, ReaderHere DEF Reading, SameTags, TagBack
<1> QED
  BY <1>1, <1>2, ToldOK, FileHere

LEMMA Step_TT_photometric_normalization ==
  ASSUME IInv, NEW f \in Files, TT_photometric_normalization(f)
  PROVE  IInv'
<1>1. Told(f, "stonits", handle[f].dir.stonits) /\ handle' = handle /\ Is(f, "r")
  BY DEF TT_photometric_normalization
<1>2. TagBack("stonits", handle[f].dir.stonits, given[f])
  BY <1>1, ReaderHere DEF Reading, SameTags, TagBack
<1> QED
  BY <1>1, <1>2, ToldOK, FileHere

(* The alpha tag of other files is a fatal error, not one of types.        *)
LEMMA NotRead ==
  ASSUME NEW call, NEW kind, NEW why, NEW g, call \notin {"read", "image", "filename"}, why # "libtiff"
  PROVE  Refused(call, kind, why, g)
BY Zenon DEF Refused, Reads

LEMMA Step_TT_is_alpha ==
  ASSUME IInv, NEW f \in Files, NEW a \in Alphas, TT_is_alpha(f, a)
  PROVE  IInv'
<1>1. CASE TT_file_type(handle[f].dir) # "RGBA"
  <2>1. Exit(f, "alpha", a, "type")
    BY <1>1 DEF TT_is_alpha
  <2> QED
    BY <2>1, NotRead, ExitOK
<1>2. CASE TT_file_type(handle[f].dir) = "RGBA"
  <2>1. Told(f, a, handle[f].dir.alpha = a) /\ handle' = handle /\ Is(f, "r")
    BY <1>2, Zenon DEF TT_is_alpha
  <2>2. handle[f].dir.alpha = given[f].alpha
    BY <2>1, ReaderHere DEF Reading, SameTags
  <2>3. a # "desc" /\ a # "stonits" /\ a # "focal"
    BY DEF Alphas
  <2>4. TagBack(a, handle[f].dir.alpha = a, given[f])
    <3>1. (handle[f].dir.alpha = a) = AlphaIs(given[f], a)
      BY <2>2 DEF AlphaIs
    <3>2. PICK v : v = (handle[f].dir.alpha = a)
      OBVIOUS
    <3>3. TagBack(a, v, given[f])
      BY <2>3, <3>1, <3>2, Zenon DEF TagBack
    <3> QED
      BY <3>2, <3>3, Zenon
  <2> QED
    BY <2>1, <2>4, ToldOK, FileHere
<1> QED
  BY <1>1, <1>2

LEMMA ShortSmall ==
  ASSUME NEW n \in Nat, n < 32768
  PROVE  Short(n) = n
BY DEF Short

LEMMA Step_get_tiff_35mm_equiv ==
  ASSUME IInv, NEW f \in Files, get_tiff_35mm_equiv(f)
  PROVE  IInv'
<1> DEFINE d == disk[f]
           h == handle[f]
           g == given[f]
<1>1. Is(f, "r") /\ MadeOK(g) /\ Reading(d, h, g)
  BY ReaderHere DEF get_tiff_35mm_equiv
<1>2. h.dir.exif = 0 <=> g.focal = Nothing
  BY <1>1 DEF Reading, SameTags
<1>3. CASE h.dir.exif = 0
  <2>1. Told(f, "focal", NO_TIFF_35MM_EQUIV) /\ handle' = handle
    BY <1>3 DEF get_tiff_35mm_equiv
  <2>2. TagBack("focal", NO_TIFF_35MM_EQUIV, g)
    BY <1>2, <1>3 DEF TagBack, FocalBack
  <2> QED
    BY <2>1, <2>2, ToldOK, FileHere
<1>4. CASE h.dir.exif # 0
  <2> DEFINE h2 == [Reread(h, d.dir) EXCEPT !.use = "tags"]
  <2>1. Told(f, "focal", d.exif[h.dir.exif]) /\ handle' = [handle EXCEPT ![f] = h2]
    BY <1>4 DEF get_tiff_35mm_equiv
  <2>2. h.dir.exif = 1 /\ g.focal[1] \in Nat /\ d.exif = <<Short(g.focal[1])>>
    BY <1>1, <1>2, <1>4 DEF Reading, Complete, SameTags, FocalOK
  <2>3. TagBack("focal", d.exif[h.dir.exif], g)
    BY <1>2, <1>4, <2>2, ShortSmall DEF TagBack, FocalBack
  <2>4. /\ DOMAIN h2 = HandleFields /\ h2.mode = "r" /\ h2.dir = d.dir /\ h2.use = "tags"
    BY <1>1 DEF Reading, Reread, HandleFields
  <2>5. Reading(d, h2, g)
    BY <1>1, <2>4 DEF Reading, Complete, DiskOK
  <2>6. FileOK(d, h2, g)
    BY <1>1, <2>5, FileHere DEF FileOK
  <2> HIDE DEF h2
  <2>7. Others(f, handle, handle') /\ handle'[f] = h2
    BY <2>1, FileHere DEF Others, Each
  <2> QED
    BY <2>1, <2>3, <2>6, <2>7, ToldOK
<1> QED
  BY <1>3, <1>4

-----------------------------------------------------------------------------
(* Opening and closing.                                                    *)
SameRest(e, d) ==
  /\ e.comp = d.comp /\ e.pred = d.pred /\ e.width = d.width
  /\ e.desc = d.desc /\ e.stonits = d.stonits /\ e.alpha = d.alpha /\ e.exif = d.exif

LEMMA SameRestTags ==
  ASSUME NEW d, NEW e, NEW g, SameRest(e, d), SameTags(d, g)
  PROVE  SameTags(e, g)
BY DEF SameRest, SameTags

(* SetLogFormat and LogLuvClose.                                           *)
LEMMA LogDir ==
  ASSUME NEW d, NEW e, NEW g, DirOK(d, g), d.comp = "SGILOG", DOMAIN e = DirFields,
         SameRest(e, d), LogAs(e, d, 16, "INT") \/ LogAs(e, d, 32, "IEEEFP")
  PROVE  DirOK(e, g)
<1>1. g.type \in LogTypes /\ Looks(d, g.type) /\ d.pred = "none" /\ e.photo = d.photo
  BY DEF DirOK, LogAs
<1>2. Looks(e, g.type)
  BY <1>1, LooksLog
<1> QED
  BY <1>1, <1>2 DEF DirOK, SameRest

LEMMA SetLogFormatOK ==
  ASSUME NEW h, NEW h2, NEW g, DOMAIN h = HandleFields, DirOK(h.dir, g), h2 = SetLogFormat(h)
  PROVE  /\ DOMAIN h2 = HandleFields /\ h2.mode = h.mode /\ h2.rows = h.rows /\ h2.use = h.use
         /\ DirOK(h2.dir, g) /\ SameRest(h2.dir, h.dir)
         /\ h2.dir.comp = "SGILOG" => h2.datafmt = "FLOAT"
<1>1. CASE h.dir.comp # "SGILOG"
  BY <1>1 DEF SetLogFormat, SameRest
<1>2. CASE h.dir.comp = "SGILOG"
  <2>1. PICK e : e = [h.dir EXCEPT !.bits = 32, !.format = "IEEEFP"]
    OBVIOUS
  <2>2. h2 = [h EXCEPT !.datafmt = "FLOAT", !.dir = e]
    BY <1>2, <2>1 DEF SetLogFormat, HandleFields
  <2>3. /\ DOMAIN h2 = HandleFields /\ h2.mode = h.mode /\ h2.rows = h.rows /\ h2.use = h.use
        /\ h2.dir = e /\ h2.datafmt = "FLOAT"
    BY <2>2 DEF HandleFields
  <2>4. DOMAIN e = DirFields /\ SameRest(e, h.dir) /\ LogAs(e, h.dir, 32, "IEEEFP")
    BY <2>1 DEF DirOK, DirFields, SameRest, LogAs
  <2> QED
    BY <1>2, <2>3, <2>4, LogDir
<1> QED
  BY <1>1, <1>2

LEMMA OnDiskOK ==
  ASSUME NEW h, NEW g, DirOK(h.dir, g)
  PROVE  DirOK(OnDisk(h), g) /\ SameRest(OnDisk(h), h.dir)
<1>1. CASE ~(h.dir.comp = "SGILOG" /\ h.rows > 0)
  BY <1>1 DEF OnDisk, SameRest
<1>2. CASE h.dir.comp = "SGILOG" /\ h.rows > 0
  <2>1. PICK e : e = OnDisk(h)
    OBVIOUS
  <2>2. DOMAIN e = DirFields /\ SameRest(e, h.dir) /\ LogAs(e, h.dir, 16, "INT")
    BY <1>2, <2>1 DEF OnDisk, DirOK, DirFields, SameRest, LogAs
  <2> QED
    BY <1>2, <2>1, <2>2, LogDir
<1> QED
  BY <1>1, <1>2

LEMMA OpenedIs ==
  ASSUME NEW mode, NEW d
  PROVE  /\ DOMAIN Opened(mode, d) = HandleFields /\ Opened(mode, d).mode = mode
         /\ Opened(mode, d).dir = d /\ Opened(mode, d).rows = 0 /\ Opened(mode, d).use = "rows"
BY DEF Opened, HandleFields

LEMMA OnDiskHere ==
  ASSUME IInv, NEW f \in Files, Is(f, "closed"), disk[f].dir # None
  PROVE  handle[f] = None /\ MadeOK(given[f]) /\ Complete(disk[f], given[f])
BY FileHere, NotOpen DEF Is, Unmade

LEMMA Step_TIFFOpen_read ==
  ASSUME IInv, NEW f \in Files, TIFFOpen_read(f)
  PROVE  IInv'
<1> DEFINE d == disk[f]
           g == given[f]
           h == Opened("r", d.dir)
           h2 == [h EXCEPT !.use = "image"]
<1>1. MadeOK(g) /\ Complete(d, g)
  BY OnDiskHere DEF TIFFOpen_read
<1>2. DOMAIN h2 = HandleFields /\ h2.mode = "r" /\ h2.dir = d.dir /\ h2.use = "image"
  BY OpenedIs DEF HandleFields
<1>3. FileOK(d, h2, g)
  BY <1>1, <1>2, FileHere DEF FileOK, Reading, Complete, DiskOK
<1>4. handle' = [handle EXCEPT ![f] = h2] /\ result' = Done /\ UNCHANGED <<disk, given, buffer>>
  BY DEF TIFFOpen_read
<1> HIDE DEF h2
<1>5. Others(f, handle, handle') /\ handle'[f] = h2
  BY <1>4, FileHere DEF Others, Each
<1> QED
  BY <1>3, <1>4, <1>5, FileHere, DoneOK, StepOK

LEMMA Step_TT_open_read ==
  ASSUME IInv, NEW f \in Files, TT_open_read(f)
  PROVE  IInv'
<1> DEFINE d == disk[f]
           g == given[f]
           h == Opened("r", d.dir)
           h2 == IF TT_file_type(h.dir) \in {"LogLuv", "LogL"} THEN SetLogFormat(h) ELSE h
<1>1. MadeOK(g) /\ Complete(d, g) /\ DirOK(d.dir, g) /\ SameTags(d.dir, g)
  BY OnDiskHere DEF TT_open_read, Complete, DiskOK
<1>2. TT_file_type(d.dir) = g.type
  BY <1>1, LooksType DEF DirOK
<1>3. FileOK(d, h2, g)
  <2>1. CASE TT_file_type(h.dir) \in {"LogLuv", "LogL"}
    <3>1. /\ DOMAIN h2 = HandleFields /\ h2.mode = "r"
          /\ DirOK(h2.dir, g) /\ SameRest(h2.dir, d.dir)
          /\ h2.dir.comp = "SGILOG" => h2.datafmt = "FLOAT"
      BY <1>1, <2>1, OpenedIs, SetLogFormatOK
    <3> QED
      BY <1>1, <3>1, SameRestTags, FileHere DEF FileOK, Reading, SameRest
  <2>2. CASE TT_file_type(h.dir) \notin {"LogLuv", "LogL"}
    <3>1. h2 = h /\ DOMAIN h = HandleFields /\ h.mode = "r" /\ h.dir = d.dir
      BY <2>2, OpenedIs
    <3>2. d.dir.comp # "SGILOG"
      BY <1>1, <1>2, <2>2, <3>1 DEF DirOK, LogTypes
    <3> QED
      BY <1>1, <3>1, <3>2, FileHere DEF FileOK, Reading
  <2> QED
    BY <2>1, <2>2
<1>4. handle' = [handle EXCEPT ![f] = h2] /\ result' = Done /\ UNCHANGED <<disk, given, buffer>>
  BY DEF TT_open_read
<1> HIDE DEF h2
<1>5. Others(f, handle, handle') /\ handle'[f] = h2
  BY <1>4, FileHere DEF Others, Each
<1> QED
  BY <1>3, <1>4, <1>5, FileHere, DoneOK, StepOK

LEMMA Step_TIFFClose ==
  ASSUME IInv, NEW f \in Files, TIFFClose(f)
  PROVE  IInv'
<1> DEFINE d == disk[f]
           g == given[f]
           h == handle[f]
<1>1. handle' = [handle EXCEPT ![f] = None] /\ result' = Done /\ UNCHANGED <<given, buffer>>
  BY DEF TIFFClose
<1>2. Others(f, handle, handle') /\ handle'[f] = None
  BY <1>1, FileHere DEF Others, Each
<1>3. CASE h.mode = "r"
  <2>1. disk' = disk
    BY <1>3 DEF TIFFClose
  <2>2. FileOK(d, None, g)
    BY <1>3, FileHere, Reader DEF FileOK, Reading
  <2> QED
    BY <1>1, <1>2, <2>1, <2>2, FileHere, DoneOK, StepOK
<1>4. CASE h.mode # "r"
  <2>1. h.mode = "w" /\ h.rows = Height /\ disk' = [disk EXCEPT ![f].dir = OnDisk(h)]
    BY <1>4 DEF TIFFClose
  <2>2. MadeOK(g) /\ Writing(d, h, g) /\ DOMAIN d = {"dir", "rows", "exif"}
    BY <2>1, FileHere, Writer DEF FileOK
  <2>3. PICK d2 : d2 = [d EXCEPT !.dir = OnDisk(h)]
    OBVIOUS
  <2>4. disk' = [disk EXCEPT ![f] = d2]
    BY <2>1, <2>3
  <2>5. Others(f, disk, disk') /\ disk'[f] = d2
    BY <2>4, FileHere DEF Others, Each
  <2>6. DOMAIN d2 = {"dir", "rows", "exif"} /\ d2.dir = OnDisk(h) /\ d2.rows = d.rows /\ d2.exif = d.exif
    BY <2>2, <2>3
  <2>7. DirOK(OnDisk(h), g) /\ SameTags(OnDisk(h), g) /\ OnDisk(h).comp = h.dir.comp
    BY <2>2, OnDiskOK, SameRestTags DEF Writing, SameRest
  <2>8. FileOK(d2, None, g)
    BY <2>1, <2>2, <2>6, <2>7 DEF FileOK, Writing, Complete, DiskOK, FocalOK
  <2> QED
    BY <1>1, <1>2, <2>5, <2>8, FileHere, DoneOK, StepOK
<1> QED
  BY <1>3, <1>4

-----------------------------------------------------------------------------
(* A file being written: what its compression and its tags become.         *)
Sets(f, X, Y, v) == Others(f, X, Y) /\ Y[f] = v
SamePack(g, g2) == g2.jpeg = g.jpeg /\ g2.packed = g.packed
SameImage(g, g2) == g2.type = g.type /\ g2.width = g.width /\ g2.start = g.start

LEMMA SameRow ==
  ASSUME NEW g, NEW g2, SameImage(g, g2)
  PROVE  /\ KeptRows(g2) = KeptRows(g)
         /\ \A r, c : Row(g2, r, c) = Row(g, r, c)
<1>1. \A r, c : Row(g2, r, c) = Row(g, r, c)
  BY DEF SameImage, Row, ImageRow
<1> QED
  BY <1>1 DEF KeptRows

LEMMA SameRows ==
  ASSUME NEW g, NEW g2, NEW rows, NEW comp, SameImage(g, g2), SamePack(g, g2), RowsOK(rows, comp, g)
  PROVE  RowsOK(rows, comp, g2)
<1>1. \A r \in 1 .. Len(rows) : RowIs(rows[r], r, comp, g2)
  BY SameRow DEF RowsOK, RowIs, SameImage, SamePack
<1> QED
  BY <1>1, SameRow DEF RowsOK

LEMMA HeightType == Height \in Nat /\ Height > 0
BY TiffAssumption DEF TiffAssumption

LEMMA RetagOK ==
  ASSUME IInv, NEW f \in Files, NEW h2, NEW g2, Is(f, "w"), handle[f].rows = 0,
         Sets(f, handle, handle', h2), Sets(f, given, given', g2), disk' = disk, buffer' = buffer,
         result' = Done, DOMAIN h2 = HandleFields, h2.mode = "w", h2.rows = 0,
         DirOK(h2.dir, g2), SameTags(h2.dir, g2), MadeOK(g2), SameImage(given[f], g2),
         g2.focal = given[f].focal
  PROVE  IInv'
<1> DEFINE d == disk[f]
           g == given[f]
<1>1. MadeOK(g) /\ Writing(d, handle[f], g)
  BY WriterHere
<1>2. RowsOK(d.rows, h2.dir.comp, g2)
  BY <1>1, SameRow DEF Writing, RowsOK
<1>3. d.dir = None
  BY <1>1, HeightType DEF Writing, DiskOK
<1>4. Writing(d, h2, g2)
  BY <1>1, <1>2, <1>3, HeightType DEF Writing, FocalOK
<1>5. FileOK(d, h2, g2)
  BY <1>4, FileHere DEF FileOK
<1> QED
  BY <1>5, FileHere, DoneOK, StepOK DEF Sets

(* TT_set_compression_*: the codec may be changed.                         *)
Packed(h, comp) == [h EXCEPT !.dir.comp = comp, !.datafmt = "UNKNOWN"]

LEMMA PackedOK ==
  ASSUME NEW h, NEW g, NEW comp, DOMAIN h = HandleFields, DirOK(h.dir, g), SameTags(h.dir, g),
         NEW h2, h2 = Packed(h, comp)
  PROVE  /\ DOMAIN h2 = HandleFields /\ h2.mode = h.mode /\ h2.rows = h.rows
         /\ DOMAIN h2.dir = DirFields /\ SameTagsAs(h2.dir, h.dir) /\ h2.dir.pred = h.dir.pred
         /\ SameTags(h2.dir, g) /\ h2.dir.width = h.dir.width /\ h2.dir.comp = comp
         /\ Looks(h2.dir, g.type)
<1>1. PICK e : e = [h.dir EXCEPT !.comp = comp]
  OBVIOUS
<1>2. h2 = [h EXCEPT !.dir = e, !.datafmt = "UNKNOWN"]
  BY <1>1 DEF Packed
<1>3. DOMAIN h2 = HandleFields /\ h2.mode = h.mode /\ h2.rows = h.rows /\ h2.dir = e
  BY <1>2 DEF HandleFields
<1>4. /\ DOMAIN e = DirFields /\ SameTagsAs(e, h.dir) /\ e.pred = h.dir.pred
      /\ SameTags(e, g) /\ e.width = h.dir.width /\ e.comp = comp
  BY <1>1 DEF DirOK, DirFields, SameTagsAs, SameTags
<1>5. Looks(e, g.type)
  BY <1>4, LooksAgain DEF DirOK
<1> QED
  BY <1>3, <1>4, <1>5

LEMMA PredictedOK ==
  ASSUME NEW h, NEW g, NEW p, NEW h2, DOMAIN h = HandleFields, DOMAIN h.dir = DirFields, g.packed,
         Looks(h.dir, g.type), SameTags(h.dir, g), h.dir.width = g.width,
         h.dir.comp \in {"LZW", "DEFLATE"}, h.dir.photo = "YCBCR" => g.jpeg,
         h.dir.pred = "HORIZONTAL" => h.dir.bits \in {8, 16, 32},
         h.dir.pred = "FLOATINGPOINT" => h.dir.format = "IEEEFP",
         h2 = Predicted(h, p)
  PROVE  /\ DOMAIN h2 = HandleFields /\ h2.mode = h.mode /\ h2.rows = h.rows
         /\ DirOK(h2.dir, g) /\ SameTags(h2.dir, g)
<1>1. CASE ~p
  BY <1>1 DEF Predicted, DirOK
<1>2. CASE p
  <2>1. PICK q : q = IF IsFloatType(TT_file_type(h.dir)) THEN "FLOATINGPOINT" ELSE "HORIZONTAL"
    OBVIOUS
  <2>2. PICK e : e = [h.dir EXCEPT !.pred = q]
    OBVIOUS
  <2>3. h2 = [h EXCEPT !.dir = e]
    BY <1>2, <2>1, <2>2 DEF Predicted
  <2>4. TT_file_type(h.dir) = g.type /\ Tells(h.dir, g.type)
    BY LooksType, LooksTells
  <2>5. /\ q = "FLOATINGPOINT" => h.dir.format = "IEEEFP"
        /\ q = "HORIZONTAL" => h.dir.bits \in {8, 16, 32}
    BY <2>1, <2>4 DEF Tells, IsFloatType
  <2>6. DOMAIN h2 = HandleFields /\ h2.mode = h.mode /\ h2.rows = h.rows /\ h2.dir = e
    BY <2>3 DEF HandleFields
  <2>7. /\ DOMAIN e = DirFields /\ SameTagsAs(e, h.dir) /\ e.pred = q /\ e.comp = h.dir.comp
        /\ SameTags(e, g) /\ e.width = h.dir.width
    BY <2>2 DEF DirFields, SameTagsAs, SameTags
  <2>8. Looks(e, g.type)
    BY <2>7, LooksAgain
  <2>9. DirOK(e, g)
    BY <2>5, <2>7, <2>8 DEF DirOK, SameTagsAs
  <2> QED
    BY <2>6, <2>7, <2>9
<1> QED
  BY <1>1, <1>2

(* What the program meant, once it asked for compression.                  *)
LEMMA PackedMeant ==
  ASSUME NEW g, NEW g2, MadeOK(g), DOMAIN g2 = GivenFields,
         \A k \in GivenFields \ {"jpeg", "packed"} : g2[k] = g[k]
  PROVE  /\ MadeOK(g2) /\ SameImage(g, g2) /\ g2.focal = g.focal
         /\ g2.desc = g.desc /\ g2.stonits = g.stonits /\ g2.alpha = g.alpha
BY DEF MadeOK, GivenFields, SameImage

LEMMA PackOK ==
  ASSUME IInv, NEW f \in Files, NEW p \in BOOLEAN, NEW comp \in {"LZW", "DEFLATE"}, Is(f, "w"),
         Retag(f, Predicted(Packed(handle[f], comp), p)),
         given' = [given EXCEPT ![f].packed = TRUE]
  PROVE  IInv'
<1> DEFINE h == handle[f]
           g == given[f]
<1>0. PICK g2 : g2 = [g EXCEPT !.packed = TRUE]
  OBVIOUS
<1>1. PICK h1 : h1 = Packed(h, comp)
  OBVIOUS
<1>2. PICK h2 : h2 = Predicted(h1, p)
  OBVIOUS
<1>3. /\ Is(f, "w") /\ h.rows = 0 /\ handle' = [handle EXCEPT ![f] = h2]
      /\ given' = [given EXCEPT ![f] = g2] /\ disk' = disk /\ buffer' = buffer /\ result' = Done
  BY <1>0, <1>1, <1>2 DEF Retag
<1>4. MadeOK(g) /\ Writing(disk[f], h, g)
  BY <1>3, WriterHere
<1>5. DOMAIN h = HandleFields /\ DirOK(h.dir, g) /\ SameTags(h.dir, g)
  BY <1>4 DEF Writing
<1>6. /\ DOMAIN h1 = HandleFields /\ h1.mode = h.mode /\ h1.rows = h.rows
      /\ DOMAIN h1.dir = DirFields /\ SameTagsAs(h1.dir, h.dir) /\ h1.dir.pred = h.dir.pred
      /\ SameTags(h1.dir, g) /\ h1.dir.width = h.dir.width /\ h1.dir.comp = comp
      /\ Looks(h1.dir, g.type)
  BY <1>1, <1>5, PackedOK
<1>7. /\ DOMAIN g2 = GivenFields /\ g2.packed /\ g2.jpeg = g.jpeg
      /\ \A k \in GivenFields \ {"jpeg", "packed"} : g2[k] = g[k]
  BY <1>0, <1>4 DEF MadeOK, GivenFields
<1>8. /\ MadeOK(g2) /\ SameImage(g, g2) /\ g2.focal = g.focal
      /\ g2.desc = g.desc /\ g2.stonits = g.stonits /\ g2.alpha = g.alpha
  BY <1>4, <1>7, PackedMeant
<1>9. g2.jpeg = g.jpeg /\ g2.type = g.type /\ g2.width = g.width
  BY <1>7, <1>8 DEF GivenFields, SameImage
<1>10. SameTags(h1.dir, g2)
  BY <1>6, <1>8 DEF SameTags
<1>11. /\ DOMAIN h2 = HandleFields /\ h2.mode = h1.mode /\ h2.rows = h1.rows
       /\ DirOK(h2.dir, g2) /\ SameTags(h2.dir, g2)
  BY <1>2, <1>5, <1>6, <1>7, <1>9, <1>10, PredictedOK DEF DirOK, SameTagsAs
<1>12. Sets(f, handle, handle', h2) /\ Sets(f, given, given', g2)
  BY <1>3, FileHere DEF Sets, Others, Each
<1> QED
  BY <1>3, <1>4, <1>6, <1>8, <1>11, <1>12, RetagOK DEF Is

LEMMA Step_TT_set_compression_LZW ==
  ASSUME IInv, NEW f \in Files, NEW p \in BOOLEAN, TT_set_compression_LZW(f, p)
  PROVE  IInv'
BY PackOK DEF TT_set_compression_LZW, Packed

LEMMA Step_TT_set_compression_zip ==
  ASSUME IInv, NEW f \in Files, NEW p \in BOOLEAN, TT_set_compression_zip(f, p)
  PROVE  IInv'
BY PackOK DEF TT_set_compression_zip, Packed

(* A JPEG file of type RGB is converted by libtiff.                        *)
AsYCbCr(h) == [h EXCEPT !.colormode = "RGB", !.dir.photo = "YCBCR"]

LEMMA YCbCrOK ==
  ASSUME NEW h, NEW h2, NEW g, DOMAIN h = HandleFields, DOMAIN h.dir = DirFields,
         Looks(h.dir, "RGB"), SameTags(h.dir, g), h2 = AsYCbCr(h)
  PROVE  /\ DOMAIN h2 = HandleFields /\ h2.mode = h.mode /\ h2.rows = h.rows
         /\ DOMAIN h2.dir = DirFields /\ SameRest(h2.dir, h.dir) /\ Looks(h2.dir, "RGB")
         /\ h2.dir.bits = h.dir.bits /\ h2.dir.format = h.dir.format
<1>1. PICK e : e = [h.dir EXCEPT !.photo = "YCBCR"]
  OBVIOUS
<1>2. h2 = [h EXCEPT !.colormode = "RGB", !.dir = e]
  BY <1>1 DEF AsYCbCr
<1>3. DOMAIN h2 = HandleFields /\ h2.mode = h.mode /\ h2.rows = h.rows /\ h2.dir = e
  BY <1>2 DEF HandleFields
<1>4. /\ DOMAIN e = DirFields /\ SameRest(e, h.dir) /\ e.photo = "YCBCR" /\ e.bits = h.dir.bits
      /\ e.samples = h.dir.samples /\ e.format = h.dir.format
  BY <1>1 DEF DirFields, SameRest
<1>5. Looks(e, "RGB")
  BY <1>4, LooksYCbCr
<1> QED
  BY <1>3, <1>4, <1>5

LEMMA Step_TT_set_compression_jpeg ==
  ASSUME IInv, NEW f \in Files, NEW q \in Int, TT_set_compression_jpeg(f, q)
  PROVE  IInv'
<1> DEFINE h == handle[f]
           g == given[f]
<1>1. CASE q \notin 5 .. 95
  <2>1. Exit(f, "jpeg", "", "quality")
    BY <1>1 DEF TT_set_compression_jpeg
  <2> QED
    BY <2>1, NotRead, ExitOK
<1>2. CASE q \in 5 .. 95
  <2>1. PICK h1 : h1 = Packed(h, "JPEG")
    OBVIOUS
  <2>2. PICK h2 : h2 = IF TT_file_type(h1.dir) = "RGB" THEN AsYCbCr(h1) ELSE h1
    OBVIOUS
  <2>3. PICK g2 : g2 = [g EXCEPT !.jpeg = TRUE, !.packed = TRUE]
    OBVIOUS
  <2>4. Is(f, "w") /\ Retag(f, h2) /\ given' = [given EXCEPT ![f] = g2]
    BY <1>2, <2>1, <2>2, <2>3 DEF TT_set_compression_jpeg, Packed, AsYCbCr
  <2>5. MadeOK(g) /\ Writing(disk[f], h, g)
    BY <2>4, WriterHere
  <2>6. DOMAIN h = HandleFields /\ DirOK(h.dir, g) /\ SameTags(h.dir, g)
    BY <2>5 DEF Writing
  <2>7. /\ DOMAIN h1 = HandleFields /\ h1.mode = h.mode /\ h1.rows = h.rows
        /\ DOMAIN h1.dir = DirFields /\ SameTagsAs(h1.dir, h.dir) /\ h1.dir.pred = h.dir.pred
        /\ SameTags(h1.dir, g) /\ h1.dir.width = h.dir.width /\ h1.dir.comp = "JPEG"
        /\ Looks(h1.dir, g.type)
    BY <2>1, <2>6, PackedOK
  <2>8. TT_file_type(h1.dir) = g.type
    BY <2>7, LooksType
  <2>9. /\ DOMAIN h2 = HandleFields /\ h2.mode = h.mode /\ h2.rows = h.rows
        /\ DOMAIN h2.dir = DirFields /\ SameRest(h2.dir, h1.dir) /\ Looks(h2.dir, g.type)
        /\ h2.dir.bits = h1.dir.bits /\ h2.dir.format = h1.dir.format
    <3>1. CASE g.type = "RGB"
      BY <2>2, <2>7, <2>8, <3>1, YCbCrOK
    <3>2. CASE g.type # "RGB"
      BY <2>2, <2>7, <2>8, <3>2 DEF SameRest
    <3> QED
      BY <3>1, <3>2
  <2>10. /\ MadeOK(g2) /\ SameImage(g, g2) /\ g2.jpeg /\ g2.packed /\ g2.focal = g.focal
         /\ g2.desc = g.desc /\ g2.stonits = g.stonits /\ g2.alpha = g.alpha
    <3>1. /\ DOMAIN g2 = GivenFields /\ g2.jpeg /\ g2.packed
          /\ \A k \in GivenFields \ {"jpeg", "packed"} : g2[k] = g[k]
      BY <2>3, <2>5 DEF MadeOK, GivenFields
    <3> QED
      BY <2>5, <3>1, PackedMeant
  <2>11. DirOK(h2.dir, g2)
    BY <2>6, <2>7, <2>9, <2>10 DEF DirOK, SameRest, SameImage, SameTagsAs
  <2>12. SameTags(h2.dir, g2)
    BY <2>7, <2>9, <2>10 DEF SameTags, SameRest
  <2>13. Sets(f, handle, handle', h2) /\ Sets(f, given, given', g2)
    BY <2>4, FileHere DEF Sets, Others, Each, Retag
  <2> QED
    BY <2>4, <2>5, <2>9, <2>10, <2>11, <2>12, <2>13, RetagOK DEF Is, Retag
<1> QED
  BY <1>1, <1>2

(* The tags a program sets, and that it means to: before the first row or  *)
(* after it.                                                               *)
TagSet(h, k, v)   == [h EXCEPT !.dir[k] = v]
TagMeant(g, k, v) == [g EXCEPT ![k] = v]
ProgramTags == {"desc", "stonits", "alpha"}

TagChanged(h2, h, g, k, v) ==
  /\ DOMAIN h2 = HandleFields /\ h2.mode = h.mode /\ h2.rows = h.rows
  /\ DirOK(h2.dir, g) /\ h2.dir.comp = h.dir.comp /\ h2.dir.exif = h.dir.exif
  /\ h2.dir[k] = v /\ \A j \in ProgramTags \ {k} : h2.dir[j] = h.dir[j]

LEMMA TagSetIs ==
  ASSUME NEW h, NEW g, NEW k \in ProgramTags, NEW v, NEW h2, DOMAIN h = HandleFields,
         DirOK(h.dir, g), h2 = TagSet(h, k, v)
  PROVE  TagChanged(h2, h, g, k, v)
<1>1. PICK e : e = [h.dir EXCEPT ![k] = v]
  OBVIOUS
<1>2. h2 = [h EXCEPT !.dir = e]
  BY <1>1 DEF TagSet
<1>3. DOMAIN h2 = HandleFields /\ h2.mode = h.mode /\ h2.rows = h.rows /\ h2.dir = e
  BY <1>2 DEF HandleFields
<1>4. /\ DOMAIN e = DirFields /\ \A j \in DirFields \ {k} : e[j] = h.dir[j]
      /\ e[k] = v
  BY <1>1 DEF DirOK, DirFields, ProgramTags
<1>5. /\ SameTagsAs(e, h.dir) /\ e.pred = h.dir.pred /\ e.width = h.dir.width
      /\ e.comp = h.dir.comp /\ e.exif = h.dir.exif
  BY <1>4 DEF SameTagsAs, DirFields, ProgramTags
<1>6. Looks(e, g.type)
  BY <1>5, LooksAgain DEF DirOK
<1>7. DirOK(e, g)
  BY <1>4, <1>5, <1>6 DEF DirOK, SameTagsAs
<1>8. \A j \in ProgramTags \ {k} : e[j] = h.dir[j]
  BY <1>4 DEF DirFields, ProgramTags
<1> QED
  BY <1>3, <1>4, <1>5, <1>7, <1>8 DEF TagChanged

LEMMA TagMeantIs ==
  ASSUME NEW g, NEW k \in ProgramTags, NEW v, NEW g2, MadeOK(g), g2 = TagMeant(g, k, v)
  PROVE  /\ MadeOK(g2) /\ SameImage(g, g2) /\ SamePack(g, g2) /\ g2.focal = g.focal
         /\ g2[k] = v /\ \A j \in ProgramTags \ {k} : g2[j] = g[j]
<1>1. DOMAIN g2 = GivenFields /\ \A j \in GivenFields \ {k} : g2[j] = g[j]
  BY DEF MadeOK, TagMeant
<1>2. g2[k] = v
  BY DEF MadeOK, GivenFields, ProgramTags, TagMeant
<1>3. /\ g2.mode = g.mode /\ g2.type = g.type /\ g2.width = g.width /\ g2.start = g.start
      /\ g2.by = g.by /\ g2.jpeg = g.jpeg /\ g2.packed = g.packed /\ g2.focal = g.focal
  BY <1>1 DEF GivenFields, ProgramTags
<1>4. \A j \in ProgramTags \ {k} : g2[j] = g[j]
  BY <1>1 DEF GivenFields, ProgramTags
<1> QED
  BY <1>1, <1>2, <1>3, <1>4 DEF MadeOK, SameImage, SamePack

LEMMA DirAgain ==
  ASSUME NEW d, NEW g, NEW g2, DirOK(d, g), SameImage(g, g2), SamePack(g, g2)
  PROVE  DirOK(d, g2)
BY DEF DirOK, SameImage, SamePack

LEMMA TagSetOK ==
  ASSUME IInv, NEW f \in Files, NEW k \in ProgramTags, NEW v, Is(f, "w"),
         handle' = [handle EXCEPT ![f] = TagSet(handle[f], k, v)],
         given' = [given EXCEPT ![f] = TagMeant(given[f], k, v)],
         disk' = disk, buffer' = buffer, result' = Done
  PROVE  IInv'
<1> DEFINE d == disk[f]
           h == handle[f]
           g == given[f]
<1>1. MadeOK(g) /\ Writing(d, h, g)
  BY WriterHere
<1>2. PICK h2 : h2 = TagSet(h, k, v)
  OBVIOUS
<1>3. PICK g2 : g2 = TagMeant(g, k, v)
  OBVIOUS
<1>4. DOMAIN h = HandleFields /\ DirOK(h.dir, g)
  BY <1>1 DEF Writing
<1>5. /\ DOMAIN h2 = HandleFields /\ h2.mode = h.mode /\ h2.rows = h.rows
      /\ DirOK(h2.dir, g) /\ h2.dir.comp = h.dir.comp /\ h2.dir.exif = h.dir.exif
      /\ h2.dir[k] = v /\ \A j \in ProgramTags \ {k} : h2.dir[j] = h.dir[j]
  <2>1. TagChanged(h2, h, g, k, v)
    BY <1>2, <1>4, TagSetIs
  <2> QED
    BY <2>1 DEF TagChanged
<1>6. /\ MadeOK(g2) /\ SameImage(g, g2) /\ SamePack(g, g2) /\ g2.focal = g.focal
      /\ g2[k] = v /\ \A j \in ProgramTags \ {k} : g2[j] = g[j]
  BY <1>1, <1>3, TagMeantIs
<1>7. SameTags(h2.dir, g2)
  BY <1>1, <1>5, <1>6 DEF Writing, SameTags, ProgramTags
<1>8. d.dir # None => DiskOK(d, g2)
  BY <1>1, <1>6, DirAgain DEF Writing, DiskOK
<1>9. RowsOK(d.rows, h2.dir.comp, g2)
  BY <1>1, <1>5, <1>6, SameRows DEF Writing
<1>10. DirOK(h2.dir, g2)
  BY <1>5, <1>6, DirAgain
<1>11. Writing(d, h2, g2)
  BY <1>1, <1>5, <1>6, <1>7, <1>8, <1>9, <1>10 DEF Writing, FocalOK
<1>12. FileOK(d, h2, g2)
  BY <1>6, <1>11, FileHere DEF FileOK
<1>13. Others(f, handle, handle') /\ handle'[f] = h2 /\ Others(f, given, given') /\ given'[f] = g2
  BY <1>2, <1>3, FileHere DEF Others, Each
<1> QED
  BY <1>12, <1>13, FileHere, DoneOK, StepOK

LEMMA Step_TT_set_alpha ==
  ASSUME IInv, NEW f \in Files, NEW a, TT_set_alpha(f, a)
  PROVE  IInv'
<1>1. CASE TT_file_type(handle[f].dir) # "RGBA"
  <2>1. Exit(f, "alpha", a, "type")
    BY <1>1 DEF TT_set_alpha
  <2> QED
    BY <2>1, NotRead, ExitOK
<1>2. CASE TT_file_type(handle[f].dir) = "RGBA"
  <2>1. /\ Is(f, "w") /\ handle' = [handle EXCEPT ![f] = TagSet(handle[f], "alpha", a)]
        /\ given' = [given EXCEPT ![f] = TagMeant(given[f], "alpha", a)]
        /\ disk' = disk /\ buffer' = buffer /\ result' = Done
    BY <1>2 DEF TT_set_alpha, Retag, TagSet, TagMeant
  <2> QED
    BY <2>1, TagSetOK DEF ProgramTags
<1> QED
  BY <1>1, <1>2

LEMMA Step_SetStonits ==
  ASSUME IInv, NEW f \in Files, NEW n, SetStonits(f, n)
  PROVE  IInv'
<1>1. /\ Is(f, "w") /\ handle' = [handle EXCEPT ![f] = TagSet(handle[f], "stonits", <<n>>)]
      /\ given' = [given EXCEPT ![f] = TagMeant(given[f], "stonits", <<n>>)]
      /\ disk' = disk /\ buffer' = buffer /\ result' = Done
  BY DEF SetStonits, Retag, TagSet, TagMeant
<1> QED
  BY <1>1, TagSetOK DEF ProgramTags

LEMMA DescribeOK ==
  ASSUME IInv, NEW f \in Files, NEW text, Is(f, "w"), Describe(f, text)
  PROVE  IInv'
<1>1. /\ handle' = [handle EXCEPT ![f] = TagSet(handle[f], "desc", <<text>>)]
      /\ given' = [given EXCEPT ![f] = TagMeant(given[f], "desc", <<text>>)]
      /\ disk' = disk /\ buffer' = buffer /\ result' = Done
  BY DEF Describe, TagSet, TagMeant
<1> QED
  BY <1>1, TagSetOK DEF ProgramTags

LEMMA Step_TT_set_description ==
  ASSUME IInv, NEW f \in Files, NEW text, TT_set_description(f, text)
  PROVE  IInv'
BY DescribeOK DEF TT_set_description

LEMMA Step_TT_cat_description ==
  ASSUME IInv, NEW f \in Files, NEW text, TT_cat_description(f, text)
  PROVE  IInv'
BY DescribeOK DEF TT_cat_description

LEMMA Step_set_tiff_35mm_equiv ==
  ASSUME IInv, NEW f \in Files, NEW focal \in Int, set_tiff_35mm_equiv(f, focal)
  PROVE  IInv'
<1> DEFINE d == disk[f]
           h == handle[f]
           g == given[f]
           n == Rounded35mm(focal)
<1>1. CASE focal <= 0
  <2>1. Exit(f, "35mm", "", "focal")
    BY <1>1 DEF set_tiff_35mm_equiv
  <2> QED
    BY <2>1, NotRead, ExitOK
<1>2. CASE ~(focal <= 0)
  <2>1. PICK main : main = OnDisk(h)
    OBVIOUS
  <2>2. PICK d2 : d2 = [d EXCEPT !.dir = main, !.exif = <<Short(n)>>]
    OBVIOUS
  <2>3. PICK e : e = [main EXCEPT !.exif = 1]
    OBVIOUS
  <2>4. PICK h2 : h2 = Reread(h, e)
    OBVIOUS
  <2>5. PICK g2 : g2 = [g EXCEPT !.focal = <<n>>]
    OBVIOUS
  <2>6. Is(f, "w") /\ h.rows = Height /\ h.dir.exif = 0 /\ result' = Done /\ buffer' = buffer
    BY <1>2 DEF set_tiff_35mm_equiv
  <2>7. /\ disk' = [disk EXCEPT ![f] = d2] /\ handle' = [handle EXCEPT ![f] = h2]
        /\ given' = [given EXCEPT ![f] = g2]
    BY <1>2, <2>1, <2>2, <2>3, <2>4, <2>5 DEF set_tiff_35mm_equiv
  <2>8. MadeOK(g) /\ Writing(d, h, g) /\ DOMAIN d = {"dir", "rows", "exif"}
    BY <2>6, WriterHere, FileHere DEF FileOK
  <2>9. DirOK(main, g) /\ SameRest(main, h.dir) /\ DOMAIN main = DirFields
    BY <2>1, <2>8, OnDiskOK DEF Writing, DirOK
  <2>10. n \in Nat
    BY <1>2 DEF Rounded35mm
  <2>11. /\ DOMAIN e = DirFields /\ e.exif = 1 /\ SameTagsAs(e, main) /\ e.comp = main.comp
         /\ e.pred = main.pred /\ e.width = main.width /\ e.desc = main.desc
         /\ e.stonits = main.stonits /\ e.alpha = main.alpha
    BY <2>3, <2>9 DEF DirFields, SameTagsAs
  <2>12. Looks(e, g.type)
    BY <2>9, <2>11, LooksAgain DEF DirOK
  <2>13. DirOK(e, g)
    BY <2>9, <2>11, <2>12 DEF DirOK, SameTagsAs
  <2>14. DOMAIN h2 = HandleFields /\ h2.mode = h.mode /\ h2.rows = h.rows /\ h2.dir = e
    BY <2>4, <2>8 DEF Writing, Reread, HandleFields
  <2>15. DOMAIN g2 = GivenFields /\ g2.focal = <<n>> /\ \A k \in GivenFields \ {"focal"} : g2[k] = g[k]
    BY <2>5, <2>8 DEF MadeOK, GivenFields
  <2>16. MadeOK(g2) /\ SameImage(g, g2) /\ SamePack(g, g2)
    BY <2>8, <2>15 DEF MadeOK, GivenFields, SameImage, SamePack
  <2>17. g2.focal # Nothing /\ g2.focal[1] = n
    BY <2>15 DEF Nothing
  <2>18. SameTags(e, g2)
    BY <2>8, <2>9, <2>11, <2>15, <2>17 DEF SameTags, SameRest, GivenFields, Writing
  <2>19. DOMAIN d2 = {"dir", "rows", "exif"} /\ d2.dir = main /\ d2.rows = d.rows /\ d2.exif = <<Short(n)>>
    BY <2>2, <2>8
  <2>20. RowsOK(d.rows, e.comp, g2)
    BY <2>8, <2>9, <2>11, <2>16, SameRows DEF Writing, SameRest
  <2>21. DirOK(main, g2) /\ DirOK(e, g2)
    BY <2>9, <2>13, <2>16, DirAgain
  <2>22. Writing(d2, h2, g2)
    BY <2>6, <2>8, <2>10, <2>14, <2>17, <2>18, <2>19, <2>20, <2>21 DEF Writing, DiskOK, FocalOK
  <2>23. FileOK(d2, h2, g2)
    BY <2>16, <2>19, <2>22 DEF FileOK
  <2>24. /\ Others(f, disk, disk') /\ disk'[f] = d2 /\ Others(f, handle, handle')
         /\ handle'[f] = h2 /\ Others(f, given, given') /\ given'[f] = g2
    BY <2>7, FileHere DEF Others, Each
  <2> QED
    BY <2>6, <2>23, <2>24, FileHere, DoneOK, StepOK
<1> QED
  BY <1>1, <1>2

-----------------------------------------------------------------------------
(* Rows that are written.                                                  *)
LEMMA KeptPlain ==
  ASSUME NEW t, NEW x, t \notin SmallTypes
  PROVE  KeptRow(t, x) = x
BY DEF KeptRow, SmallTypes

LEMMA StoredIs ==
  ASSUME NEW h, NEW g, NEW r, NEW x, DirOK(h.dir, g), x = KeptRow(g.type, ImageRow(g, r))
  PROVE  RowIs(Stored(h, x), r, h.dir.comp, g)
<1>1. Tells(h.dir, g.type)
  BY LooksTells DEF DirOK
<1>2. h.dir.photo = "YCBCR" => g.jpeg /\ g.type = "RGB"
  BY <1>1 DEF DirOK, Tells
<1>3. Coding(h) \in Codings
  BY DEF Coding, Codings
<1>4. /\ Coding(h) = "log" => h.dir.comp = "SGILOG"
      /\ Coding(h) = "ycc" => h.dir.photo = "YCBCR"
  BY DEF Coding
<1>5. Stored(h, x) = Row(g, r, Coding(h))
  BY DEF Stored, Row
<1> QED
  BY <1>2, <1>3, <1>4, <1>5 DEF RowIs

LEMMA RowKept ==
  ASSUME NEW s, NEW r \in 1 .. Height, NEW comp, NEW g, RowIs(s, r, comp, g)
  PROVE  s \in KeptRows(g)
BY DEF RowIs, KeptRows

LEMMA ImageHere ==
  ASSUME NEW d, NEW g, DirOK(d, g), MadeOK(g), NEW r
  PROVE  Image(g.width, d.samples, g.start)[r] = ImageRow(g, r)
<1>1. PICK p : p = TT_type2parms(g.type)
  OBVIOUS
<1>2. Looks(p, g.type) /\ Looks(d, g.type)
  BY <1>1, ParmsOfType DEF MadeOK, DirOK
<1>3. d.samples = p.samples
  BY <1>2, LooksTells, SameSamples
<1> QED
  BY <1>1, <1>3 DEF ImageRow

(* Strips have at least one row, and those of gray JPEG files are of whole *)
(* blocks.                                                                 *)
LEMMA RowsPerStripIs ==
  ASSUME NEW d, NEW g, DirOK(d, g), MadeOK(g)
  PROVE  /\ RowsPerStrip(d) \in Nat /\ RowsPerStrip(d) > 0
         /\ d.comp = "JPEG" /\ g.type = "Gray" /\ RowsPerStrip(d) < Height => RowsPerStrip(d) % 8 = 0
<1>1. PICK bits : bits = IF d.photo \in {"LOGLUV", "LOGL"} THEN 32 ELSE d.bits
  OBVIOUS
<1>2. PICK e : e = [d EXCEPT !.bits = bits]
  OBVIOUS
<1>3. PICK size : size = ScanlineSize(e, d.width)
  OBVIOUS
<1>4. PICK n : n = IF size <= StripBytes THEN StripBytes \div size ELSE 1
  OBVIOUS
<1>5. TT_file_type(d) = g.type /\ Tells(d, g.type) /\ d.width \in Nat /\ d.width > 0
  BY LooksType, LooksTells DEF DirOK, MadeOK
<1>6. RowsPerStrip(d) = IF d.comp = "JPEG" /\ g.type \in {"Gray", "RGB"} /\ n < Height
                        THEN 16 * ((n + 15) \div 16) ELSE n
  BY <1>1, <1>2, <1>3, <1>4, <1>5 DEF RowsPerStrip
<1>7. bits \in {8, 16, 24, 32, 64} /\ d.samples \in {1, 3, 4}
  BY <1>1, <1>5 DEF Tells
<1>8. e.bits = bits /\ e.samples = d.samples
  BY <1>2 DEF DirOK, DirFields
<1>9. size \in Nat /\ size > 0
  BY <1>3, <1>5, <1>7, <1>8, SizeIs DEF ScanlineSize
<1>10. n \in Nat /\ n > 0
  BY <1>4, <1>9, StripRows, TiffAssumption DEF TiffAssumption
<1>11. PICK m : m = 16 * ((n + 15) \div 16)
  OBVIOUS
<1>12. m \in Nat /\ m > 0 /\ m % 8 = 0
  BY <1>10, <1>11
<1> QED
  BY <1>6, <1>10, <1>11, <1>12

LEMMA EncodeOK ==
  ASSUME NEW d, NEW g, DirOK(d, g), MadeOK(g), ~CanEncode(d)
  PROVE  g.jpeg /\ g.type # "Gray"
<1>1. Tells(d, g.type)
  BY LooksTells DEF DirOK
<1>2. PICK n : n = RowsPerStrip(d)
  OBVIOUS
<1>3. /\ d.comp = "JPEG"
      /\ \/ ~(d.bits = 8 /\ d.photo # "PALETTE")
         \/ n < Height /\ n % (IF d.photo = "YCBCR" THEN 16 ELSE 8) # 0
  BY <1>2 DEF DirOK, CanEncode
<1>4. g.type # "Gray"
  <2>1. SUFFICES ASSUME g.type = "Gray" PROVE FALSE
    OBVIOUS
  <2>2. d.bits = 8 /\ d.photo \notin {"PALETTE", "YCBCR"}
    BY <1>1, <2>1 DEF Tells
  <2>3. n < Height => n % 8 = 0
    BY <1>2, <1>3, <2>1, RowsPerStripIs
  <2> QED
    BY <1>3, <2>2, <2>3
<1> QED
  BY <1>3, <1>4 DEF DirOK

LEMMA JoinRows ==
  ASSUME NEW S, NEW x \in Seq(S), NEW y \in Seq(S)
  PROVE  /\ x \o y \in Seq(S) /\ Len(x \o y) = Len(x) + Len(y)
         /\ \A i \in 1 .. Len(x) : (x \o y)[i] = x[i]
         /\ \A i \in 1 .. Len(y) : (x \o y)[Len(x) + i] = y[i]
OBVIOUS

(* Rows that come after n others.                                          *)
RowsAfter(rows, n, comp, g) ==
  rows \in Seq(KeptRows(g)) /\ \A i \in 1 .. Len(rows) : RowIs(rows[i], n + i, comp, g)

LEMMA RowsJoined ==
  ASSUME NEW g, NEW comp, NEW x, NEW y, NEW n, n = Len(x), RowsOK(x, comp, g),
         RowsAfter(y, n, comp, g)
  PROVE  RowsOK(x \o y, comp, g) /\ Len(x \o y) = Len(x) + Len(y)
<1>1. /\ x \in Seq(KeptRows(g)) /\ \A i \in 1 .. Len(x) : RowIs(x[i], i, comp, g)
      /\ y \in Seq(KeptRows(g)) /\ \A i \in 1 .. Len(y) : RowIs(y[i], Len(x) + i, comp, g)
  BY DEF RowsOK, RowsAfter
<1>2. PICK z : z = x \o y
  OBVIOUS
<1>3. /\ z \in Seq(KeptRows(g)) /\ Len(z) = Len(x) + Len(y)
      /\ \A i \in 1 .. Len(x) : z[i] = x[i]
      /\ \A i \in 1 .. Len(y) : z[Len(x) + i] = y[i]
  BY <1>1, <1>2, JoinRows
<1>4. ASSUME NEW r \in 1 .. Len(z) PROVE RowIs(z[r], r, comp, g)
  <2>1. CASE r <= Len(x)
    BY <1>1, <1>3, <2>1
  <2>2. CASE ~(r <= Len(x))
    <3>1. PICK i : i = r - Len(x)
      OBVIOUS
    <3>2. i \in 1 .. Len(y) /\ r = Len(x) + i
      BY <1>1, <1>3, <2>2, <3>1
    <3> QED
      BY <1>1, <1>3, <3>2
  <2> QED
    BY <2>1, <2>2
<1> QED
  BY <1>2, <1>3, <1>4 DEF RowsOK

(* libtiff refuses to encode, or the rows are added to those of the file.  *)
LEMMA PutOK ==
  ASSUME IInv, NEW f \in Files, NEW k, NEW call, NEW rows, NEW bytes, NEW b,
         Put(f, k, call, rows, bytes, b), Is(f, "w"),
         handle[f].rows < Height, Len(rows) \in Nat, Len(rows) + handle[f].rows <= Height,
         RowsAfter(rows, handle[f].rows, handle[f].dir.comp, given[f]),
         ByOK(<<call, k>>, given[f].type), Fit(bytes), BuffersOK(b),
         call \notin {"read", "image", "filename"}
  PROVE  IInv'
<1> DEFINE d == disk[f]
           h == handle[f]
           g == given[f]
<1>1. MadeOK(g) /\ Writing(d, h, g) /\ DOMAIN d = {"dir", "rows", "exif"}
  BY WriterHere, FileHere DEF FileOK
<1>2. CASE ~CanEncode(h.dir)
  <2>1. Exit(f, call, k, "libtiff")
    BY <1>2 DEF Put
  <2>2. g.jpeg /\ g.type # "Gray"
    BY <1>1, <1>2, EncodeOK DEF Writing
  <2>3. Refused(call, k, "libtiff", g)
    BY <2>2 DEF Refused
  <2> QED
    BY <2>1, <2>3, ExitOK
<1>3. CASE CanEncode(h.dir)
  <2>1. PICK d2 : d2 = [d EXCEPT !.rows = d.rows \o rows]
    OBVIOUS
  <2>2. PICK h2 : h2 = [h EXCEPT !.rows = h.rows + Len(rows)]
    OBVIOUS
  <2>3. PICK g2 : g2 = [g EXCEPT !.by = <<call, k>>]
    OBVIOUS
  <2>4. /\ disk' = [disk EXCEPT ![f] = d2] /\ handle' = [handle EXCEPT ![f] = h2]
        /\ given' = [given EXCEPT ![f] = g2] /\ buffer' = b
        /\ result' = [is |-> "rows", file |-> f, rows |-> Nothing, copied |-> bytes]
    BY <1>3, <2>1, <2>2, <2>3 DEF Put
  <2>5. DOMAIN d2 = {"dir", "rows", "exif"} /\ d2.dir = d.dir /\ d2.rows = d.rows \o rows /\ d2.exif = d.exif
    BY <1>1, <2>1
  <2>6. DOMAIN h2 = HandleFields /\ h2.mode = h.mode /\ h2.rows = h.rows + Len(rows) /\ h2.dir = h.dir
    BY <1>1, <2>2 DEF Writing, HandleFields
  <2>7. DOMAIN g2 = GivenFields /\ g2.by = <<call, k>> /\ \A j \in GivenFields \ {"by"} : g2[j] = g[j]
    BY <1>1, <2>3 DEF MadeOK, GivenFields
  <2>8. MadeOK(g2) /\ SameImage(g, g2) /\ SamePack(g, g2)
    BY <1>1, <2>7 DEF MadeOK, GivenFields, SameImage, SamePack
  <2>9. RowsOK(d2.rows, h.dir.comp, g) /\ Len(d2.rows) = Len(d.rows) + Len(rows)
    <3>1. RowsOK(d.rows, h.dir.comp, g) /\ h.rows = Len(d.rows)
      BY <1>1 DEF Writing
    <3>2. /\ RowsOK(d.rows \o rows, h.dir.comp, g)
          /\ Len(d.rows \o rows) = Len(d.rows) + Len(rows)
      BY <3>1, RowsJoined
    <3> QED
      BY <2>5, <3>2
  <2>10. RowsOK(d2.rows, h2.dir.comp, g2)
    BY <2>6, <2>8, <2>9, SameRows
  <2>11. DirOK(h2.dir, g2)
    BY <1>1, <2>6, <2>8, DirAgain DEF Writing
  <2>12. SameTags(h2.dir, g2)
    BY <1>1, <2>6, <2>7 DEF Writing, SameTags, GivenFields
  <2>13. d.dir = None
    BY <1>1 DEF Writing, DiskOK
  <2>14. FocalOK(d2, g2)
    BY <1>1, <2>5, <2>7 DEF Writing, FocalOK, GivenFields
  <2>15. Writing(d2, h2, g2)
    BY <1>1, <2>5, <2>6, <2>9, <2>10, <2>11, <2>12, <2>13, <2>14 DEF Writing
  <2>16. FileOK(d2, h2, g2)
    BY <2>5, <2>8, <2>15 DEF FileOK
  <2>17. ReportOK(result', disk', given') /\ RowPoised(result', handle')
    BY <2>4 DEF ReportOK, RowPoised, Nothing
  <2>18. /\ Others(f, disk, disk') /\ disk'[f] = d2 /\ Others(f, handle, handle')
         /\ handle'[f] = h2 /\ Others(f, given, given') /\ given'[f] = g2
    BY <2>4, FileHere DEF Others, Each
  <2> QED
    BY <2>4, <2>16, <2>17, <2>18, StepOK
<1> QED
  BY <1>2, <1>3

(* The kinds of rows, by the tables.                                       *)
LEMMA WriteKindIs ==
  ASSUME NEW k \in WriteKinds
  PROVE  \/ k = "gray" /\ TransferCode[k] = "Gray"
         \/ k = "gray16" /\ TransferCode[k] = "Gray16"
         \/ k = "RGB" /\ TransferCode[k] = "RGB"
         \/ k = "RGBA" /\ TransferCode[k] = "RGBA"
         \/ k = "RGB16" /\ TransferCode[k] = "RGB16"
         \/ k = "XYZ" /\ TransferCode[k] = "XYZ"
         \/ k = "LogLuv" /\ TransferCode[k] = "XYZ"
         \/ k = "LogL" /\ TransferCode[k] = "Float"
BY DEF WriteKinds, TransferCode

LEMMA ImageKindIs ==
  ASSUME NEW k \in ImageKinds
  PROVE  \/ k = "gray" /\ ImageFromCode[k] = "Gray" /\ ImageToCode[k] = "Gray"
         \/ k = "gray16" /\ ImageFromCode[k] = "Gray16" /\ ImageToCode[k] = "Gray16"
         \/ k = "RGB" /\ ImageFromCode[k] = "RGB" /\ ImageToCode[k] = "RGB"
         \/ k = "RGBf" /\ ImageFromCode[k] = "RGBf" /\ ImageToCode[k] = "RGBf"
         \/ k = "RGBA" /\ ImageFromCode[k] = "RGBA" /\ ImageToCode[k] = "RGBA"
         \/ k = "XYZ" /\ ImageFromCode[k] = "LogLuv" /\ ImageToCode[k] = "XYZ"
         \/ k = "float" /\ ImageFromCode[k] = "Float" /\ ImageToCode[k] = "Float"
BY DEF ImageKinds, ImageFromCode, ImageToCode

LEMMA PixelSizeIs ==
  /\ PixelSize["gray"] = 1 /\ PixelSize["gray16"] = 2 /\ PixelSize["RGB"] = 3
  /\ PixelSize["RGBA"] = 4 /\ PixelSize["RGB16"] = 6 /\ PixelSize["float"] = 4
  /\ PixelSize["RGBf"] = 12 /\ PixelSize["XYZ"] = 12 /\ PixelSize["LogLuv"] = 12
  /\ PixelSize["LogL"] = 4
BY DEF PixelSize

(* A row of the file fits a row of kind k.                                 *)
RowFits(d, k) ==
  /\ d.bits \in Nat /\ d.samples \in Nat /\ PixelSize[k] \in Nat
  /\ d.bits * d.samples <= 8 * PixelSize[k]

LEMMA ProgramTypeIs ==
  ASSUME NEW d, NEW t, Looks(d, t)
  PROVE  ProgramType(d) = AsProgram(t)
<1>1. TT_file_type(d) = t
  BY LooksType
<1> QED
  BY <1>1, Zenon DEF ProgramType, AsProgram

LEMMA AsProgramIs ==
  ASSUME NEW t
  PROVE  /\ t = "LogLuv" => AsProgram(t) = "XYZ"
         /\ t = "LogL" => AsProgram(t) = "Float"
         /\ t \notin {"LogLuv", "LogL"} => AsProgram(t) = t
BY DEF AsProgram

LEMMA TransferFits ==
  ASSUME NEW d, NEW t, NEW k \in WriteKinds, Tells(d, t), AsProgram(t) = TransferCode[k]
  PROVE  t \notin SmallTypes /\ RowFits(d, k)
<1>1. CASE k = "gray" \/ k = "gray16" \/ k = "RGB" \/ k = "RGBA" \/ k = "RGB16"
  <2>1. /\ t = TransferCode[k] /\ t \in {"Gray", "Gray16", "RGB", "RGBA", "RGB16"}
    BY <1>1, WriteKindIs, AsProgramIs
  <2>2. /\ t = "Gray" => d.bits = 8 /\ d.samples = 1
        /\ t = "Gray16" => d.bits = 16 /\ d.samples = 1
        /\ t = "RGB" => d.bits = 8 /\ d.samples = 3
        /\ t = "RGBA" => d.bits = 8 /\ d.samples = 4
        /\ t = "RGB16" => d.bits = 16 /\ d.samples = 3
    BY DEF Tells
  <2> QED
    BY <1>1, <2>1, <2>2, WriteKindIs, PixelSizeIs DEF RowFits, SmallTypes
<1>2. CASE k = "XYZ" \/ k = "LogLuv"
  <2>1. t \in {"XYZ", "LogLuv"}
    BY <1>2, WriteKindIs, AsProgramIs
  <2>2. d.samples = 3 /\ d.bits \in {16, 32}
    BY <2>1 DEF Tells
  <2> QED
    BY <1>2, <2>1, <2>2, PixelSizeIs DEF RowFits, SmallTypes
<1>3. CASE k = "LogL"
  <2>1. t \in {"Float", "LogL"}
    BY <1>3, WriteKindIs, AsProgramIs
  <2>2. d.samples = 1 /\ d.bits \in {16, 32}
    BY <2>1 DEF Tells
  <2> QED
    BY <1>3, <2>1, <2>2, PixelSizeIs DEF RowFits, SmallTypes
<1> QED
  BY <1>1, <1>2, <1>3, WriteKindIs

LEMMA ImageFits ==
  ASSUME NEW d, NEW t, NEW k \in ImageKinds, Tells(d, t), t = ImageFromCode[k] \/ t = ImageToCode[k]
  PROVE  t \notin SmallTypes /\ RowFits(d, k)
<1>1. \/ k = "gray" /\ t = "Gray"
      \/ k = "gray16" /\ t = "Gray16"
      \/ k = "RGB" /\ t = "RGB"
      \/ k = "RGBf" /\ t = "RGBf"
      \/ k = "RGBA" /\ t = "RGBA"
      \/ k = "XYZ" /\ t \in {"LogLuv", "XYZ"}
      \/ k = "float" /\ t = "Float"
  BY ImageKindIs
<1>2. /\ t = "Gray" => d.bits = 8 /\ d.samples = 1
      /\ t = "Gray16" => d.bits = 16 /\ d.samples = 1
      /\ t = "RGB" => d.bits = 8 /\ d.samples = 3
      /\ t = "RGBA" => d.bits = 8 /\ d.samples = 4
      /\ t = "Float" => d.bits = 32 /\ d.samples = 1
      /\ t \in {"LogLuv", "XYZ", "RGBf"} => d.bits \in {16, 32} /\ d.samples = 3
  BY DEF Tells
<1> QED
  BY <1>1, <1>2, PixelSizeIs DEF RowFits, SmallTypes

LEMMA FitsRoom ==
  ASSUME NEW d, NEW k, NEW w \in Nat, RowFits(d, k)
  PROVE  ScanlineSize(d, w) \in Nat /\ ScanlineSize(d, w) <= PixelSize[k] * w
         /\ PixelSize[k] * w \in Nat
BY RowBytes DEF RowFits, ScanlineSize

LEMMA PutRow ==
  ASSUME IInv, NEW f \in Files, NEW k, NEW x, NEW bytes, NEW b, Is(f, "w"),
         handle[f].rows < Height, x = KeptRow(given[f].type, RowToWrite(f)),
         Put(f, k, "write", <<Stored(handle[f], x)>>, bytes, b),
         ByOK(<<"write", k>>, given[f].type), Fit(bytes), BuffersOK(b)
  PROVE  IInv'
<1> DEFINE h == handle[f]
           g == given[f]
<1>1. MadeOK(g) /\ DirOK(h.dir, g) /\ h.rows \in Nat
  BY WriterHere DEF Writing, RowsOK
<1>2. PICK r : r = h.rows + 1
  OBVIOUS
<1>3. r \in 1 .. Height
  BY <1>1, <1>2, HeightType
<1>4. RowToWrite(f) = ImageRow(g, r)
  BY <1>1, <1>2, ImageHere DEF RowToWrite
<1>5. PICK s : s = Stored(h, x)
  OBVIOUS
<1>6. RowIs(s, r, h.dir.comp, g)
  BY <1>1, <1>4, <1>5, StoredIs
<1>7. s \in KeptRows(g)
  BY <1>3, <1>6, RowKept
<1>8. RowsAfter(<<s>>, h.rows, h.dir.comp, g)
  BY <1>2, <1>6, <1>7 DEF RowsAfter
<1>9. Len(<<s>>) \in Nat /\ Len(<<s>>) + h.rows <= Height
  BY <1>1, <1>2, <1>3
<1>10. Put(f, k, "write", <<s>>, bytes, b)
  BY <1>5
<1> QED
  BY <1>8, <1>9, <1>10, PutOK

LEMMA Step_TT_write ==
  ASSUME IInv, NEW f \in Files, NEW k \in WriteKinds, Is(f, "w"), handle[f].rows < Height,
         TT_write(f, k)
  PROVE  IInv'
<1> DEFINE d == handle[f].dir
           g == given[f]
<1>1. MadeOK(g) /\ DirOK(d, g)
  BY WriterHere DEF Writing
<1>2. CASE ProgramType(d) # TransferCode[k]
  <2>1. Exit(f, "write", k, "type")
    BY <1>2 DEF TT_write
  <2> QED
    BY <2>1, NotRead, ExitOK
<1>3. CASE ProgramType(d) = TransferCode[k]
  <2>1. PICK bytes : bytes = {[bytes |-> ScanlineSize(d, d.width), room |-> Room(f, k)]}
    OBVIOUS
  <2>2. Put(f, k, "write", <<Stored(handle[f], RowToWrite(f))>>, bytes, buffer)
    BY <1>3, <2>1 DEF TT_write
  <2>3. Tells(d, g.type) /\ AsProgram(g.type) = TransferCode[k]
    BY <1>1, <1>3, LooksTells, ProgramTypeIs DEF DirOK
  <2>4. g.type \notin SmallTypes /\ RowFits(d, k)
    BY <2>3, TransferFits
  <2>5. ScanlineSize(d, d.width) <= Room(f, k)
    BY <1>1, <2>4, FitsRoom DEF Room, DirOK, MadeOK
  <2>6. Fit(bytes)
    BY <2>1, <2>5 DEF Fit
  <2>7. ByOK(<<"write", k>>, g.type)
    BY <2>3 DEF ByOK
  <2>8. RowToWrite(f) = KeptRow(g.type, RowToWrite(f))
    BY <2>4, KeptPlain
  <2> QED
    BY <2>2, <2>6, <2>7, <2>8, FileHere, PutRow
<1> QED
  BY <1>2, <1>3

(* The scanline_buffers.                                                   *)
LEMMA GrownOK ==
  ASSUME NEW b, BufferOK(b), NEW n \in Nat
  PROVE  BufferOK(Grown(b, n)) /\ n <= Grown(b, n).size
BY DEF BufferOK, Grown

LEMMA ResizedOK ==
  ASSUME NEW b, BufferOK(b), NEW n \in Nat
  PROVE  BufferOK(Resized(b, n)) /\ n <= Resized(b, n).size
BY DEF BufferOK, Resized

LEMMA BufferSet ==
  ASSUME NEW B, BuffersOK(B), NEW c \in Routines, NEW b, BufferOK(b)
  PROVE  BuffersOK([B EXCEPT ![c] = b])
BY DEF BuffersOK

(* The kinds of rows of floats, and the types of their files.              *)
FloatKinds == {"float", "RGBf"}
FloatRow(d, t, k) ==
  \/ /\ k = "float" /\ d.samples = 1
     /\ \/ d.bits = 32 /\ t = "Float"
        \/ d.bits = 16 /\ t = "Float16"
        \/ d.bits = 24 /\ t = "Float24"
        \/ d.bits = 64 /\ t = "Double"
  \/ /\ k = "RGBf" /\ d.samples = 3
     /\ \/ d.bits = 32 /\ t = "RGBf"
        \/ d.bits = 16 /\ t = "RGBf16"
        \/ d.bits = 24 /\ t = "RGBf24"

LEMMA GrayFloatIs ==
  ASSUME NEW d, NEW t, Tells(d, t), IsGrayFloat(d)
  PROVE  FloatRow(d, t, "float")
BY DEF Tells, IsGrayFloat, FloatRow

LEMMA RGBFloatIs ==
  ASSUME NEW d, NEW t, Tells(d, t), IsRGBFloat(d)
  PROVE  FloatRow(d, t, "RGBf")
BY DEF Tells, IsRGBFloat, FloatRow

LEMMA FloatFits ==
  ASSUME NEW d, NEW t, NEW k \in FloatKinds, FloatRow(d, t, k), d.bits # 64
  PROVE  RowFits(d, k) /\ 4 * d.samples = PixelSize[k]
BY PixelSizeIs DEF FloatRow, RowFits

LEMMA FloatBytes ==
  ASSUME NEW f, NEW k \in FloatKinds, NEW t, NEW b, FloatRow(handle[f].dir, t, k),
         handle[f].dir.bits # 64, handle[f].dir.width = given[f].width, given[f].width \in Nat,
         BufferOK(b), ScanlineSize(handle[f].dir, handle[f].dir.width) <= b.size
  PROVE  Fit(ThroughBuffer(f, k, b))
<1> DEFINE d == handle[f].dir
<1>1. 4 * d.samples = PixelSize[k]
  BY FloatFits
<1>2. 4 * d.samples * d.width = Room(f, k) /\ Room(f, k) \in Nat
  BY <1>1, FloatFits DEF Room, RowFits
<1>3. PICK x : x = [bytes |-> ScanlineSize(d, d.width), room |-> b.size]
  OBVIOUS
<1>4. PICK y : y = [bytes |-> 4 * d.samples * d.width, room |-> Room(f, k)]
  OBVIOUS
<1>5. ThroughBuffer(f, k, b) = {x, y}
  BY <1>3, <1>4 DEF ThroughBuffer
<1>6. x.bytes <= x.room /\ y.bytes <= y.room
  BY <1>2, <1>3, <1>4
<1> QED
  BY <1>5, <1>6 DEF Fit

LEMMA WriteFloatsOK ==
  ASSUME IInv, NEW f \in Files, NEW k \in FloatKinds, NEW x, NEW routine \in Routines,
         Is(f, "w"), handle[f].rows < Height, FloatRow(handle[f].dir, given[f].type, k),
         x = KeptRow(given[f].type, RowToWrite(f)),
         WriteFloats(f, k, Stored(handle[f], x), routine)
  PROVE  IInv'
<1> DEFINE d == handle[f].dir
           g == given[f]
<1>1. MadeOK(g) /\ DirOK(d, g) /\ d.width = g.width /\ g.width \in Nat
  BY WriterHere DEF Writing, MadeOK, DirOK
<1>2. CASE d.bits = 64
  <2>1. Exit(f, "write", k, "type")
    BY <1>2 DEF WriteFloats
  <2> QED
    BY <2>1, NotRead, ExitOK
<1>3. CASE d.bits # 64
  <2>1. PICK n : n = ScanlineSize(d, d.width)
    OBVIOUS
  <2>2. n \in Nat /\ n <= Room(f, k)
    BY <1>1, <1>3, <2>1, FloatFits, FitsRoom DEF Room
  <2>3. ByOK(<<"write", k>>, g.type)
    BY <1>3 DEF FloatRow, ByOK
  <2>4. CASE d.bits = 32
    <3>1. PICK bytes : bytes = {[bytes |-> n, room |-> Room(f, k)]}
      OBVIOUS
    <3>2. Put(f, k, "write", <<Stored(handle[f], x)>>, bytes, buffer)
      BY <2>1, <2>4, <3>1 DEF WriteFloats
    <3>3. Fit(bytes)
      BY <2>2, <3>1 DEF Fit
    <3> QED
      BY <2>3, <3>2, <3>3, FileHere, PutRow
  <2>5. CASE d.bits # 32
    <3>1. d.bits \in {16, 24}
      BY <1>3, <2>5 DEF FloatRow
    <3>2. PICK b : b = Resized(buffer[routine], n)
      OBVIOUS
    <3>3. PICK B : B = [buffer EXCEPT ![routine] = b]
      OBVIOUS
    <3>4. Put(f, k, "write", <<Stored(handle[f], x)>>, ThroughBuffer(f, k, b), B)
      BY <2>1, <3>1, <3>2, <3>3 DEF WriteFloats
    <3>5. BufferOK(b) /\ n <= b.size
      BY <2>2, <3>2, FileHere, ResizedOK DEF BuffersOK
    <3>6. BuffersOK(B)
      BY <3>3, <3>5, FileHere, BufferSet
    <3>7. Fit(ThroughBuffer(f, k, b))
      BY <1>1, <1>3, <2>1, <3>5, FloatBytes
    <3> QED
      BY <2>3, <3>4, <3>6, <3>7, PutRow
  <2> QED
    BY <2>4, <2>5
<1> QED
  BY <1>2, <1>3

LEMMA Step_TT_float_write ==
  ASSUME IInv, NEW f \in Files, Is(f, "w"), handle[f].rows < Height, TT_float_write(f)
  PROVE  IInv'
<1> DEFINE d == handle[f].dir
           g == given[f]
           s == RowToWrite(f)
<1>1. CASE ~IsGrayFloat(d)
  <2>1. Exit(f, "write", "float", "type")
    BY <1>1 DEF TT_float_write
  <2> QED
    BY <2>1, NotRead, ExitOK
<1>2. CASE IsGrayFloat(d)
  <2>1. PICK row : row = CASE d.bits = 16 -> convert_float_32_16(s)
                           [] d.bits = 24 -> convert_float_32_24(s)
                           [] OTHER       -> s
    OBVIOUS
  <2>2. WriteFloats(f, "float", Stored(handle[f], row), "float_write")
    BY <1>2, <2>1 DEF TT_float_write
  <2>3. FloatRow(d, g.type, "float")
    BY <1>2, WriterHere, LooksTells, GrayFloatIs DEF Writing, DirOK
  <2>4. row = KeptRow(g.type, s)
    BY <2>1, <2>3 DEF FloatRow, KeptRow
  <2> QED
    BY <2>2, <2>3, <2>4, WriteFloatsOK DEF FloatKinds, Routines
<1> QED
  BY <1>1, <1>2

LEMMA Step_TT_RGBf_write ==
  ASSUME IInv, NEW f \in Files, Is(f, "w"), handle[f].rows < Height, TT_RGBf_write(f)
  PROVE  IInv'
<1> DEFINE d == handle[f].dir
           g == given[f]
           s == RowToWrite(f)
<1>1. CASE ~IsRGBFloat(d)
  <2>1. Exit(f, "write", "RGBf", "type")
    BY <1>1 DEF TT_RGBf_write
  <2> QED
    BY <2>1, NotRead, ExitOK
<1>2. CASE IsRGBFloat(d)
  <2>1. PICK row : row = CASE d.bits = 16 -> convert_RGB_float_32_16(s)
                           [] d.bits = 24 -> convert_RGB_float_32_24(s)
                           [] OTHER       -> s
    OBVIOUS
  <2>2. WriteFloats(f, "RGBf", Stored(handle[f], row), "RGBf_write")
    BY <1>2, <2>1 DEF TT_RGBf_write
  <2>3. FloatRow(d, g.type, "RGBf")
    BY <1>2, WriterHere, LooksTells, RGBFloatIs DEF Writing, DirOK
  <2>4. row = KeptRow(g.type, s)
    BY <2>1, <2>3 DEF FloatRow, KeptRow
  <2> QED
    BY <2>2, <2>3, <2>4, WriteFloatsOK DEF FloatKinds, Routines
<1> QED
  BY <1>1, <1>2

(* Whole images.                                                           *)
LEMMA ImageBytes ==
  ASSUME NEW n \in Nat, NEW m \in Nat, n <= m
  PROVE  Height * n <= Height * m
<1>1. PICK y \in Nat : y = Height
  BY HeightType
<1>2. y * n <= y * m
  OBVIOUS
<1> QED
  BY <1>1, <1>2

LEMMA ImageKept ==
  ASSUME NEW h, NEW g, MadeOK(g), DirOK(h.dir, g), g.type \notin SmallTypes, NEW rows, NEW image,
         image = Image(g.width, h.dir.samples, g.start),
         rows = [r \in 1 .. Height |-> Stored(h, image[r])]
  PROVE  Len(rows) = Height /\ RowsAfter(rows, 0, h.dir.comp, g)
<1>1. DOMAIN rows = 1 .. Height /\ Height \in Nat
  BY HeightType
<1>2. ASSUME NEW r \in 1 .. Height
      PROVE  rows[r] \in KeptRows(g) /\ RowIs(rows[r], r, h.dir.comp, g)
  <2>1. rows[r] = Stored(h, ImageRow(g, r))
    BY ImageHere
  <2>2. ImageRow(g, r) = KeptRow(g.type, ImageRow(g, r))
    BY KeptPlain
  <2>3. RowIs(rows[r], r, h.dir.comp, g)
    BY <2>1, <2>2, StoredIs
  <2> QED
    BY <2>3, RowKept
<1>3. rows \in Seq(KeptRows(g)) /\ Len(rows) = Height
  BY <1>1, <1>2
<1> QED
  BY <1>1, <1>2, <1>3 DEF RowsAfter

LEMMA Step_image_to_file ==
  ASSUME IInv, NEW f \in Files, NEW k \in ImageKinds, Is(f, "w"), handle[f].rows = 0,
         image_to_file(f, k)
  PROVE  IInv'
<1> DEFINE h == handle[f]
           d == h.dir
           g == given[f]
<1>1. MadeOK(g) /\ DirOK(d, g) /\ Looks(d, g.type) /\ d.width = g.width /\ g.width \in Nat
  BY WriterHere DEF Writing, DirOK, MadeOK
<1>2. TT_file_type(d) = g.type /\ Tells(d, g.type)
  BY <1>1, LooksType, LooksTells
<1>3. CASE TT_file_type(d) # ImageToCode[k]
  <2>1. Exit(f, "to_file", k, "type")
    BY <1>3 DEF image_to_file
  <2> QED
    BY <2>1, NotRead, ExitOK
<1>4. CASE TT_file_type(d) = ImageToCode[k]
  <2>1. PICK image : image = Image(g.width, d.samples, g.start)
    OBVIOUS
  <2>2. PICK rows : rows = [r \in 1 .. Height |-> Stored(h, image[r])]
    OBVIOUS
  <2>3. PICK bytes : bytes = {[bytes |-> Height * ScanlineSize(d, d.width),
                               room |-> Height * Room(f, k)]}
    OBVIOUS
  <2>4. Put(f, k, "to_file", rows, bytes, buffer)
    BY <1>1, <1>4, <2>1, <2>2, <2>3 DEF image_to_file
  <2>5. g.type = ImageToCode[k] /\ g.type \notin SmallTypes /\ RowFits(d, k)
    BY <1>2, <1>4, ImageFits
  <2>6. ScanlineSize(d, d.width) \in Nat /\ Room(f, k) \in Nat /\ ScanlineSize(d, d.width) <= Room(f, k)
    BY <1>1, <2>5, FitsRoom DEF Room
  <2>7. Fit(bytes)
    BY <2>3, <2>6, ImageBytes DEF Fit
  <2>8. ByOK(<<"to_file", k>>, g.type)
    BY <2>5 DEF ByOK
  <2>9. Len(rows) = Height /\ RowsAfter(rows, 0, d.comp, g)
    BY <1>1, <2>1, <2>2, <2>5, ImageKept
  <2>10. /\ RowsAfter(rows, h.rows, d.comp, g) /\ Len(rows) \in Nat
         /\ Len(rows) + h.rows <= Height /\ h.rows < Height
    BY <2>9, HeightType
  <2> QED
    BY <2>4, <2>7, <2>8, <2>10, FileHere, PutOK
<1> QED
  BY <1>3, <1>4

-----------------------------------------------------------------------------
(* New files.                                                              *)
LEMMA NewHere ==
  ASSUME IInv, NEW f \in Files, New(f)
  PROVE  /\ DOMAIN disk[f] = {"dir", "rows", "exif"} /\ disk[f].dir = None
         /\ disk[f].rows = Nothing /\ handle[f] = None
BY FileHere, NotOpen, NoneClosed DEF New, Is, FileOK, Unmade, MadeOK

LEMMA NewDirectoryIs ==
  ASSUME NEW p, NEW w, NEW d, d = NewDirectory(p, w)
  PROVE  /\ DOMAIN d = DirFields /\ SameTagsAs(d, p) /\ d.width = w /\ d.comp = "none"
         /\ d.pred = "none" /\ d.alpha = "none" /\ d.desc = Nothing /\ d.stonits = Nothing
         /\ d.exif = 0
BY DEF NewDirectory, DirFields, SameTagsAs

(* What TT_open_write makes of a directory.                                *)
Fresh(h, t, w) ==
  /\ DOMAIN h = HandleFields /\ h.mode = "w" /\ h.rows = 0 /\ DOMAIN h.dir = DirFields
  /\ Looks(h.dir, t) /\ h.dir.width = w /\ h.dir.pred = "none" /\ h.dir.photo # "YCBCR"
  /\ h.dir.comp = "none" \/ (h.dir.comp = "SGILOG" /\ t \in LogTypes)
  /\ h.dir.desc = Nothing /\ h.dir.stonits = Nothing /\ h.dir.exif = 0

LEMMA CreatedIs ==
  ASSUME NEW t \in Creatable, NEW w, NEW h, h = Created(t, w)
  PROVE  Fresh(h, t, w)
<1>1. PICK p : p = TT_type2parms(t)
  OBVIOUS
<1>2. Looks(p, t) /\ p.photo # "YCBCR"
  BY <1>1, ParmsOfType
<1>3. PICK d : d = NewDirectory(p, w)
  OBVIOUS
<1>4. /\ DOMAIN d = DirFields /\ SameTagsAs(d, p) /\ d.width = w /\ d.comp = "none"
      /\ d.pred = "none" /\ d.alpha = "none" /\ d.desc = Nothing /\ d.stonits = Nothing
      /\ d.exif = 0
  BY <1>3, NewDirectoryIs
<1>5. Looks(d, t) /\ d.photo # "YCBCR"
  BY <1>2, <1>4, LooksAgain DEF SameTagsAs
<1>6. PICK h0 : h0 = Opened("w", d)
  OBVIOUS
<1>7. /\ DOMAIN h0 = HandleFields /\ h0.mode = "w" /\ h0.dir = d /\ h0.rows = 0
  BY <1>6, OpenedIs
<1>8. CASE t \in {"LogLuv", "LogL"}
  <2>1. PICK e : e = [d EXCEPT !.comp = "SGILOG"]
    OBVIOUS
  <2>2. PICK h1 : h1 = [h0 EXCEPT !.dir = e]
    OBVIOUS
  <2>3. h = SetLogFormat(h1)
    BY <1>1, <1>3, <1>6, <1>7, <1>8, <2>1, <2>2 DEF Created
  <2>4. DOMAIN h1 = HandleFields /\ h1.mode = "w" /\ h1.dir = e /\ h1.rows = 0
    BY <1>7, <2>2 DEF HandleFields
  <2>5. /\ DOMAIN e = DirFields /\ SameTagsAs(e, d) /\ e.width = w /\ e.comp = "SGILOG"
        /\ e.pred = "none" /\ e.desc = Nothing /\ e.stonits = Nothing /\ e.exif = 0
    BY <1>4, <2>1 DEF DirFields, SameTagsAs
  <2>6. PICK g : g = [type |-> t, width |-> w, jpeg |-> FALSE, packed |-> TRUE]
    OBVIOUS
  <2>7. Looks(e, t)
    BY <1>5, <2>5, LooksAgain
  <2>8. DirOK(e, g)
    BY <1>5, <1>8, <2>5, <2>6, <2>7 DEF DirOK, LogTypes, SameTagsAs
  <2>9. /\ DOMAIN h = HandleFields /\ h.mode = h1.mode /\ h.rows = h1.rows
        /\ DirOK(h.dir, g) /\ SameRest(h.dir, e)
    BY <2>3, <2>4, <2>8, SetLogFormatOK
  <2>10. Looks(h.dir, t) /\ DOMAIN h.dir = DirFields /\ h.dir.photo # "YCBCR"
    BY <2>6, <2>9 DEF DirOK
  <2> QED
    BY <1>8, <2>4, <2>5, <2>9, <2>10 DEF Fresh, SameRest, LogTypes
<1>9. CASE t = "RGBA"
  <2>1. PICK e : e = [d EXCEPT !.alpha = "ASSOCALPHA"]
    OBVIOUS
  <2>2. h = [h0 EXCEPT !.dir = e]
    BY <1>1, <1>3, <1>6, <1>7, <1>9, <2>1 DEF Created
  <2>3. DOMAIN h = HandleFields /\ h.mode = "w" /\ h.dir = e /\ h.rows = 0
    BY <1>7, <2>2 DEF HandleFields
  <2>4. /\ DOMAIN e = DirFields /\ SameTagsAs(e, d) /\ e.width = w /\ e.comp = "none"
        /\ e.pred = "none" /\ e.desc = Nothing /\ e.stonits = Nothing /\ e.exif = 0
    BY <1>4, <2>1 DEF DirFields, SameTagsAs
  <2>5. Looks(e, t) /\ e.photo # "YCBCR"
    BY <1>5, <2>4, LooksAgain DEF SameTagsAs
  <2> QED
    BY <2>3, <2>4, <2>5 DEF Fresh
<1>10. CASE t \notin {"LogLuv", "LogL", "RGBA"}
  <2>1. h = h0
    BY <1>1, <1>3, <1>6, <1>10 DEF Created
  <2> QED
    BY <1>4, <1>5, <1>7, <2>1 DEF Fresh
<1> QED
  BY <1>8, <1>9, <1>10

FreshlyMeant(g, t, w, p) ==
  /\ MadeOK(g) /\ g.type = t /\ g.width = w /\ g.start = p /\ g.focal = Nothing
  /\ g.desc = Nothing /\ g.stonits = Nothing /\ g.alpha = Created(t, w).dir.alpha
  /\ t \in LogTypes => g.packed

LEMMA MeantIs ==
  ASSUME NEW t \in Creatable, NEW w \in Nat, w > 0, NEW p \in Nat
  PROVE  FreshlyMeant(Meant(t, w, p), t, w, p)
BY DEF Meant, MadeOK, GivenFields, ByOK, FreshlyMeant, LogTypes

LEMMA FreshOK ==
  ASSUME NEW h, NEW t, NEW w, NEW g, Fresh(h, t, w), g.type = t, g.width = w, t \in LogTypes => g.packed
  PROVE  DirOK(h.dir, g)
BY DEF Fresh, DirOK

LEMMA InputTypes ==
  ASSUME NEW f \in Files
  PROVE  Types[f] \subseteq Creatable /\ Widths[f] \subseteq Nat \ {0} /\ Starts \subseteq Nat
BY TiffAssumption DEF TiffAssumption

LEMMA Step_TT_open_write ==
  ASSUME IInv, NEW f \in Files, NEW t \in Types[f], NEW w \in Widths[f], NEW p \in Starts,
         TT_open_write(f, t, w, p)
  PROVE  IInv'
<1>1. t \in Creatable /\ w \in Nat /\ w > 0 /\ p \in Nat
  BY InputTypes
<1>2. PICK h : h = Created(t, w)
  OBVIOUS
<1>3. PICK g : g = Meant(t, w, p)
  OBVIOUS
<1>4. /\ New(f) /\ handle' = [handle EXCEPT ![f] = h] /\ given' = [given EXCEPT ![f] = g]
      /\ result' = Done /\ disk' = disk /\ buffer' = buffer
  BY <1>2, <1>3 DEF TT_open_write
<1>5. Fresh(h, t, w)
  BY <1>1, <1>2, CreatedIs
<1>6. /\ MadeOK(g) /\ g.type = t /\ g.width = w /\ g.start = p /\ g.focal = Nothing
      /\ g.desc = Nothing /\ g.stonits = Nothing /\ g.alpha = Created(t, w).dir.alpha /\ (t \in LogTypes => g.packed)
  <2>1. FreshlyMeant(g, t, w, p)
    BY <1>1, <1>3, MeantIs
  <2> QED
    BY <2>1 DEF FreshlyMeant
<1>7. DirOK(h.dir, g)
  BY <1>5, <1>6, FreshOK
<1>8. SameTags(h.dir, g)
  BY <1>2, <1>5, <1>6 DEF SameTags, Fresh
<1>9. DOMAIN disk[f] = {"dir", "rows", "exif"} /\ disk[f].dir = None /\ disk[f].rows = Nothing
  BY <1>4, NewHere
<1>10. RowsOK(disk[f].rows, h.dir.comp, g)
  BY <1>9 DEF RowsOK, Nothing
<1>11. Writing(disk[f], h, g)
  BY <1>5, <1>6, <1>7, <1>8, <1>9, <1>10, HeightType DEF Writing, Fresh, FocalOK, Nothing
<1>12. FileOK(disk[f], h, g)
  BY <1>6, <1>9, <1>11 DEF FileOK
<1>13. Others(f, handle, handle') /\ handle'[f] = h /\ Others(f, given, given') /\ given'[f] = g
  BY <1>4, FileHere DEF Others, Each
<1> QED
  BY <1>4, <1>12, <1>13, FileHere, DoneOK, StepOK

LEMMA Step_image_to_filename_description ==
  ASSUME IInv, NEW f \in Files, NEW k \in ImageKinds, NEW w \in Widths[f], NEW p \in Starts, NEW text,
         ImageToCode[k] \in Types[f], image_to_filename_description(f, k, w, p, text)
  PROVE  IInv'
<1>1. PICK t : t = ImageToCode[k]
  OBVIOUS
<1>2. t \in Creatable /\ w \in Nat /\ w > 0 /\ p \in Nat
  BY <1>1, InputTypes
<1>3. PICK h : h = Created(t, w)
  OBVIOUS
<1>4. PICK d : d = [h.dir EXCEPT !.desc = text]
  OBVIOUS
<1>5. PICK g0 : g0 = Meant(t, w, p)
  OBVIOUS
<1>6. PICK g : g = [g0 EXCEPT !.by = <<"to_file", k>>, !.desc = text]
  OBVIOUS
<1>7. PICK image : image = Image(w, d.samples, p)
  OBVIOUS
<1>8. PICK rows : rows = [r \in 1 .. Height |-> Stored(h, image[r])]
  OBVIOUS
<1>9. PICK x : x = [dir |-> d, rows |-> rows, exif |-> Nothing]
  OBVIOUS
<1>10. /\ New(f) /\ disk' = [disk EXCEPT ![f] = x] /\ given' = [given EXCEPT ![f] = g]
       /\ result' = Done /\ handle' = handle /\ buffer' = buffer
  BY <1>1, <1>3, <1>4, <1>5, <1>6, <1>7, <1>8, <1>9 DEF image_to_filename_description
<1>11. Fresh(h, t, w)
  BY <1>2, <1>3, CreatedIs
<1>12. /\ MadeOK(g0) /\ g0.type = t /\ g0.width = w /\ g0.start = p /\ g0.focal = Nothing
       /\ g0.desc = Nothing /\ g0.stonits = Nothing /\ g0.alpha = Created(t, w).dir.alpha /\ (t \in LogTypes => g0.packed)
  <2>1. FreshlyMeant(g0, t, w, p)
    BY <1>2, <1>5, MeantIs
  <2> QED
    BY <2>1 DEF FreshlyMeant
<1>13. /\ DOMAIN g = GivenFields /\ g.by = <<"to_file", k>> /\ g.desc = text
       /\ \A j \in GivenFields \ {"by", "desc"} : g[j] = g0[j]
  BY <1>6, <1>12 DEF MadeOK, GivenFields
<1>14. ByOK(g.by, t)
  BY <1>1, <1>13 DEF ByOK
<1>15. /\ MadeOK(g) /\ g.type = t /\ g.width = w /\ g.start = p /\ g.focal = Nothing
       /\ g.stonits = Nothing /\ g.alpha = h.dir.alpha /\ (t \in LogTypes => g.packed)
  BY <1>3, <1>12, <1>13, <1>14 DEF MadeOK, GivenFields
<1>16. /\ DOMAIN d = DirFields /\ SameTagsAs(d, h.dir) /\ d.desc = text /\ d.comp = h.dir.comp
       /\ d.pred = h.dir.pred /\ d.width = h.dir.width /\ d.stonits = h.dir.stonits
       /\ d.alpha = h.dir.alpha /\ d.exif = h.dir.exif
  BY <1>4, <1>11 DEF Fresh, DirFields, SameTagsAs
<1>17. Looks(d, t) /\ DirOK(h.dir, g)
  BY <1>11, <1>15, <1>16, LooksAgain, FreshOK DEF Fresh
<1>18. DirOK(d, g)
  BY <1>15, <1>16, <1>17 DEF DirOK, SameTagsAs
<1>19. SameTags(d, g)
  BY <1>11, <1>13, <1>15, <1>16 DEF SameTags, Fresh
<1>20. g.type \notin SmallTypes
  BY <1>1, <1>15, <1>17, ImageFits, LooksTells
<1>21. image = Image(g.width, h.dir.samples, g.start)
  BY <1>7, <1>15, <1>16 DEF SameTagsAs
<1>22. Len(rows) = Height /\ RowsAfter(rows, 0, h.dir.comp, g)
  BY <1>8, <1>15, <1>17, <1>20, <1>21, ImageKept
<1>23. RowsOK(rows, d.comp, g)
  BY <1>16, <1>22, HeightType DEF RowsAfter, RowsOK
<1>24. x.dir = d /\ x.rows = rows /\ DOMAIN x = {"dir", "rows", "exif"}
  BY <1>9
<1>25. Complete(x, g)
  BY <1>15, <1>18, <1>19, <1>22, <1>23, <1>24 DEF Complete, DiskOK, FocalOK
<1>26. FileOK(x, None, g)
  BY <1>15, <1>24, <1>25 DEF FileOK
<1>27. handle[f] = None
  BY <1>10, NewHere
<1>28. Others(f, disk, disk') /\ disk'[f] = x /\ Others(f, given, given') /\ given'[f] = g
  BY <1>10, FileHere DEF Others, Each
<1> QED
  BY <1>10, <1>26, <1>27, <1>28, FileHere, DoneOK, StepOK

-----------------------------------------------------------------------------
(* Rows that are read.                                                     *)
LEMMA ImageRowIs ==
  ASSUME NEW g, MadeOK(g), NEW r \in 1 .. Height
  PROVE  /\ ImageRow(g, r) \in Seq(FloatNumbers)
         /\ \E n \in Nat : n = TT_type2parms(g.type).samples /\ Len(ImageRow(g, r)) = g.width * n
<1>1. PICK p : p = TT_type2parms(g.type)
  OBVIOUS
<1>2. Looks(p, g.type)
  BY <1>1, ParmsOfType DEF MadeOK
<1>3. p.samples \in Nat
  BY <1>2, LooksTells, SameSamples
<1>4. PICK n \in Nat : n = p.samples
  BY <1>3
<1>5. PICK m \in Nat : m = g.width * n
  BY <1>4 DEF MadeOK
<1>6. PICK a \in Nat : a = g.start + r * m
  BY <1>5, HeightType DEF MadeOK
<1>7. PICK l \in Nat \ {0} : l = Len(Samples)
  BY TiffAssumption DEF TiffAssumption
<1>8. \A i \in 1 .. l : Samples[i] \in FloatNumbers
  <2>1. Samples \in Seq(FloatNumbers)
    BY TiffAssumption, Zenon DEF TiffAssumption, FloatNumbers
  <2> QED
    BY <1>7, <2>1
<1>9. \A i \in 1 .. m : ((a + i) % l) + 1 \in 1 .. l
  BY <1>6, <1>7
<1>10. ImageRow(g, r) = [i \in 1 .. m |-> Samples[((a + i) % l) + 1]]
  BY <1>1, <1>4, <1>5, <1>6, <1>7 DEF ImageRow, Image
<1>11. ImageRow(g, r) \in Seq(FloatNumbers) /\ Len(ImageRow(g, r)) = m
  BY <1>8, <1>9, <1>10
<1> QED
  BY <1>1, <1>4, <1>5, <1>11

LEMMA RowFields ==
  ASSUME NEW s, NEW r, NEW comp, NEW g, RowIs(s, r, comp, g)
  PROVE  /\ DOMAIN s = {"samples", "coded"} /\ s.coded \in Codings
         /\ s.samples = KeptRow(g.type, ImageRow(g, r))
         /\ s.coded = "log" => comp = "SGILOG"
         /\ s.coded = "ycc" => g.jpeg /\ g.type = "RGB"
BY DEF RowIs, Row

LEMMA DecodedIs ==
  ASSUME NEW s, NEW h, NEW e, DOMAIN s = {"samples", "coded"}, e = Decoded(h, s),
         s.coded = "log" => h.datafmt = "FLOAT"
  PROVE  DOMAIN e = {"samples", "coded"} /\ e.samples = s.samples /\ e.coded = "plain"
BY DEF Decoded

LEMMA BackPlain ==
  ASSUME NEW s, NEW r \in 1 .. Height, NEW comp, NEW g, MadeOK(g), RowIs(s, r, comp, g),
         NEW h, s.coded = "log" => h.datafmt = "FLOAT", g.type \notin SmallTypes
  PROVE  RowBack(Decoded(h, s), s, ImageRow(g, r), g.type)
<1>1. PICK e : e = Decoded(h, s)
  OBVIOUS
<1>2. e.samples = ImageRow(g, r) /\ e.coded = "plain"
  BY <1>1, RowFields, DecodedIs, KeptPlain
<1>3. \A i \in DOMAIN ImageRow(g, r) :
        AsWritten(g.type, e.samples[i], s.samples[i], ImageRow(g, r)[i])
  BY <1>2 DEF AsWritten, SmallTypes
<1> QED
  BY <1>1, <1>2, <1>3 DEF RowBack

(* Pixels of three components.                                             *)
LEMMA PixelPlaces ==
  ASSUME NEW w \in Nat
  PROVE  UNION {{RED(p), GREEN(p), BLUE(p)} : p \in 1 .. w} = 1 .. 3 * w
<1> DEFINE U == UNION {{RED(p), GREEN(p), BLUE(p)} : p \in 1 .. w}
<1>1. U \subseteq 1 .. 3 * w
  BY DEF RED, GREEN, BLUE
<1>2. ASSUME NEW i \in 1 .. 3 * w PROVE i \in U
  <2>1. PICK p : p = (i + 2) \div 3
    OBVIOUS
  <2>2. p \in 1 .. w /\ (i = 3 * p - 2 \/ i = 3 * p - 1 \/ i = 3 * p)
    BY <2>1
  <2>3. i \in {RED(p), GREEN(p), BLUE(p)}
    BY <2>2 DEF RED, GREEN, BLUE
  <2> QED
    BY <2>2, <2>3
<1> QED
  BY <1>1, <1>2

LEMMA RGBConverted ==
  ASSUME NEW x, NEW w \in Nat, DOMAIN x = 1 .. 3 * w, Len(x) = 3 * w
  PROVE  /\ convert_RGB_float_32_16(x) = convert_float_32_16(x)
         /\ convert_RGB_float_32_24(x) = convert_float_32_24(x)
         /\ convert_RGB_float_16_32(x) = convert_float_16_32(x)
         /\ convert_RGB_float_24_32(x) = convert_float_24_32(x)
<1>1. Len(x) \div 3 = w
  OBVIOUS
<1>2. UNION {{RED(p), GREEN(p), BLUE(p)} : p \in 1 .. Len(x) \div 3} = DOMAIN x
  BY <1>1, PixelPlaces
<1>3. convert_RGB_float_32_16(x) = convert_float_32_16(x)
  BY <1>2 DEF convert_RGB_float_32_16, convert_float_32_16, ByPixel
<1>4. convert_RGB_float_32_24(x) = convert_float_32_24(x)
  BY <1>2 DEF convert_RGB_float_32_24, convert_float_32_24, ByPixel
<1>5. convert_RGB_float_16_32(x) = convert_float_16_32(x)
  BY <1>2 DEF convert_RGB_float_16_32, convert_float_16_32, ByPixel
<1>6. convert_RGB_float_24_32(x) = convert_float_24_32(x)
  BY <1>2 DEF convert_RGB_float_24_32, convert_float_24_32, ByPixel
<1> QED
  BY <1>3, <1>4, <1>5, <1>6

(* There and back for the rows of small floats.                            *)
LEMMA HalfRowBack ==
  ASSUME NEW x \in Seq(FloatNumbers), NEW k, k = convert_float_32_16(x),
         NEW y, y = convert_float_16_32(k), NEW t, t = "Float16" \/ t = "RGBf16"
  PROVE  /\ DOMAIN k = 1 .. Len(x) /\ Len(k) = Len(x) /\ Len(y) = Len(x)
         /\ \A i \in DOMAIN x : AsWritten(t, y[i], k[i], x[i])
<1>1. DOMAIN x = 1 .. Len(x) /\ Len(x) \in Nat
  OBVIOUS
<1>2. DOMAIN k = DOMAIN x /\ \A i \in DOMAIN x : k[i] = FromFloat(Half, x[i])
  BY DEF convert_float_32_16, float_to_half
<1>3. DOMAIN y = DOMAIN x /\ \A i \in DOMAIN x : y[i] = ToFloat(Half, k[i])
  BY <1>2 DEF convert_float_16_32, half_to_float
<1>4. Len(k) = Len(x) /\ Len(y) = Len(x)
  <2>1. k = [i \in 1 .. Len(x) |-> k[i]] /\ y = [i \in 1 .. Len(x) |-> y[i]]
    BY <1>1, <1>2, <1>3 DEF convert_float_32_16, convert_float_16_32
  <2> QED
    BY <1>1, <2>1
<1>5. ASSUME NEW i \in DOMAIN x PROVE AsWritten(t, y[i], k[i], x[i])
  <2>1. x[i] \in FloatNumbers
    BY <1>1
  <2>2. AsKept(Half, ToFloat(Half, FromFloat(Half, x[i])), FromFloat(Half, x[i]), x[i])
    BY <2>1, ThereAndBack
  <2>3. AsKept(Half, y[i], k[i], x[i])
    BY <1>2, <1>3, <2>2
  <2> QED
    BY <2>3 DEF AsWritten
<1> QED
  BY <1>1, <1>2, <1>4, <1>5

LEMMA TripleRowBack ==
  ASSUME NEW x \in Seq(FloatNumbers), NEW k, k = convert_float_32_24(x),
         NEW y, y = convert_float_24_32(k), NEW t, t = "Float24" \/ t = "RGBf24"
  PROVE  /\ DOMAIN k = 1 .. Len(x) /\ Len(k) = Len(x) /\ Len(y) = Len(x)
         /\ \A i \in DOMAIN x : AsWritten(t, y[i], k[i], x[i])
<1>1. DOMAIN x = 1 .. Len(x) /\ Len(x) \in Nat
  OBVIOUS
<1>2. DOMAIN k = DOMAIN x /\ \A i \in DOMAIN x : k[i] = FromFloat(Triple, x[i])
  BY DEF convert_float_32_24, float_to_triple
<1>3. DOMAIN y = DOMAIN x /\ \A i \in DOMAIN x : y[i] = ToFloat(Triple, k[i])
  BY <1>2 DEF convert_float_24_32, triple_to_float
<1>4. Len(k) = Len(x) /\ Len(y) = Len(x)
  <2>1. k = [i \in 1 .. Len(x) |-> k[i]] /\ y = [i \in 1 .. Len(x) |-> y[i]]
    BY <1>1, <1>2, <1>3 DEF convert_float_32_24, convert_float_24_32
  <2> QED
    BY <1>1, <2>1
<1>5. ASSUME NEW i \in DOMAIN x PROVE AsWritten(t, y[i], k[i], x[i])
  <2>1. x[i] \in FloatNumbers
    BY <1>1
  <2>2. \/ IsDenormal(FromFloat(Triple, x[i]))
        \/ AsKept(Triple, ToFloat(Triple, FromFloat(Triple, x[i])), FromFloat(Triple, x[i]), x[i])
    BY <2>1, ThereAndBack
  <2>3. IsDenormal(k[i]) \/ AsKept(Triple, y[i], k[i], x[i])
    BY <1>2, <1>3, <2>2
  <2> QED
    BY <2>3 DEF AsWritten
<1> QED
  BY <1>1, <1>2, <1>4, <1>5

(* What the routines for floats make of a row of a file of type t.         *)
FromKept(t, k) ==
  CASE t = "Float16" -> convert_float_16_32(k)
    [] t = "Float24" -> convert_float_24_32(k)
    [] t = "RGBf16"  -> convert_RGB_float_16_32(k)
    [] t = "RGBf24"  -> convert_RGB_float_24_32(k)
    [] OTHER         -> k

LEMMA ThreeSamples ==
  ASSUME NEW g, MadeOK(g), NEW r \in 1 .. Height, g.type \in {"RGBf16", "RGBf24"}
  PROVE  \E w \in Nat : DOMAIN ImageRow(g, r) = 1 .. 3 * w /\ Len(ImageRow(g, r)) = 3 * w
<1>1. PICK p : p = TT_type2parms(g.type)
  OBVIOUS
<1>2. Tells(p, g.type)
  BY <1>1, ParmsOfType, LooksTells DEF MadeOK
<1>3. p.samples = 3
  BY <1>2 DEF Tells
<1>4. ImageRow(g, r) \in Seq(FloatNumbers) /\ Len(ImageRow(g, r)) = g.width * p.samples
  BY <1>1, ImageRowIs
<1>5. g.width \in Nat
  BY DEF MadeOK
<1> QED
  BY <1>3, <1>4, <1>5

LEMMA KeptBack ==
  ASSUME NEW g, MadeOK(g), NEW r \in 1 .. Height, NEW k, k = KeptRow(g.type, ImageRow(g, r)),
         NEW y, y = FromKept(g.type, k)
  PROVE  /\ Len(y) = Len(ImageRow(g, r))
         /\ \A i \in DOMAIN ImageRow(g, r) : AsWritten(g.type, y[i], k[i], ImageRow(g, r)[i])
<1>1. PICK x : x = ImageRow(g, r)
  OBVIOUS
<1>2. x \in Seq(FloatNumbers)
  BY <1>1, ImageRowIs
<1>3. g.type \in {"RGBf16", "RGBf24"} => \E w \in Nat : DOMAIN x = 1 .. 3 * w /\ Len(x) = 3 * w
  BY <1>1, ThreeSamples
<1>4. CASE g.type = "Float16" \/ g.type = "RGBf16"
  <2>1. k = convert_float_32_16(x)
    BY <1>1, <1>3, <1>4, RGBConverted DEF KeptRow
  <2>2. DOMAIN k = 1 .. Len(x) /\ Len(k) = Len(x)
    BY <1>2, <1>4, <2>1, HalfRowBack
  <2>3. y = convert_float_16_32(k)
    BY <1>3, <1>4, <2>2, RGBConverted DEF FromKept
  <2> QED
    BY <1>1, <1>2, <1>4, <2>1, <2>3, HalfRowBack
<1>5. CASE g.type = "Float24" \/ g.type = "RGBf24"
  <2>1. k = convert_float_32_24(x)
    BY <1>1, <1>3, <1>5, RGBConverted DEF KeptRow
  <2>2. DOMAIN k = 1 .. Len(x) /\ Len(k) = Len(x)
    BY <1>2, <1>5, <2>1, TripleRowBack
  <2>3. y = convert_float_24_32(k)
    BY <1>3, <1>5, <2>2, RGBConverted DEF FromKept
  <2> QED
    BY <1>1, <1>2, <1>5, <2>1, <2>3, TripleRowBack
<1>6. CASE g.type \notin SmallTypes
  <2>1. y = x
    BY <1>1, <1>6, KeptPlain DEF FromKept, SmallTypes
  <2> QED
    BY <1>1, <1>6, <2>1 DEF AsWritten, SmallTypes
<1> QED
  BY <1>4, <1>5, <1>6 DEF SmallTypes

LEMMA BackAgain ==
  ASSUME NEW s, NEW r \in 1 .. Height, NEW comp, NEW g, MadeOK(g), RowIs(s, r, comp, g),
         NEW h, s.coded = "log" => h.datafmt = "FLOAT",
         NEW e, e = [Decoded(h, s) EXCEPT !.samples = FromKept(g.type, s.samples)]
  PROVE  RowBack(e, s, ImageRow(g, r), g.type)
<1>1. PICK c : c = Decoded(h, s)
  OBVIOUS
<1>2. DOMAIN c = {"samples", "coded"} /\ c.coded = "plain"
  BY <1>1, RowFields, DecodedIs
<1>3. PICK y : y = FromKept(g.type, s.samples)
  OBVIOUS
<1>4. e.coded = "plain" /\ e.samples = y
  BY <1>1, <1>2, <1>3
<1>5. /\ Len(y) = Len(ImageRow(g, r))
      /\ \A i \in DOMAIN ImageRow(g, r) :
            AsWritten(g.type, y[i], s.samples[i], ImageRow(g, r)[i])
  BY <1>3, RowFields, KeptBack
<1> QED
  BY <1>4, <1>5 DEF RowBack

(* What a call that reads reports.                                         *)
RowsBack(rows, kept, g) ==
  \A r \in DOMAIN rows : RowBack(rows[r], kept[r], ImageRow(g, r), g.type)

LEMMA GetOK ==
  ASSUME IInv, NEW f \in Files, NEW rows, NEW bytes, Get(f, rows, bytes), Fit(bytes),
         RowsBack(rows, disk[f].rows, given[f]), Others(f, handle, handle'),
         FileOK(disk[f], handle'[f], given[f]), BuffersOK(buffer'),
         \A x \in Files \ {f} : handle[x] = None,
         handle'[f].mode = "r" => \A r \in DOMAIN rows : r + 1 \in DOMAIN rows \/ handle'[f].rows = r
  PROVE  IInv'
<1>1. result'.is = "rows" /\ result'.file = f /\ result'.rows = rows /\ result'.copied = bytes
  BY DEF Get
<1>2. disk' = disk /\ given' = given
  BY DEF Get
<1>3. ReportOK(result', disk', given')
  BY <1>1, <1>2, Zenon DEF ReportOK, RowsBack
<1>4. RowPoised(result', handle')
  <2>1. \A x \in Files \ {f} : handle'[x].mode # "r"
    BY NoneClosed DEF Others
  <2> QED
    BY <1>1, <2>1 DEF RowPoised
<1> QED
  BY <1>2, <1>3, <1>4, FileHere, StepOK

LEMMA KeptHere ==
  ASSUME NEW d, NEW h, NEW g, Reading(d, h, g), h.use = "rows", NEW r \in 1 .. Height
  PROVE  RowIs(d.rows[r], r, h.dir.comp, g) /\ (d.rows[r].coded = "log" => h.datafmt = "FLOAT")
<1>1. RowIs(d.rows[r], r, d.dir.comp, g) /\ d.dir.comp = h.dir.comp
  BY DEF Reading, Complete, DiskOK, RowsOK
<1> QED
  BY <1>1, RowFields DEF Reading

LEMMA OneRow ==
  ASSUME NEW r, NEW e, NEW kept, NEW g, NEW rows, rows = [i \in {r} |-> e],
         RowBack(e, kept[r], ImageRow(g, r), g.type)
  PROVE  RowsBack(rows, kept, g)
BY DEF RowsBack

LEMMA DecodeOK ==
  ASSUME NEW s, NEW r, NEW comp, NEW g, RowIs(s, r, comp, g), NEW h, ~CanDecode(h, s),
         NEW call, NEW kind
  PROVE  Refused(call, kind, "libtiff", g)
<1>1. g.jpeg /\ g.type = "RGB"
  BY RowFields DEF CanDecode
<1> QED
  BY <1>1, Zenon DEF Refused

(* The seek refuses, the decoder refuses, or the row is read and the file  *)
(* stands after it.                                                        *)
LEMMA SeekOK ==
  ASSUME IInv, NEW f \in Files, NEW r \in 1 .. Height, Is(f, "r"), ~Seekable(handle[f], r)
  PROVE  Jumped(given[f], r, JustRead)
<1> DEFINE h == handle[f]
           g == given[f]
<1>1. MadeOK(g) /\ DirOK(h.dir, g)
  BY ReaderHere DEF Reading
<1>2. g.packed
  BY <1>1 DEF Seekable, DirOK
<1>3. r # 1
  <2>1. PICK n : n = RowsPerStrip(h.dir)
    OBVIOUS
  <2>2. n \in Nat /\ n > 0
    BY <1>1, <2>1, RowsPerStripIs
  <2>3. (r - 1) % n # 0
    BY <2>1 DEF Seekable
  <2> QED
    BY <2>2, <2>3
<1>4. ASSUME r - 1 \in JustRead, r \notin JustRead PROVE FALSE
  <2>1. r \in Int /\ (r - 1) + 1 = r
    OBVIOUS
  <2>2. result.is = "rows" /\ r - 1 \in DOMAIN result.rows /\ r \notin DOMAIN result.rows
    BY <1>4 DEF JustRead
  <2>3. h.mode = "r" /\ RowPoised(result, handle)
    BY DEF Is, IInv
  <2>4. h.rows = r - 1
    BY <2>1, <2>2, <2>3 DEF RowPoised
  <2> QED
    BY <2>1, <2>4 DEF Seekable
<1> QED
  BY <1>2, <1>3, <1>4 DEF Jumped

LEMMA ScanOK ==
  ASSUME IInv, NEW f \in Files, NEW k, NEW r \in 1 .. Height, NEW row, NEW bytes, NEW b,
         Is(f, "r"), handle[f].use = "rows", Scan(f, k, r, row, bytes, b),
         RowBack(row, disk[f].rows[r], ImageRow(given[f], r), given[f].type),
         Fit(bytes), BuffersOK(b)
  PROVE  IInv'
<1> DEFINE d == disk[f]
           h == handle[f]
           g == given[f]
<1>1. MadeOK(g) /\ Reading(d, h, g) /\ DOMAIN d = {"dir", "rows", "exif"}
  BY ReaderHere, FileHere DEF FileOK
<1>2. CASE ~Seekable(h, r)
  <2>1. /\ result' = [is |-> "exit", file |-> f, call |-> "read", kind |-> k,
                      why |-> "seek", row |-> r, after |-> JustRead]
        /\ UNCHANGED <<disk, handle, given, buffer>>
    BY <1>2 DEF Scan
  <2>2. Jumped(g, r, JustRead)
    BY <1>2, SeekOK
  <2>3. Refused("read", k, "seek", g)
    BY DEF Refused
  <2>4. ReportOK(result', disk', given') /\ RowPoised(result', handle')
    BY <2>1, <2>2, <2>3 DEF ReportOK, RowPoised
  <2> QED
    BY <2>1, <2>4, FileHere, StepOK
<1>3. CASE Seekable(h, r) /\ ~CanDecode(h, d.rows[r])
  <2>1. Exit(f, "read", k, "libtiff")
    BY <1>3 DEF Scan
  <2>2. Refused("read", k, "libtiff", g)
    BY <1>1, <1>3, KeptHere, DecodeOK
  <2> QED
    BY <2>1, <2>2, ExitOK
<1>4. CASE Seekable(h, r) /\ CanDecode(h, d.rows[r])
  <2>1. PICK rows : rows = [i \in {r} |-> row]
    OBVIOUS
  <2>2. PICK h2 : h2 = [h EXCEPT !.rows = r]
    OBVIOUS
  <2>3. Get(f, rows, bytes) /\ handle' = [handle EXCEPT ![f] = h2] /\ buffer' = b
    BY <1>4, <2>1, <2>2 DEF Scan
  <2>4. /\ DOMAIN h2 = HandleFields /\ h2.rows = r
        /\ h2.mode = h.mode /\ h2.dir = h.dir /\ h2.datafmt = h.datafmt /\ h2.use = h.use
    BY <1>1, <2>2 DEF Reading, HandleFields
  <2>5. FileOK(d, h2, g)
    BY <1>1, <2>4 DEF FileOK, Reading
  <2>6. Others(f, handle, handle') /\ handle'[f] = h2
    BY <2>3, FileHere DEF Others, Each
  <2>7. RowsBack(rows, d.rows, g)
    BY <2>1, OneRow
  <2>8. DOMAIN rows = {r}
    BY <2>1
  <2> QED
    BY <2>3, <2>4, <2>5, <2>6, <2>7, <2>8, GetOK DEF Is
<1> QED
  BY <1>2, <1>3, <1>4

(* The routine for rows that wrote a file is the one that reads it.        *)
LEMMA WroteRows ==
  ASSUME NEW g, ByOK(g.by, g.type), NEW k \in WriteKinds, g.by = <<"write", k>>
  PROVE  AsProgram(g.type) = TransferCode[k]
<1>1. k # "float" /\ k # "RGBf"
  BY WriteKindIs
<1>2. g.by # Nothing /\ g.by[1] = "write" /\ g.by[2] = k
  BY DEF Nothing
<1> QED
  BY <1>1, <1>2 DEF ByOK

LEMMA Step_TT_read ==
  ASSUME IInv, NEW f \in Files, NEW k \in ReadKinds, NEW r \in 1 .. Height, Is(f, "r"),
         handle[f].use = "rows", TT_read(f, k, r)
  PROVE  IInv'
<1> DEFINE h == handle[f]
           g == given[f]
           s == disk[f].rows[r]
<1>1. /\ MadeOK(g) /\ Reading(disk[f], h, g) /\ DirOK(h.dir, g)
      /\ Looks(h.dir, g.type) /\ h.dir.width = g.width /\ g.width \in Nat
  BY ReaderHere DEF Reading, DirOK, MadeOK
<1>2. ProgramType(h.dir) = AsProgram(g.type) /\ Tells(h.dir, g.type) /\ k \in WriteKinds
  BY <1>1, ProgramTypeIs, LooksTells DEF ReadKinds
<1>3. RowIs(s, r, h.dir.comp, g) /\ (s.coded = "log" => h.datafmt = "FLOAT")
  BY <1>1, KeptHere
<1>4. CASE ProgramType(h.dir) # TransferCode[k]
  <2>1. Exit(f, "read", k, "type")
    BY <1>4 DEF TT_read
  <2>2. g.by # <<"write", k>>
    BY <1>1, <1>2, <1>4, WroteRows DEF MadeOK
  <2>3. Refused("read", k, "type", g)
    BY <2>2 DEF Refused, Reads
  <2> QED
    BY <2>1, <2>3, ExitOK
<1>5. CASE ProgramType(h.dir) = TransferCode[k]
  <2>1. PICK row : row = Decoded(h, s)
    OBVIOUS
  <2>2. PICK bytes : bytes = {[bytes |-> ScanlineSize(h.dir, h.dir.width), room |-> Room(f, k)]}
    OBVIOUS
  <2>3. Scan(f, k, r, row, bytes, buffer)
    BY <1>5, <2>1, <2>2 DEF TT_read
  <2>4. g.type \notin SmallTypes /\ RowFits(h.dir, k)
    BY <1>2, <1>5, TransferFits
  <2>5. ScanlineSize(h.dir, h.dir.width) <= Room(f, k)
    BY <1>1, <2>4, FitsRoom DEF Room
  <2>6. Fit(bytes)
    BY <2>2, <2>5 DEF Fit
  <2>7. RowBack(row, s, ImageRow(g, r), g.type)
    BY <1>1, <1>3, <2>1, <2>4, BackPlain
  <2> QED
    BY <2>3, <2>6, <2>7, FileHere, ScanOK
<1> QED
  BY <1>4, <1>5

LEMMA WroteFloats ==
  ASSUME NEW by, NEW t, ByOK(by, t), NEW d, Tells(d, t)
  PROVE  /\ by = <<"write", "float">> => IsGrayFloat(d) /\ d.bits # 64
         /\ by = <<"write", "RGBf">> => IsRGBFloat(d) /\ d.bits # 64
<1>1. ASSUME NEW k \in FloatKinds, by = <<"write", k>>
      PROVE  IF k = "float" THEN t \in {"Float", "Float16", "Float24"}
             ELSE t \in {"RGBf", "RGBf16", "RGBf24"}
  <2>1. by # Nothing /\ by[1] = "write" /\ by[2] = k
    BY <1>1 DEF Nothing
  <2>2. \A q \in WriteKinds : q # k
    BY WriteKindIs DEF FloatKinds
  <2> QED
    BY <2>1, <2>2 DEF ByOK, FloatKinds
<1>2. by = <<"write", "float">> => t \in {"Float", "Float16", "Float24"}
  BY <1>1 DEF FloatKinds
<1>3. by = <<"write", "RGBf">> => t \in {"RGBf", "RGBf16", "RGBf24"}
  BY <1>1 DEF FloatKinds
<1>4. t \in {"Float", "Float16", "Float24"} => IsGrayFloat(d) /\ d.bits # 64
  BY DEF Tells, IsGrayFloat
<1>5. t \in {"RGBf", "RGBf16", "RGBf24"} => IsRGBFloat(d) /\ d.bits # 64
  BY DEF Tells, IsRGBFloat
<1> QED
  BY <1>2, <1>3, <1>4, <1>5

LEMMA FloatsRefused ==
  ASSUME NEW f, NEW g, NEW d, NEW k \in FloatKinds, MadeOK(g), Tells(d, g.type),
         \/ k = "float" /\ (~IsGrayFloat(d) \/ d.bits = 64)
         \/ k = "RGBf" /\ (~IsRGBFloat(d) \/ d.bits = 64)
  PROVE  Refused("read", k, "type", g)
<1>1. g.by # <<"write", k>>
  BY WroteFloats DEF MadeOK
<1> QED
  BY <1>1 DEF Refused, Reads

LEMMA ReadFloatsOK ==
  ASSUME IInv, NEW f \in Files, NEW k \in FloatKinds, NEW r \in 1 .. Height, NEW row,
         NEW routine \in Routines, Is(f, "r"), handle[f].use = "rows", FloatRow(handle[f].dir, given[f].type, k),
         RowBack(row, disk[f].rows[r], ImageRow(given[f], r), given[f].type),
         ReadFloats(f, k, r, row, routine)
  PROVE  IInv'
<1> DEFINE d == handle[f].dir
           g == given[f]
<1>1. MadeOK(g) /\ DirOK(d, g) /\ Looks(d, g.type) /\ d.width = g.width /\ g.width \in Nat
  BY ReaderHere DEF Reading, MadeOK, DirOK
<1>2. CASE d.bits = 64
  <2>1. Exit(f, "read", k, "type")
    BY <1>2 DEF ReadFloats
  <2>2. Refused("read", k, "type", g)
    BY <1>1, <1>2, LooksTells, FloatsRefused DEF FloatKinds
  <2> QED
    BY <2>1, <2>2, ExitOK
<1>3. CASE d.bits # 64
  <2>1. PICK n : n = ScanlineSize(d, d.width)
    OBVIOUS
  <2>2. n \in Nat /\ n <= Room(f, k)
    BY <1>1, <1>3, <2>1, FloatFits, FitsRoom DEF Room
  <2>3. CASE d.bits = 32
    <3>1. PICK bytes : bytes = {[bytes |-> n, room |-> Room(f, k)]}
      OBVIOUS
    <3>2. Scan(f, k, r, row, bytes, buffer)
      BY <2>1, <2>3, <3>1 DEF ReadFloats
    <3>3. Fit(bytes)
      BY <2>2, <3>1 DEF Fit
    <3> QED
      BY <3>2, <3>3, FileHere, ScanOK
  <2>4. CASE d.bits # 32
    <3>1. d.bits \in {16, 24}
      BY <1>3, <2>4 DEF FloatRow
    <3>2. PICK b : b = Grown(buffer[routine], n)
      OBVIOUS
    <3>3. PICK B : B = [buffer EXCEPT ![routine] = b]
      OBVIOUS
    <3>4. Scan(f, k, r, row, ThroughBuffer(f, k, b), B)
      BY <2>1, <3>1, <3>2, <3>3 DEF ReadFloats
    <3>5. BufferOK(b) /\ n <= b.size
      BY <2>2, <3>2, FileHere, GrownOK DEF BuffersOK
    <3>6. BuffersOK(B)
      BY <3>3, <3>5, FileHere, BufferSet
    <3>7. Fit(ThroughBuffer(f, k, b))
      BY <1>1, <1>3, <2>1, <3>5, FloatBytes
    <3> QED
      BY <3>4, <3>6, <3>7, ScanOK
  <2> QED
    BY <2>3, <2>4
<1> QED
  BY <1>2, <1>3

LEMMA FloatRowBack ==
  ASSUME NEW s, NEW r \in 1 .. Height, NEW comp, NEW g, MadeOK(g), RowIs(s, r, comp, g),
         NEW h, s.coded = "log" => h.datafmt = "FLOAT", NEW e, e = Decoded(h, s), NEW row,
         \/ g.type \notin SmallTypes /\ row = e
         \/ row = [e EXCEPT !.samples = FromKept(g.type, e.samples)]
  PROVE  RowBack(row, s, ImageRow(g, r), g.type)
<1>1. CASE g.type \notin SmallTypes /\ row = e
  BY <1>1, BackPlain
<1>2. CASE row = [e EXCEPT !.samples = FromKept(g.type, e.samples)]
  <2>1. e.samples = s.samples
    BY RowFields, DecodedIs
  <2>2. row = [Decoded(h, s) EXCEPT !.samples = FromKept(g.type, s.samples)]
    BY <1>2, <2>1
  <2> QED
    BY <2>2, BackAgain
<1> QED
  BY <1>1, <1>2

LEMMA Step_TT_float_read ==
  ASSUME IInv, NEW f \in Files, NEW r \in 1 .. Height, Is(f, "r"), handle[f].use = "rows",
         TT_float_read(f, r)
  PROVE  IInv'
<1> DEFINE h == handle[f]
           g == given[f]
           kept == disk[f].rows[r]
<1>1. MadeOK(g) /\ Reading(disk[f], h, g) /\ Tells(h.dir, g.type)
  BY ReaderHere, LooksTells DEF Reading, DirOK
<1>2. RowIs(kept, r, h.dir.comp, g) /\ (kept.coded = "log" => h.datafmt = "FLOAT")
  BY <1>1, KeptHere
<1>3. CASE ~IsGrayFloat(h.dir)
  <2>1. Exit(f, "read", "float", "type")
    BY <1>3 DEF TT_float_read
  <2>2. Refused("read", "float", "type", g)
    BY <1>1, <1>3, FloatsRefused DEF FloatKinds
  <2> QED
    BY <2>1, <2>2, ExitOK
<1>4. CASE IsGrayFloat(h.dir)
  <2>1. PICK s : s = Decoded(h, kept)
    OBVIOUS
  <2>2. PICK row : row = CASE h.dir.bits = 16 -> [s EXCEPT !.samples = convert_float_16_32(s.samples)]
                           [] h.dir.bits = 24 -> [s EXCEPT !.samples = convert_float_24_32(s.samples)]
                           [] OTHER           -> s
    OBVIOUS
  <2>3. ReadFloats(f, "float", r, row, "float_read")
    BY <1>4, <2>1, <2>2 DEF TT_float_read
  <2>4. FloatRow(h.dir, g.type, "float")
    BY <1>1, <1>4, GrayFloatIs
  <2>5. \/ g.type \notin SmallTypes /\ row = s
        \/ row = [s EXCEPT !.samples = FromKept(g.type, s.samples)]
    BY <2>2, <2>4 DEF FloatRow, FromKept, SmallTypes
  <2>6. RowBack(row, kept, ImageRow(g, r), g.type)
    BY <1>1, <1>2, <2>1, <2>5, FloatRowBack
  <2> QED
    BY <2>3, <2>4, <2>6, ReadFloatsOK DEF FloatKinds, Routines
<1> QED
  BY <1>3, <1>4

LEMMA Step_TT_RGBf_read ==
  ASSUME IInv, NEW f \in Files, NEW r \in 1 .. Height, Is(f, "r"), handle[f].use = "rows",
         TT_RGBf_read(f, r)
  PROVE  IInv'
<1> DEFINE h == handle[f]
           g == given[f]
           kept == disk[f].rows[r]
<1>1. MadeOK(g) /\ Reading(disk[f], h, g) /\ Tells(h.dir, g.type)
  BY ReaderHere, LooksTells DEF Reading, DirOK
<1>2. RowIs(kept, r, h.dir.comp, g) /\ (kept.coded = "log" => h.datafmt = "FLOAT")
  BY <1>1, KeptHere
<1>3. CASE ~IsRGBFloat(h.dir)
  <2>1. Exit(f, "read", "RGBf", "type")
    BY <1>3 DEF TT_RGBf_read
  <2>2. Refused("read", "RGBf", "type", g)
    BY <1>1, <1>3, FloatsRefused DEF FloatKinds
  <2> QED
    BY <2>1, <2>2, ExitOK
<1>4. CASE IsRGBFloat(h.dir)
  <2>1. PICK s : s = Decoded(h, kept)
    OBVIOUS
  <2>2. PICK row : row = CASE h.dir.bits = 16 -> [s EXCEPT !.samples = convert_RGB_float_16_32(s.samples)]
                           [] h.dir.bits = 24 -> [s EXCEPT !.samples = convert_RGB_float_24_32(s.samples)]
                           [] OTHER           -> s
    OBVIOUS
  <2>3. ReadFloats(f, "RGBf", r, row, "RGBf_read")
    BY <1>4, <2>1, <2>2 DEF TT_RGBf_read
  <2>4. FloatRow(h.dir, g.type, "RGBf")
    BY <1>1, <1>4, RGBFloatIs
  <2>5. \/ g.type \notin SmallTypes /\ row = s
        \/ row = [s EXCEPT !.samples = FromKept(g.type, s.samples)]
    BY <2>2, <2>4 DEF FloatRow, FromKept, SmallTypes
  <2>6. RowBack(row, kept, ImageRow(g, r), g.type)
    BY <1>1, <1>2, <2>1, <2>5, FloatRowBack
  <2> QED
    BY <2>3, <2>4, <2>6, ReadFloatsOK DEF FloatKinds, Routines
<1> QED
  BY <1>3, <1>4

(* Whole images that are read.                                             *)
LEMMA WroteImage ==
  ASSUME NEW g, ByOK(g.by, g.type), NEW k \in ImageKinds, g.by = <<"to_file", k>>
  PROVE  g.type = ImageToCode[k] /\ (k # "XYZ" => g.type = ImageFromCode[k])
<1>1. g.by # Nothing /\ g.by[1] = "to_file" /\ g.by[2] = k
  BY DEF Nothing
<1>2. g.type = ImageToCode[k]
  BY <1>1 DEF ByOK
<1> QED
  BY <1>2, ImageKindIs

LEMMA ImageRefused ==
  ASSUME NEW g, MadeOK(g), NEW k \in ImageKinds, NEW call,
         \/ call = "image" /\ g.type # ImageFromCode[k]
         \/ call = "filename" /\ g.type # ImageToCode[k]
  PROVE  Refused(call, k, "type", g)
<1>1. g.by # <<"to_file", k>> \/ k = "XYZ"
  BY WroteImage DEF MadeOK
<1>2. g.by \notin {<<"to_file", k>>} \ {<<"to_file", "XYZ">>}
  BY <1>1
<1> QED
  BY <1>2, Zenon DEF Refused, Reads

(* The handle that image_from_file leaves.                                 *)
LogSet(h, t) == IF t = "LogLuv" THEN SetLogFormat(h) ELSE h

LEMMA LogSetOK ==
  ASSUME NEW h, NEW h2, NEW g, DOMAIN h = HandleFields, DirOK(h.dir, g), h2 = LogSet(h, g.type)
  PROVE  /\ DOMAIN h2 = HandleFields /\ h2.mode = h.mode /\ h2.use = h.use
         /\ DirOK(h2.dir, g) /\ SameRest(h2.dir, h.dir)
         /\ h2 = h \/ (h2.dir.comp = "SGILOG" => h2.datafmt = "FLOAT")
         /\ h2.dir.comp = "SGILOG" /\ g.type # "LogL" => h2.datafmt = "FLOAT"
<1>1. CASE g.type = "LogLuv"
  BY <1>1, SetLogFormatOK DEF LogSet
<1>2. CASE g.type # "LogLuv"
  BY <1>2 DEF LogSet, SameRest, DirOK, LogTypes
<1> QED
  BY <1>1, <1>2

LEMMA AllRows ==
  ASSUME NEW d, NEW h, NEW g, MadeOK(g), Complete(d, g), h.dir.comp = d.dir.comp,
         h.dir.comp = "SGILOG" => h.datafmt = "FLOAT", g.type \notin SmallTypes,
         NEW rows, rows = [r \in 1 .. Height |-> Decoded(h, d.rows[r])]
  PROVE  RowsBack(rows, d.rows, g)
<1>1. ASSUME NEW r \in 1 .. Height
      PROVE  RowBack(rows[r], d.rows[r], ImageRow(g, r), g.type)
  <2>1. RowIs(d.rows[r], r, h.dir.comp, g)
    BY DEF Complete, DiskOK, RowsOK
  <2>2. d.rows[r].coded = "log" => h.datafmt = "FLOAT"
    BY <2>1, RowFields
  <2>3. rows[r] = Decoded(h, d.rows[r])
    OBVIOUS
  <2> QED
    BY <2>1, <2>2, <2>3, BackPlain
<1>2. DOMAIN rows = 1 .. Height
  OBVIOUS
<1> QED
  BY <1>1, <1>2 DEF RowsBack

LEMMA ReadingLogSet ==
  ASSUME NEW d, NEW h, NEW g, Reading(d, h, g), NEW h2, h2 = LogSet(h, g.type)
  PROVE  Reading(d, h2, g)
<1>1. DOMAIN h = HandleFields /\ DirOK(h.dir, g) /\ SameTags(h.dir, g) /\ Complete(d, g)
  BY DEF Reading
<1>2. /\ DOMAIN h2 = HandleFields /\ h2.mode = h.mode /\ h2.use = h.use
      /\ DirOK(h2.dir, g) /\ SameRest(h2.dir, h.dir)
      /\ h2 = h \/ (h2.dir.comp = "SGILOG" => h2.datafmt = "FLOAT")
  BY <1>1, LogSetOK
<1>3. SameTags(h2.dir, g) /\ h2.dir.comp = h.dir.comp
  BY <1>1, <1>2, SameRestTags DEF SameRest
<1> QED
  BY <1>1, <1>2, <1>3 DEF Reading

LEMMA ImageRowsOK ==
  ASSUME IInv, NEW f \in Files, NEW k \in ImageKinds, NEW h, DOMAIN h = HandleFields,
         MadeOK(given[f]), Complete(disk[f], given[f]), DirOK(h.dir, given[f]),
         h.dir.comp = disk[f].dir.comp,
         handle[f] = None \/ (handle[f] = h /\ Reading(disk[f], h, given[f])),
         \A x \in Files \ {f} : handle[x] = None, ImageRows(f, k, h)
  PROVE  IInv'
<1> DEFINE d == disk[f]
           g == given[f]
<1>1. PICK h2 : h2 = LogSet(h, g.type)
  OBVIOUS
<1>2. /\ DOMAIN h2 = HandleFields /\ DirOK(h2.dir, g) /\ SameRest(h2.dir, h.dir)
      /\ h2.dir.comp = "SGILOG" /\ g.type # "LogL" => h2.datafmt = "FLOAT"
  BY <1>1, LogSetOK
<1>3. TT_file_type(h.dir) = g.type /\ Tells(h2.dir, g.type)
  BY <1>2, LooksType, LooksTells DEF DirOK
<1>4. CASE g.type # ImageFromCode[k]
  <2>1. Exit(f, "image", k, "type")
    BY <1>3, <1>4 DEF ImageRows
  <2> QED
    BY <1>4, <2>1, ImageRefused, ExitOK
<1>5. CASE g.type = ImageFromCode[k] /\ ~CanDecode(h2, d.rows[1])
  <2>1. Exit(f, "image", k, "libtiff")
    BY <1>1, <1>3, <1>5 DEF ImageRows, LogSet
  <2>2. RowIs(d.rows[1], 1, d.dir.comp, g)
    BY HeightType DEF Complete, DiskOK, RowsOK
  <2> QED
    BY <1>5, <2>1, <2>2, DecodeOK, ExitOK
<1>6. CASE g.type = ImageFromCode[k] /\ CanDecode(h2, d.rows[1])
  <2>1. PICK n : n = ScanlineSize(h2.dir, h2.dir.width)
    OBVIOUS
  <2>2. PICK rows : rows = [r \in 1 .. Height |-> Decoded(h2, d.rows[r])]
    OBVIOUS
  <2>3. PICK bytes : bytes = {[bytes |-> Height * n, room |-> Height * Room(f, k)]}
    OBVIOUS
  <2>4. PICK h3 : h3 = [h2 EXCEPT !.rows = Height]
    OBVIOUS
  <2>0. PICK x : x = IF handle[f] = None THEN None ELSE h3
    OBVIOUS
  <2>5. Get(f, rows, bytes) /\ handle' = [handle EXCEPT ![f] = x] /\ buffer' = buffer
    BY <1>1, <1>3, <1>6, <2>0, <2>1, <2>2, <2>3, <2>4 DEF ImageRows, LogSet
  <2>6. g.type \notin SmallTypes /\ RowFits(h2.dir, k)
    BY <1>3, <1>6, ImageFits
  <2>7. n \in Nat /\ Room(f, k) \in Nat /\ n <= Room(f, k)
    BY <1>2, <2>1, <2>6, FitsRoom DEF Room, DirOK, MadeOK
  <2>8. Fit(bytes)
    BY <2>3, <2>7, ImageBytes DEF Fit
  <2>9. g.type # "LogL" /\ h2.dir.comp = d.dir.comp
    BY <1>2, <1>6, ImageKindIs DEF SameRest
  <2>10. RowsBack(rows, d.rows, g)
    BY <1>2, <2>2, <2>6, <2>9, AllRows
  <2>11. FileOK(d, x, g)
    <3>1. CASE handle[f] = None
      BY <2>0, <3>1, FileHere
    <3>2. CASE handle[f] # None
      <4>1. Reading(d, h2, g) /\ x = h3
        BY <1>1, <2>0, <3>2, ReadingLogSet
      <4>2. /\ DOMAIN h3 = HandleFields /\ h3.mode = h2.mode /\ h3.dir = h2.dir
            /\ h3.datafmt = h2.datafmt /\ h3.use = h2.use
        BY <1>2, <2>4 DEF HandleFields
      <4>3. Reading(d, h3, g)
        BY <4>1, <4>2 DEF Reading
      <4> QED
        BY <4>1, <4>3, FileHere DEF FileOK
    <3> QED
      BY <3>1, <3>2
  <2>12. Others(f, handle, handle') /\ handle'[f] = x
    BY <2>5, FileHere DEF Others, Each
  <2>13. x.mode = "r" => \A r \in DOMAIN rows : r + 1 \in DOMAIN rows \/ x.rows = r
    <3>1. x.mode = "r" => x.rows = Height
      BY <1>2, <2>0, <2>4, NoneClosed DEF HandleFields
    <3>2. \A r \in 1 .. Height : r + 1 \in 1 .. Height \/ r = Height
      BY HeightType
    <3> QED
      BY <2>2, <3>1, <3>2
  <2> QED
    BY <2>5, <2>8, <2>10, <2>11, <2>12, <2>13, FileHere, GetOK
<1> QED
  BY <1>4, <1>5, <1>6

LEMMA Step_image_from_file ==
  ASSUME IInv, NEW f \in Files, NEW k \in ImageKinds, Is(f, "r"), image_from_file(f, k)
  PROVE  IInv'
<1> DEFINE h == handle[f]
<1>1. /\ MadeOK(given[f]) /\ Reading(disk[f], h, given[f]) /\ Complete(disk[f], given[f])
      /\ DOMAIN h = HandleFields /\ DirOK(h.dir, given[f]) /\ h.dir.comp = disk[f].dir.comp
  BY ReaderHere DEF Reading
<1>2. ImageRows(f, k, h)
  BY DEF image_from_file
<1> QED
  BY <1>1, <1>2, ImageRowsOK DEF Is

LEMMA Step_image_from_filename ==
  ASSUME IInv, NEW f \in Files, NEW k \in ImageKinds, image_from_filename(f, k)
  PROVE  IInv'
<1>1. PICK h : h = Opened("r", disk[f].dir)
  OBVIOUS
<1>2. /\ handle[f] = None /\ MadeOK(given[f]) /\ Complete(disk[f], given[f])
      /\ \A x \in Files \ {f} : handle[x] = None
  BY OnDiskHere DEF image_from_filename, Is
<1>3. DOMAIN h = HandleFields /\ h.dir = disk[f].dir /\ DirOK(h.dir, given[f])
  BY <1>1, <1>2, OpenedIs DEF Complete, DiskOK
<1>4. TT_file_type(h.dir) = given[f].type
  BY <1>3, LooksType DEF DirOK
<1>5. CASE given[f].type # ImageToCode[k]
  <2>1. Exit(f, "filename", k, "type")
    BY <1>1, <1>4, <1>5 DEF image_from_filename
  <2> QED
    BY <1>2, <1>5, <2>1, ImageRefused, ExitOK
<1>6. CASE given[f].type = ImageToCode[k]
  <2>1. ImageRows(f, k, h)
    BY <1>1, <1>4, <1>6 DEF image_from_filename
  <2> QED
    BY <1>2, <1>3, <2>1, ImageRowsOK
<1> QED
  BY <1>5, <1>6

(* The buffer for a row.                                                   *)
LEMMA Step_TT_getrowbuf ==
  ASSUME IInv, NEW f \in Files, NEW k, TT_getrowbuf(f, k)
  PROVE  IInv'
<1>1. CASE RowbufType(handle[f].dir) # RowbufCode[k]
  <2>1. Exit(f, "getrowbuf", k, "type")
    BY <1>1 DEF TT_getrowbuf
  <2> QED
    BY <2>1, NotRead, ExitOK
<1>2. CASE RowbufType(handle[f].dir) = RowbufCode[k]
  <2>1. result'.is = "rowbuf" /\ UNCHANGED <<disk, handle, given, buffer>>
    BY <1>2 DEF TT_getrowbuf
  <2>2. ReportOK(result', disk', given') /\ RowPoised(result', handle')
    BY <2>1 DEF ReportOK, RowPoised
  <2> QED
    BY <2>1, <2>2, FileHere, StepOK
<1> QED
  BY <1>1, <1>2

-----------------------------------------------------------------------------
(* Every step keeps the invariant: one case for each disjunct of Next.     *)
LEMMA Step_Prepare ==
  ASSUME IInv, NEW f \in Files, Prepare(f)
  PROVE  IInv'
<1>1. ASSUME NEW q \in {4, 75}, TT_set_compression_jpeg(f, q) PROVE IInv'
  BY <1>1, Step_TT_set_compression_jpeg
<1>2. ASSUME NEW p \in BOOLEAN, TT_set_compression_LZW(f, p) PROVE IInv'
  BY <1>2, Step_TT_set_compression_LZW
<1>3. ASSUME NEW p \in BOOLEAN, TT_set_compression_zip(f, p) PROVE IInv'
  BY <1>3, Step_TT_set_compression_zip
<1>4. ASSUME NEW a \in Alphas, TT_set_alpha(f, a) PROVE IInv'
  BY <1>4, Step_TT_set_alpha
<1>5. ASSUME NEW n \in Stonits, SetStonits(f, n) PROVE IInv'
  BY <1>5, Step_SetStonits
<1>6. ASSUME NEW w \in Words, TT_set_description(f, w) PROVE IInv'
  BY <1>6, Step_TT_set_description
<1>7. ASSUME NEW w \in Words, TT_cat_description(f, w) PROVE IInv'
  BY <1>7, Step_TT_cat_description
<1>8. ASSUME NEW l \in Focals, set_tiff_35mm_equiv(f, l) PROVE IInv'
  <2>1. l \in Int
    BY TiffAssumption DEF TiffAssumption
  <2> QED
    BY <1>8, <2>1, Step_set_tiff_35mm_equiv
<1> QED
  BY <1>1, <1>2, <1>3, <1>4, <1>5, <1>6, <1>7, <1>8, Zenon DEF Prepare

LEMMA Step_Write ==
  ASSUME IInv, NEW f \in Files, Write(f)
  PROVE  IInv'
<1>1. Is(f, "w") /\ handle[f].rows < Height
  BY DEF Write
<1>2. ASSUME NEW k \in WriteKinds, TT_write(f, k) PROVE IInv'
  BY <1>1, <1>2, Step_TT_write
<1>3. CASE TT_float_write(f)
  BY <1>1, <1>3, Step_TT_float_write
<1>4. CASE TT_RGBf_write(f)
  BY <1>1, <1>4, Step_TT_RGBf_write
<1> QED
  BY <1>2, <1>3, <1>4 DEF Write

LEMMA Step_ReadRow ==
  ASSUME IInv, NEW f \in Files, ReadRow(f)
  PROVE  IInv'
<1>1. Is(f, "r") /\ handle[f].use = "rows"
  BY DEF ReadRow
<1>2. ASSUME NEW r \in 1 .. Height, NEW k \in ReadKinds, TT_read(f, k, r) PROVE IInv'
  BY <1>1, <1>2, Step_TT_read
<1>3. ASSUME NEW r \in 1 .. Height, TT_float_read(f, r) PROVE IInv'
  BY <1>1, <1>3, Step_TT_float_read
<1>4. ASSUME NEW r \in 1 .. Height, TT_RGBf_read(f, r) PROVE IInv'
  BY <1>1, <1>4, Step_TT_RGBf_read
<1> QED
  BY <1>2, <1>3, <1>4 DEF ReadRow

LEMMA Step_Tag ==
  ASSUME IInv, NEW f \in Files, Tag(f)
  PROVE  IInv'
<1>1. ASSUME NEW a \in Alphas, TT_is_alpha(f, a) PROVE IInv'
  BY <1>1, Step_TT_is_alpha
<1> QED
  BY <1>1, Step_TT_get_description, Step_TT_photometric_normalization,
     Step_get_tiff_35mm_equiv DEF Tag

LEMMA NextIInv == IInv /\ [Next]_vars => IInv'
<1> SUFFICES ASSUME IInv, [Next]_vars PROVE IInv'
  OBVIOUS
<1>1. CASE UNCHANGED vars
  BY <1>1 DEF vars, IInv
<1>2. ASSUME NEW f \in Files, NEW t \in Types[f], NEW w \in Widths[f], NEW p \in Starts,
             TT_open_write(f, t, w, p)
      PROVE  IInv'
  BY <1>2, Step_TT_open_write
<1>3. ASSUME NEW f \in Files, NEW k \in ImageKinds, NEW w \in Widths[f], NEW p \in Starts,
             NEW x \in {Nothing} \cup {<<d>> : d \in Words}, ImageToCode[k] \in Types[f],
             image_to_filename_description(f, k, w, p, x)
      PROVE  IInv'
  BY <1>3, Step_image_to_filename_description
<1>4. ASSUME NEW f \in Files, Prepare(f) PROVE IInv'
  BY <1>4, Step_Prepare
<1>5. ASSUME NEW f \in Files, Write(f) PROVE IInv'
  BY <1>5, Step_Write
<1>6. ASSUME NEW f \in Files, Is(f, "w"), handle[f].rows = 0, NEW k \in ImageKinds,
             image_to_file(f, k)
      PROVE  IInv'
  BY <1>6, Step_image_to_file
<1>7. ASSUME NEW f \in Files, TIFFOpen_read(f) PROVE IInv'
  BY <1>7, Step_TIFFOpen_read
<1>8. ASSUME NEW f \in Files, TT_open_read(f) PROVE IInv'
  BY <1>8, Step_TT_open_read
<1>9. ASSUME NEW f \in Files, NEW k \in ImageKinds, image_from_filename(f, k) PROVE IInv'
  BY <1>9, Step_image_from_filename
<1>10. ASSUME NEW f \in Files, ReadRow(f) PROVE IInv'
  BY <1>10, Step_ReadRow
<1>11. ASSUME NEW f \in Files, ReadImage(f) PROVE IInv'
  BY <1>11, Step_image_from_file DEF ReadImage
<1>12. ASSUME NEW f \in Files, GetRowbuf(f) PROVE IInv'
  BY <1>12, Step_TT_getrowbuf DEF GetRowbuf
<1>13. ASSUME NEW f \in Files, Tag(f) PROVE IInv'
  BY <1>13, Step_Tag
<1>14. ASSUME NEW f \in Files, TIFFClose(f) PROVE IInv'
  BY <1>14, Step_TIFFClose
<1> QED
  BY <1>1, <1>2, <1>3, <1>4, <1>5, <1>6, <1>7, <1>8, <1>9, <1>10, <1>11, <1>12, <1>13, <1>14,
     Zenon DEF Next

LEMMA SpecIInv == Spec => []IInv
BY InitIInv, NextIInv, PTL DEF Spec

-----------------------------------------------------------------------------
(* The theorems, for any files, types, widths, images, words, focal        *)
(* lengths and sessions, and any number of rows.                           *)

(* In every state a directory, on disk or in memory, tells through         *)
(* TT_file_type the type its file was created with, and what is on disk is *)
(* a complete image of its width.                                          *)
THEOREM TiffDirectories == Spec => []TypeOK
BY SpecIInv, IInvTypeOK, PTL

(* Every row that a routine of tifftools.c or tifftoolsimage.c reads is    *)
(* the row that was written: bit by bit, or for 16 and 24 bits the nearest *)
(* number of the format, whatever the type, the compression, the predictor *)
(* and the files that used the static buffers before.                      *)
THEOREM TiffRowsReadBack == Spec => []RowsReadBack
BY SpecIInv, IInvRowsReadBack, PTL

(* No call copies more bytes than the static scanline_buffer, which        *)
(* earlier files sized, or the row of the program has.                     *)
THEOREM TiffRowsFit == Spec => []RowsFit
BY SpecIInv, IInvRowsFit, PTL

(* Descriptions, alpha, stonits and the focal length are read as they were *)
(* last set, though set_tiff_35mm_equiv writes two directories and reads   *)
(* the first again.                                                        *)
THEOREM TiffTagsReadBack == Spec => []TagsReadBack
BY SpecIInv, IInvTagsReadBack, PTL

(* A program that reads with the routine that wrote the file never meets   *)
(* the fatal error of types, XYZ images apart; libtiff refuses a row only  *)
(* in files for which JPEG was asked, or in compressed ones when the       *)
(* program jumps: neither the first row nor the one after those just read. *)
THEOREM TiffReadAsWritten == Spec => []ReadAsWritten
BY SpecIInv, IInvReadAsWritten, PTL
=============================================================================
