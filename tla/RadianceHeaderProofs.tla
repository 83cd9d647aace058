------------------------- MODULE RadianceHeaderProofs -------------------------
(***************************************************************************)
(* What RadianceHeader promises, for headers of any length and any number  *)
(* of pictures.  The meaning of a header is defined on the whole of it     *)
(* (HeaderMeaning), the reader goes from line to line: the lemmas of the   *)
(* first part say what a line adds to the meaning of the lines before it.  *)
(* The last part is about HeaderLines, which hands the lines over.         *)
(***************************************************************************)
EXTENDS RadianceHeader, HeaderLines, NatLemmas, SequenceTheorems

-----------------------------------------------------------------------------
(* The meaning of a header, line by line.                                  *)

(* The texts after each line of a header.                                  *)
WithText(t, l)   == IF l.kind = "text" THEN Append(t, l) ELSE t
TextRun(f, n, T) ==
  T = [i \in 0 .. n |-> IF i = 0 THEN <<>>
                        ELSE IF f[i].kind = "text" THEN Append(T[i - 1], f[i])
                        ELSE T[i - 1]]

(* A run, step by step. *)
LEMMA TextRunSteps ==
  ASSUME NEW f, NEW n \in Nat, NEW T
  PROVE  TextRun(f, n, T) <=>
           /\ T = [i \in 0 .. n |-> T[i]] /\ T[0] = <<>>
           /\ \A i \in 1 .. n : T[i] = WithText(T[i - 1], f[i])
<1> USE DEF WithText
<1>1. ASSUME TextRun(f, n, T) PROVE T = [i \in 0 .. n |-> T[i]]
  BY <1>1 DEF TextRun
<1>2. ASSUME TextRun(f, n, T), NEW i \in 0 .. n
      PROVE  T[i] = IF i = 0 THEN <<>>
                    ELSE IF f[i].kind = "text" THEN Append(T[i - 1], f[i]) ELSE T[i - 1]
  BY <1>2 DEF TextRun
<1>3. ASSUME T = [i \in 0 .. n |-> T[i]],
             \A i \in 0 .. n : T[i] = IF i = 0 THEN <<>>
                    ELSE IF f[i].kind = "text" THEN Append(T[i - 1], f[i]) ELSE T[i - 1]
      PROVE  TextRun(f, n, T)
  BY <1>3 DEF TextRun
<1>4. 0 \in 0 .. n /\ \A i \in 1 .. n : i \in 0 .. n /\ i # 0
  OBVIOUS
<1>5. \A i \in 0 .. n : i # 0 => i \in 1 .. n
  OBVIOUS
<1> QED
  BY <1>1, <1>2, <1>3, <1>4, <1>5

LEMMA TextRunFound ==
  ASSUME NEW X, NEW f \in Seq(X), NEW n \in Nat, n = Len(f)
  PROVE  \E T : TextRun(f, n, T) /\ T \in [0 .. n -> Seq(X)] /\ TextLines(f) = T[n]
<1>1. PICK S : S = Seq(X)
  OBVIOUS
<1>2. PICK g : g = [i \in 1 .. n |-> [t \in S |-> WithText(t, f[i])]]
  OBVIOUS
<1>3. \A i \in 1 .. n : f[i] \in X
  OBVIOUS
<1>4. g \in [1 .. n -> [S -> S]]
  BY <1>1, <1>2, <1>3, AppendProperties DEF WithText
<1>none. <<>> \in Seq(X)
  OBVIOUS
<1>5. PICK nothing : nothing \in S /\ nothing = <<>>
  BY <1>none, <1>1
<1>6. PICK p : RunOf(n, S, nothing, g, p)
  BY <1>4, <1>5, RunExists
<1>7. TextRun(f, n, p)
  <2>1. ASSUME NEW i \in 1 .. n
        PROVE  p[i] = WithText(p[i - 1], f[i])
    <3>1. p[i] = g[i][p[i - 1]] /\ p[i - 1] \in S
      BY <1>6 DEF RunOf
    <3> QED
      BY <1>2, <3>1
  <2>2. p = [i \in 0 .. n |-> p[i]] /\ p[0] = <<>>
    BY <1>5, <1>6 DEF RunOf
  <2> QED
    BY <2>1, <2>2, TextRunSteps
<1>8. PICK T : TextRun(f, n, T) /\ TextLines(f) = T[n]
  BY <1>7 DEF TextRun, TextLines
<1>9. ASSUME NEW k \in 0 .. n PROVE T[k] \in S
  <2>1. PICK K : K = {i \in 0 .. n : T[i] \in S}
    OBVIOUS
  <2>2. T[0] = <<>> /\ \A i \in 1 .. n : T[i] = WithText(T[i - 1], f[i])
    BY <1>8, TextRunSteps
  <2>3. 0 \in K
    BY <1>5, <2>1, <2>2
  <2>4. ASSUME NEW i \in 0 .. n - 1, i \in K PROVE i + 1 \in K
    <3>1. i + 1 \in 1 .. n /\ i + 1 \in 0 .. n /\ (i + 1) - 1 = i /\ T[i] \in S
      BY <2>1, <2>4
    <3>2. T[i + 1] = WithText(T[i], f[i + 1])
      BY <2>2, <3>1
    <3>3. WithText(T[i], f[i + 1]) \in S
      BY <1>1, <1>3, <3>1, AppendProperties DEF WithText
    <3> QED
      BY <2>1, <3>1, <3>2, <3>3
  <2>5. \A i \in 0 .. k - 1 : i \in K => i + 1 \in K
    BY <2>4
  <2>6. k \in K
    BY <2>3, <2>5, FromZero
  <2> QED
    BY <2>1, <2>6
<1>10. T = [i \in 0 .. n |-> T[i]]
  BY <1>8, TextRunSteps
<1> QED
  BY <1>1, <1>8, <1>9, <1>10

(* A text line adds itself to the text, another line nothing.              *)
LEMMA TextLinesAppend ==
  ASSUME NEW X, NEW f \in Seq(X), NEW l \in X
  PROVE  /\ TextLines(f) \in Seq(X)
         /\ TextLines(Append(f, l)) = WithText(TextLines(f), l)
<1>1. PICK n \in Nat : n = Len(f)
  OBVIOUS
<1>2. Append(f, l) \in Seq(X)
  BY AppendProperties
<1>3. PICK h \in Seq(X) : h = Append(f, l)
  BY <1>2
<1>4. Len(h) = n + 1 /\ h[n + 1] = l /\ \A i \in 1 .. n : h[i] = f[i]
  BY <1>1, <1>3, AppendProperties
<1>5. PICK T : TextRun(f, n, T) /\ T \in [0 .. n -> Seq(X)] /\ TextLines(f) = T[n]
  BY <1>1, TextRunFound
<1>6. PICK U : TextRun(h, n + 1, U) /\ U \in [0 .. n + 1 -> Seq(X)] /\ TextLines(h) = U[n + 1]
  <2>1. n + 1 \in Nat /\ n + 1 = Len(h)
    BY <1>4
  <2> QED
    BY <2>1, TextRunFound
<1>7. T[0] = <<>> /\ \A i \in 1 .. n : T[i] = WithText(T[i - 1], f[i])
  BY <1>5, TextRunSteps
<1>8. U[0] = <<>> /\ \A i \in 1 .. n + 1 : U[i] = WithText(U[i - 1], h[i])
  <2>1. n + 1 \in Nat
    OBVIOUS
  <2> QED
    BY <1>6, <2>1, TextRunSteps
<1>9. T[n] = U[n]
  <2>1. PICK K : K = {i \in 0 .. n : T[i] = U[i]}
    OBVIOUS
  <2>2. 0 \in K
    BY <1>7, <1>8, <2>1
  <2>3. ASSUME NEW i \in 0 .. n - 1, i \in K PROVE i + 1 \in K
    <3>1. i + 1 \in 1 .. n /\ i + 1 \in 1 .. n + 1 /\ i + 1 \in 0 .. n /\ (i + 1) - 1 = i
      OBVIOUS
    <3>2. T[i] = U[i] /\ h[i + 1] = f[i + 1]
      BY <1>4, <2>1, <2>3, <3>1
    <3>3. T[i + 1] = U[i + 1]
      BY <1>7, <1>8, <3>1, <3>2
    <3> QED
      BY <2>1, <3>1, <3>3
  <2>4. n \in K
    BY <2>2, <2>3, FromZero
  <2> QED
    BY <2>1, <2>4
<1>10. U[n + 1] = WithText(U[n], l)
  BY <1>4, <1>8
<1> QED
  BY <1>3, <1>5, <1>6, <1>9, <1>10

(* The exposures after each line of a header.                              *)
WithExposure(e, l)   == IF l.kind = "exposure" THEN (e * l.arg) \div One ELSE e
ExposureRun(f, n, P) ==
  P = [i \in 0 .. n |-> IF i = 0 THEN One
                        ELSE IF f[i].kind = "exposure" THEN (P[i - 1] * f[i].arg) \div One
                        ELSE P[i - 1]]

LEMMA ExposureRunSteps ==
  ASSUME NEW f, NEW n \in Nat, NEW P
  PROVE  ExposureRun(f, n, P) <=>
           /\ P = [i \in 0 .. n |-> P[i]] /\ P[0] = One
           /\ \A i \in 1 .. n : P[i] = WithExposure(P[i - 1], f[i])
<1> DEFINE E(i) == IF i = 0 THEN One ELSE WithExposure(P[i - 1], f[i])
<1>1. ExposureRun(f, n, P) <=> P = [i \in 0 .. n |-> E(i)]
  BY DEF ExposureRun, WithExposure
<1>2. 0 \in 0 .. n /\ \A i \in 1 .. n : i \in 0 .. n /\ i # 0
  OBVIOUS
<1>3. \A i \in 0 .. n : i # 0 => i \in 1 .. n
  OBVIOUS
<1>4. E(0) = One /\ \A i \in 0 .. n : i # 0 => E(i) = WithExposure(P[i - 1], f[i])
  OBVIOUS
<1> HIDE DEF E
<1>5. ASSUME P = [i \in 0 .. n |-> E(i)]
      PROVE  P = [i \in 0 .. n |-> P[i]] /\ \A i \in 0 .. n : P[i] = E(i)
  BY <1>5
<1>6. ASSUME P = [i \in 0 .. n |-> P[i]], \A i \in 0 .. n : P[i] = E(i)
      PROVE  P = [i \in 0 .. n |-> E(i)]
  BY <1>6
<1> QED
  BY <1>1, <1>2, <1>3, <1>4, <1>5, <1>6

LEMMA ExposureRunFound ==
  ASSUME NEW X, \A l \in X : l.kind = "exposure" => l.arg \in Nat,
         NEW f \in Seq(X), NEW n \in Nat, n = Len(f)
  PROVE  \E P : ExposureRun(f, n, P) /\ ExposureOf(f) = P[n]
<1>1. One \in Nat \ {0}
  BY HeaderAssumption DEF HeaderAssumption
<1>2. PICK g : g = [i \in 1 .. n |-> [e \in Nat |-> WithExposure(e, f[i])]]
  OBVIOUS
<1>3. ASSUME NEW i \in 1 .. n, NEW e \in Nat PROVE WithExposure(e, f[i]) \in Nat
  <2>1. f[i] \in X
    OBVIOUS
  <2>2. CASE f[i].kind = "exposure"
    <3>1. PICK a \in Nat : a = f[i].arg
      BY <2>1, <2>2
    <3>2. PICK b \in Nat : b = e * a
      OBVIOUS
    <3>3. b \div One \in Nat
      BY <1>1
    <3> QED
      BY <2>2, <3>1, <3>2, <3>3 DEF WithExposure
  <2>3. CASE f[i].kind # "exposure"
    BY <2>3 DEF WithExposure
  <2> QED
    BY <2>2, <2>3
<1>4. g \in [1 .. n -> [Nat -> Nat]]
  BY <1>2, <1>3
<1>5. PICK p : RunOf(n, Nat, One, g, p)
  BY <1>1, <1>4, RunExists
<1>6. ExposureRun(f, n, p)
  <2>1. ASSUME NEW i \in 1 .. n PROVE p[i] = WithExposure(p[i - 1], f[i])
    <3>1. p[i] = g[i][p[i - 1]] /\ p[i - 1] \in Nat
      <4>1. p \in [0 .. n -> Nat] /\ \A j \in 1 .. n : p[j] = g[j][p[j - 1]]
        BY <1>5 DEF RunOf
      <4>2. i - 1 \in 0 .. n
        OBVIOUS
      <4> QED
        BY <4>1, <4>2
    <3> QED
      BY <1>2, <3>1
  <2>2. p = [i \in 0 .. n |-> p[i]] /\ p[0] = One
    BY <1>5 DEF RunOf
  <2> QED
    BY <2>1, <2>2, ExposureRunSteps
<1> QED
  BY <1>6 DEF ExposureRun, ExposureOf

(* An EXPOSURE multiplies the exposure, another line leaves it.            *)
LEMMA ExposureAppend ==
  ASSUME NEW X, \A l \in X : l.kind = "exposure" => l.arg \in Nat,
         NEW f \in Seq(X), NEW l \in X
  PROVE  ExposureOf(Append(f, l)) = WithExposure(ExposureOf(f), l)
<1>1. PICK n \in Nat : n = Len(f)
  OBVIOUS
<1>2. Append(f, l) \in Seq(X)
  BY AppendProperties
<1>3. PICK h \in Seq(X) : h = Append(f, l)
  BY <1>2
<1>4. Len(h) = n + 1 /\ h[n + 1] = l /\ \A i \in 1 .. n : h[i] = f[i]
  BY <1>1, <1>3, AppendProperties
<1>5. PICK P : ExposureRun(f, n, P) /\ ExposureOf(f) = P[n]
  BY <1>1, ExposureRunFound
<1>6. PICK Q : ExposureRun(h, n + 1, Q) /\ ExposureOf(h) = Q[n + 1]
  <2>1. n + 1 \in Nat /\ n + 1 = Len(h)
    BY <1>4
  <2> QED
    BY <2>1, ExposureRunFound
<1>7. P[0] = One /\ \A i \in 1 .. n : P[i] = WithExposure(P[i - 1], f[i])
  BY <1>5, ExposureRunSteps
<1>8. Q[0] = One /\ \A i \in 1 .. n + 1 : Q[i] = WithExposure(Q[i - 1], h[i])
  <2>1. n + 1 \in Nat
    OBVIOUS
  <2> QED
    BY <1>6, <2>1, ExposureRunSteps
<1>9. P[n] = Q[n]
  <2>1. PICK K : K = {i \in 0 .. n : P[i] = Q[i]}
    OBVIOUS
  <2>2. 0 \in K
    BY <1>7, <1>8, <2>1
  <2>3. ASSUME NEW i \in 0 .. n - 1, i \in K PROVE i + 1 \in K
    <3>1. i + 1 \in 1 .. n /\ i + 1 \in 1 .. n + 1 /\ i + 1 \in 0 .. n /\ (i + 1) - 1 = i
      OBVIOUS
    <3>2. P[i] = Q[i] /\ h[i + 1] = f[i + 1]
      BY <1>4, <2>1, <2>3, <3>1
    <3>3. P[i + 1] = Q[i + 1]
      BY <1>7, <1>8, <3>1, <3>2
    <3> QED
      BY <2>1, <3>1, <3>3
  <2>4. n \in K
    BY <2>2, <2>3, FromZero
  <2> QED
    BY <2>1, <2>4
<1>10. Q[n + 1] = WithExposure(Q[n], l)
  BY <1>4, <1>8
<1> QED
  BY <1>3, <1>5, <1>6, <1>9, <1>10

-----------------------------------------------------------------------------
(* Types.                                                                  *)
Arg   == {l.arg : l \in Line}
Value == {NullView[o] : o \in DOMAIN NullView}
           \cup UNION {{v[o] : o \in DOMAIN v} : v \in ViewLine}
View  == [DOMAIN NullView -> Value]
Block == [live : BOOLEAN, text : Seq(Arg)]
Image == [file : Seq(Line), view : View, format : {"unknown", "rgbe", "xyze"},
          exposure : Nat, exposure_set : BOOLEAN, text : Nat, deleted : BOOLEAN]

HeaderTypeOK ==
  /\ copies \in BOOLEAN /\ pc \in {"idle", "lines", "exit"}
  /\ file \in Seq(Line) /\ images \in Seq(Image)
  /\ color_format \in {"unknown", "rgbe", "xyze"}
  /\ view \in View /\ view_set \in BOOLEAN
  /\ indented_view \in View /\ indented_view_set \in BOOLEAN
  /\ exposure \in Nat /\ exposure_set \in BOOLEAN
  /\ header_text \in 0 .. Len(heap) /\ heap \in Seq(Block) /\ misfree \in BOOLEAN

LEMMA LineFacts ==
  ASSUME NEW l \in Line
  PROVE  /\ l.arg \in Arg
         /\ l.kind = "format" => l.arg \in {"rgbe", "xyze", "other"}
         /\ l.kind = "exposure" => l.arg \in Nat
         /\ l.kind \in {"view", "indented view"} => l.arg \in ViewLine
BY HeaderAssumption DEF HeaderAssumption, Line, Arg

LEMMA sscanviewType ==
  ASSUME NEW v \in View, NEW arg \in ViewLine
  PROVE  sscanview(v, arg) \in View
<1>1. \A o \in DOMAIN arg : arg[o] \in Value
  BY DEF Value
<1> QED
  BY <1>1 DEF View, sscanview

LEMMA NullViewType == NullView \in View
BY HeaderAssumption DEF HeaderAssumption, View, Value

(* The text of a header, and what a line adds to it. *)
LEMMA TextOfEmpty == TextOf(<<>>) = <<>>
<1>1. TextLines(<<>>) = <<>>
  <2>1. PICK T : TextRun(<<>>, 0, T) /\ T \in [0 .. 0 -> Seq(Line)] /\ TextLines(<<>>) = T[0]
    <3>none. <<>> \in Seq(Line)
      OBVIOUS
    <3>1. PICK e : e \in Seq(Line) /\ e = <<>>
      BY <3>none
    <3>2. PICK n \in Nat : n = Len(e) /\ n = 0
      BY <3>1
    <3>3. \E T : TextRun(e, n, T) /\ T \in [0 .. n -> Seq(Line)] /\ TextLines(e) = T[n]
      BY <3>1, <3>2, TextRunFound
    <3> QED
      BY <3>1, <3>2, <3>3
  <2> QED
    BY <2>1, TextRunSteps
<1> QED
  BY <1>1 DEF TextOf

LEMMA TextOfType == ASSUME NEW f \in Seq(Line) PROVE TextOf(f) \in Seq(Arg)
<1>1. PICK n \in Nat : n = Len(f)
  OBVIOUS
<1>2. PICK T : T \in [0 .. n -> Seq(Line)] /\ TextLines(f) = T[n]
  BY <1>1, TextRunFound
<1>3. PICK t \in Seq(Line) : t = TextLines(f)
  BY <1>2
<1>4. \A i \in 1 .. Len(t) : t[i] \in Line
  OBVIOUS
<1>5. \A i \in 1 .. Len(t) : t[i].arg \in Arg
  BY <1>4, LineFacts
<1> QED
  BY <1>3, <1>5 DEF TextOf

LEMMA TextOfAppend ==
  ASSUME NEW f \in Seq(Line), NEW l \in Line
  PROVE  TextOf(Append(f, l)) = IF l.kind = "text" THEN Append(TextOf(f), l.arg) ELSE TextOf(f)
<1>1. PICK t \in Seq(Line) : t = TextLines(f)
  BY TextLinesAppend
<1>2. TextLines(Append(f, l)) = WithText(t, l)
  BY <1>1, TextLinesAppend
<1>3. CASE l.kind # "text"
  BY <1>1, <1>2, <1>3 DEF WithText, TextOf
<1>4. CASE l.kind = "text"
  <2>1. PICK u \in Seq(Line) : u = Append(t, l)
    BY AppendProperties
  <2>2. Len(u) = Len(t) + 1 /\ u[Len(t) + 1] = l /\ \A i \in 1 .. Len(t) : u[i] = t[i]
    BY <2>1, AppendProperties
  <2>3. TextOf(Append(f, l)) = [i \in 1 .. Len(t) + 1 |-> u[i].arg]
    BY <1>2, <1>4, <2>1, <2>2 DEF WithText, TextOf
  <2>4. PICK v \in Seq(Arg) : v = TextOf(f)
    BY TextOfType
  <2>5. v = [i \in 1 .. Len(t) |-> t[i].arg] /\ Len(v) = Len(t)
    BY <1>1, <2>4 DEF TextOf
  <2>6. l.arg \in Arg
    BY LineFacts
  <2>7. Append(v, l.arg) = [i \in 1 .. Len(t) + 1 |-> u[i].arg]
    BY <2>2, <2>5, <2>6, AppendProperties
  <2> QED
    BY <1>4, <2>3, <2>4, <2>7
<1> QED
  BY <1>3, <1>4

-----------------------------------------------------------------------------
(* The reader keeps its types. *)
LEMMA InitHeaderType == Init => HeaderTypeOK
<1> SUFFICES ASSUME Init PROVE HeaderTypeOK
  OBVIOUS
<1>1. One \in Nat
  BY HeaderAssumption DEF HeaderAssumption
<1>2. heap = <<>> /\ file = <<>> /\ images = <<>>
  BY DEF Init
<1>3. heap \in Seq(Block) /\ file \in Seq(Line) /\ images \in Seq(Image) /\ Len(heap) = 0
  BY <1>2
<1>4. /\ copies \in BOOLEAN /\ pc = "idle" /\ color_format = "unknown" /\ exposure = One
      /\ exposure_set = FALSE /\ view = NullView /\ view_set = FALSE
      /\ indented_view = NullView /\ indented_view_set = FALSE
      /\ header_text = 0 /\ misfree = FALSE
  BY DEF Init
<1>5. header_text \in 0 .. Len(heap)
  BY <1>3, <1>4
<1>6. exposure \in Nat /\ view \in View /\ indented_view \in View
  BY <1>1, <1>4, NullViewType
<1> QED
  BY <1>3, <1>4, <1>5, <1>6 DEF HeaderTypeOK

(* free marks a block. *)
LEMMA FreeBlock ==
  ASSUME HeaderTypeOK, NEW p \in 0 .. Len(heap), Free(p)
  PROVE  /\ heap' \in Seq(Block) /\ Len(heap') = Len(heap) /\ misfree' \in BOOLEAN
         /\ \A q \in 1 .. Len(heap) : q # p => heap'[q] = heap[q]
         /\ (p # 0 => heap[p].live) /\ ~misfree => ~misfree'
<1>1. misfree' \in BOOLEAN /\ ((p # 0 => heap[p].live) /\ ~misfree => ~misfree')
  BY DEF Free, HeaderTypeOK
<1>2. CASE p = 0
  BY <1>1, <1>2 DEF Free, HeaderTypeOK
<1>3. CASE p # 0
  <2>1. heap \in Seq(Block) /\ p \in 1 .. Len(heap) /\ heap[p] \in Block
    BY <1>3 DEF HeaderTypeOK
  <2>2. heap' = [heap EXCEPT ![p] = [heap[p] EXCEPT !.live = FALSE]]
    BY <1>3 DEF Free
  <2>3. [heap[p] EXCEPT !.live = FALSE] \in Block
    BY <2>1 DEF Block
  <2> QED
    BY <1>1, <2>1, <2>2, <2>3
<1> QED
  BY <1>2, <1>3

LEMMA StartReadType == HeaderTypeOK /\ StartRead => HeaderTypeOK'
<1> SUFFICES ASSUME HeaderTypeOK, StartRead PROVE HeaderTypeOK'
  OBVIOUS
<1>1. One \in Nat
  BY HeaderAssumption DEF HeaderAssumption
<1>2. Free(header_text) /\ header_text \in 0 .. Len(heap)
  BY DEF StartRead, initialize_headline, HeaderTypeOK
<1>3. /\ UNCHANGED copies /\ UNCHANGED images /\ pc' = "lines" /\ file' = <<>>
      /\ color_format' = "unknown" /\ exposure' = One /\ exposure_set' = FALSE
      /\ view' = NullView /\ view_set' = FALSE
      /\ indented_view' = NullView /\ indented_view_set' = FALSE /\ header_text' = 0
  BY DEF StartRead, initialize_headline
<1>4. heap' \in Seq(Block) /\ misfree' \in BOOLEAN /\ Len(heap') \in Nat
  BY <1>2, FreeBlock
<1>5. file' \in Seq(Line) /\ copies' \in BOOLEAN /\ images' \in Seq(Image)
      /\ header_text' \in 0 .. Len(heap')
  BY <1>3, <1>4 DEF HeaderTypeOK
<1> QED
  BY <1>1, <1>3, <1>4, <1>5, NullViewType DEF HeaderTypeOK

LEMMA HeaderLineType ==
  ASSUME HeaderTypeOK, NEW l \in Line,
         \/ FormatLine(l) \/ UnindentedView(l) \/ IndentedView(l) \/ ExposureLine(l) \/ TextLine(l)
  PROVE  HeaderTypeOK'
<1>1. /\ file' = Append(file, l) /\ UNCHANGED <<copies, images, misfree>> /\ file' \in Seq(Line)
      /\ pc = "lines"
  <2>1. file' = Append(file, l) /\ UNCHANGED <<copies, images, misfree>> /\ pc = "lines"
    BY DEF FormatLine, UnindentedView, IndentedView, ExposureLine, TextLine, Reads
  <2> QED
    BY <2>1, AppendProperties DEF HeaderTypeOK
<1>2. CASE FormatLine(l)
  <2>1. color_format' \in {"unknown", "rgbe", "xyze"}
    BY <1>2, LineFacts DEF FormatLine, Reads, HeaderTypeOK
  <2> QED
    BY <1>1, <1>2, <2>1 DEF FormatLine, HeaderTypeOK
<1>3. CASE UnindentedView(l)
  <2>1. view' \in View
    BY <1>3, LineFacts, sscanviewType DEF UnindentedView, Reads, HeaderTypeOK
  <2> QED
    BY <1>1, <1>3, <2>1 DEF UnindentedView, HeaderTypeOK
<1>4. CASE IndentedView(l)
  <2>1. indented_view' \in View /\ indented_view_set' \in BOOLEAN
    BY <1>4, LineFacts, sscanviewType DEF IndentedView, Reads, HeaderTypeOK
  <2> QED
    BY <1>1, <1>4, <2>1 DEF IndentedView, HeaderTypeOK
<1>5. CASE ExposureLine(l)
  <2>1. l.arg \in Nat /\ One \in Nat \ {0} /\ exposure \in Nat
    BY <1>5, LineFacts, HeaderAssumption DEF HeaderAssumption, ExposureLine, Reads, HeaderTypeOK
  <2>2. \A n \in Nat : n \div One \in Nat
    BY <2>1
  <2>3. exposure * l.arg \in Nat
    BY <2>1
  <2>4. exposure' \in Nat
    BY <1>5, <2>2, <2>3 DEF ExposureLine
  <2> QED
    BY <1>1, <1>5, <2>4 DEF ExposureLine, HeaderTypeOK
<1>6. CASE TextLine(l)
  <2>arg. l.arg \in Arg
    BY LineFacts
  <2>1. heap \in Seq(Block) /\ l.arg \in Arg /\ header_text \in 0 .. Len(heap)
        /\ Len(heap) \in Nat
    BY <2>arg DEF HeaderTypeOK
  <2>2. CASE header_text = 0
    <3>1. PICK b : b = [live |-> TRUE, text |-> <<l.arg>>]
      OBVIOUS
    <3>2. b \in Block
      BY <2>1, <3>1 DEF Block
    <3>3. heap' = Append(heap, b) /\ header_text' = Len(heap) + 1
      BY <1>6, <2>2, <3>1 DEF TextLine
    <3>4. heap' \in Seq(Block) /\ Len(heap') = Len(heap) + 1
      BY <2>1, <3>2, <3>3, AppendProperties
    <3>5. header_text' \in 0 .. Len(heap')
      BY <2>1, <3>3, <3>4
    <3> QED
      BY <1>1, <1>6, <3>4, <3>5 DEF TextLine, HeaderTypeOK, found
  <2>3. CASE header_text # 0
    <3>1. PICK b : b = [heap[header_text] EXCEPT !.text = Append(@, l.arg)]
      OBVIOUS
    <3>2. heap[header_text] \in Block
      BY <2>1, <2>3
    <3>3. Append(heap[header_text].text, l.arg) \in Seq(Arg)
      BY <2>1, <3>2, AppendProperties DEF Block
    <3>4. b \in Block
      BY <3>1, <3>2, <3>3 DEF Block
    <3>5. heap' = [heap EXCEPT ![header_text] = b] /\ header_text' = header_text
      BY <1>6, <2>3, <3>1 DEF TextLine
    <3>6. heap' \in Seq(Block) /\ Len(heap') = Len(heap)
      BY <2>1, <2>3, <3>4, <3>5
    <3> QED
      BY <1>1, <1>6, <2>1, <3>5, <3>6 DEF TextLine, HeaderTypeOK, found
  <2> QED
    BY <2>2, <2>3
<1> QED
  BY <1>2, <1>3, <1>4, <1>5, <1>6

LEMMA ReturnHeaderType == HeaderTypeOK /\ ReturnHeader => HeaderTypeOK'
<1> SUFFICES ASSUME HeaderTypeOK, ReturnHeader PROVE HeaderTypeOK'
  OBVIOUS
<1>1. /\ heap \in Seq(Block) /\ Len(heap) \in Nat /\ header_text \in 0 .. Len(heap)
      /\ images \in Seq(Image)
  BY DEF HeaderTypeOK
<1>2. /\ UNCHANGED <<copies, file, color_format, view_set, indented_view,
                     indented_view_set, exposure, exposure_set, header_text, misfree>>
      /\ pc' \in {"idle", "exit"}
  BY DEF ReturnHeader
<1>3. view' \in View
  BY DEF ReturnHeader, HeaderTypeOK
<1>4. heap' \in Seq(Block) /\ Len(heap') \in Nat /\ header_text \in 0 .. Len(heap')
  <2>1. CASE Duplicated
    <3>1. heap[header_text] \in Block
      BY <1>1, <2>1 DEF Duplicated
    <3>2. heap' = Append(heap, heap[header_text])
      BY <2>1 DEF ReturnHeader
    <3> QED
      BY <1>1, <3>1, <3>2, AppendProperties
  <2>2. CASE ~Duplicated
    BY <1>1, <2>2 DEF ReturnHeader
  <2> QED
    BY <2>1, <2>2
<1>5. PICK im : im = [file |-> file, view |-> view', format |-> color_format,
        exposure |-> exposure, exposure_set |-> exposure_set,
        text |-> IF Duplicated THEN Len(heap) + 1 ELSE header_text, deleted |-> FALSE]
  OBVIOUS
<1>6. im \in Image
  <2>1. (IF Duplicated THEN Len(heap) + 1 ELSE header_text) \in Nat
    BY <1>1
  <2> QED
    BY <1>3, <1>5, <2>1 DEF Image, HeaderTypeOK
<1>7. images' = Append(images, im)
  BY <1>5 DEF ReturnHeader
<1>8. images' \in Seq(Image)
  BY <1>1, <1>6, <1>7, AppendProperties
<1> QED
  BY <1>2, <1>3, <1>4, <1>8 DEF HeaderTypeOK

LEMMA DeleteImageType ==
  ASSUME HeaderTypeOK, NEW i \in 1 .. Len(images), DeleteImage(i),
         images[i].text \in 0 .. Len(heap)
  PROVE  HeaderTypeOK' /\ images' = [images EXCEPT ![i] = [images[i] EXCEPT !.deleted = TRUE]]
<1>1. images \in Seq(Image) /\ images[i] \in Image
  BY DEF HeaderTypeOK
<1>2. [images[i] EXCEPT !.deleted = TRUE] \in Image
  BY <1>1 DEF Image
<1>3. images' = [images EXCEPT ![i] = [images[i] EXCEPT !.deleted = TRUE]]
  BY DEF DeleteImage
<1>4. images' \in Seq(Image)
  BY <1>1, <1>2, <1>3
<1>5. heap' \in Seq(Block) /\ misfree' \in BOOLEAN /\ Len(heap') = Len(heap)
  BY FreeBlock DEF DeleteImage
<1> QED
  BY <1>3, <1>4, <1>5 DEF DeleteImage, HeaderTypeOK, found

LEMMA OtherType ==
  ASSUME HeaderTypeOK, InvalidHeader \/ Finished \/ UNCHANGED vars
  PROVE  HeaderTypeOK'
<1>1. /\ UNCHANGED <<copies, file, color_format, view, view_set, indented_view, indented_view_set,
                     exposure, exposure_set, header_text, heap, images, misfree>>
      /\ pc' \in {"idle", "lines", "exit"}
  BY DEF InvalidHeader, Finished, vars, found, HeaderTypeOK
<1> QED
  BY <1>1 DEF HeaderTypeOK

-----------------------------------------------------------------------------
(* The ownership of the text.                                              *)

(* The block of header_text belongs to the module alone: the images have   *)
(* copies, or there is none.                                               *)
Mine == copies \/ images = <<>>

HasText(p, t) == IF p = 0 THEN t = <<>> ELSE heap[p].live /\ heap[p].text = t

(* The inductive invariant of the text: every image that is not deleted    *)
(* has its own text in a block that nobody else has, and so does the       *)
(* module while the block is its own.                                      *)
TextInv ==
  /\ HeaderTypeOK /\ ~misfree
  /\ ~copies => Len(images) <= 1
  /\ pc = "lines" => Mine /\ HasText(header_text, TextOf(file))
  /\ Mine /\ header_text # 0 => heap[header_text].live
  /\ \A i \in 1 .. Len(images) :
       /\ images[i].text \in 0 .. Len(heap)
       /\ ~images[i].deleted => HasText(images[i].text, TextOf(images[i].file))
       /\ copies /\ images[i].text # 0 => images[i].text # header_text
       /\ \A j \in 1 .. Len(images) :
            i # j /\ images[i].text # 0 => images[i].text # images[j].text

LEMMA InitTextInv == Init => TextInv
<1> SUFFICES ASSUME Init PROVE TextInv
  OBVIOUS
<1>1. images = <<>> /\ Len(images) = 0 /\ pc = "idle" /\ header_text = 0 /\ misfree = FALSE
  BY DEF Init
<1> QED
  BY <1>1, InitHeaderType DEF TextInv

(* A picture is read into variables that nothing points to. *)
LEMMA StartReadText ==
  ASSUME MaxUncopied <= 1, TextInv, StartRead
  PROVE  TextInv'
<1>1. HeaderTypeOK' /\ HeaderTypeOK
  BY StartReadType DEF TextInv
<1>2. Mine
  <2>1. ~copies => images = <<>>
    <3>1. ~copies => Len(images) < MaxUncopied /\ Len(images) \in Nat
      BY <1>1 DEF StartRead, Pictures, HeaderTypeOK
    <3>2. MaxUncopied \in Nat
      BY HeaderAssumption DEF HeaderAssumption
    <3>3. ~copies => Len(images) = 0
      BY <3>1, <3>2
    <3> QED
      BY <1>1, <3>3 DEF HeaderTypeOK
  <2> QED
    BY <2>1 DEF Mine
<1>3. /\ Free(header_text) /\ header_text' = 0 /\ UNCHANGED copies /\ UNCHANGED images
      /\ pc' = "lines" /\ file' = <<>>
  BY DEF StartRead, initialize_headline
<1>4. header_text \in 0 .. Len(heap) /\ (header_text # 0 => heap[header_text].live) /\ ~misfree
  BY <1>1, <1>2 DEF TextInv, HeaderTypeOK
<1>5. ~misfree' /\ Len(heap') = Len(heap)
      /\ \A q \in 1 .. Len(heap) : q # header_text => heap'[q] = heap[q]
  BY <1>1, <1>3, <1>4, FreeBlock
<1>6. Mine' /\ HasText(header_text, TextOf(file))'
  BY <1>2, <1>3, TextOfEmpty DEF Mine, HasText
<1>7. ASSUME NEW i \in 1 .. Len(images), ~images[i].deleted
      PROVE  HasText(images[i].text, TextOf(images[i].file))'
  <2>1. images[i].text \in 0 .. Len(heap) /\ HasText(images[i].text, TextOf(images[i].file))
    BY <1>7 DEF TextInv
  <2>2. images[i].text # 0 => images[i].text # header_text
    BY <1>2, <1>7 DEF TextInv, Mine
  <2>3. images[i].text # 0 => heap'[images[i].text] = heap[images[i].text]
    BY <1>5, <2>1, <2>2
  <2> QED
    BY <1>3, <2>1, <2>3 DEF HasText
<1> QED
  BY <1>1, <1>3, <1>5, <1>6, <1>7 DEF TextInv

(* Lines without text leave it alone.                                      *)
LEMMA OtherLineText ==
  ASSUME TextInv, NEW l \in Line,
         FormatLine(l) \/ UnindentedView(l) \/ IndentedView(l) \/ ExposureLine(l)
  PROVE  TextInv'
<1>1. HeaderTypeOK' /\ HeaderTypeOK
  BY HeaderLineType DEF TextInv
<1>2. /\ UNCHANGED copies /\ UNCHANGED images /\ UNCHANGED misfree /\ UNCHANGED header_text
      /\ UNCHANGED heap /\ file' = Append(file, l) /\ l.kind # "text" /\ pc = "lines"
  BY DEF FormatLine, UnindentedView, IndentedView, ExposureLine, Reads
<1>3. TextOf(file') = TextOf(file)
  BY <1>1, <1>2, TextOfAppend DEF HeaderTypeOK
<1>4. Mine' /\ HasText(header_text, TextOf(file))'
  BY <1>2, <1>3 DEF TextInv, Mine, HasText
<1> QED
  BY <1>1, <1>2, <1>4 DEF TextInv, HasText

(* A line of text is added to a block that no image has.                   *)
LEMMA TextLineText ==
  ASSUME TextInv, NEW l \in Line, TextLine(l)
  PROVE  TextInv'
<1>1. HeaderTypeOK' /\ HeaderTypeOK
  BY HeaderLineType DEF TextInv
<1>2. /\ UNCHANGED copies /\ UNCHANGED images /\ UNCHANGED misfree
      /\ file' = Append(file, l) /\ l.kind = "text" /\ pc = "lines" /\ UNCHANGED pc
  BY DEF TextLine, Reads
<1>3. /\ heap \in Seq(Block) /\ Len(heap) \in Nat /\ header_text \in 0 .. Len(heap)
      /\ TextOf(file) \in Seq(Arg) /\ l.arg \in Arg
  <2>1. l.arg \in Arg
    BY LineFacts
  <2>2. TextOf(file) \in Seq(Arg)
    BY <1>1, TextOfType DEF HeaderTypeOK
  <2> QED
    BY <1>1, <2>1, <2>2 DEF HeaderTypeOK
<1>4. TextOf(file') = Append(TextOf(file), l.arg)
  BY <1>1, <1>2, TextOfAppend DEF HeaderTypeOK
<1>5. HasText(header_text, TextOf(file)) /\ Mine
  BY <1>2 DEF TextInv
<1>6. /\ HasText(header_text, TextOf(file))' /\ header_text' # 0
      /\ Len(heap) <= Len(heap')
      /\ header_text' \in {header_text, Len(heap) + 1}
      /\ \A q \in 1 .. Len(heap) : q # header_text => heap'[q] = heap[q]
  <2>1. CASE header_text = 0
    <3>1. PICK b : b = [live |-> TRUE, text |-> <<l.arg>>]
      OBVIOUS
    <3>2. heap' = Append(heap, b) /\ header_text' = Len(heap) + 1
      BY <2>1, <3>1 DEF TextLine
    <3>3. b \in Block
      BY <1>3, <3>1 DEF Block
    <3>4. Len(heap') = Len(heap) + 1 /\ heap'[Len(heap) + 1] = b
          /\ \A q \in 1 .. Len(heap) : heap'[q] = heap[q]
      BY <1>3, <3>2, <3>3, AppendProperties
    <3>5. TextOf(file') = <<l.arg>>
      BY <1>4, <1>5, <2>1 DEF HasText
    <3> QED
      BY <1>3, <3>1, <3>2, <3>4, <3>5 DEF HasText
  <2>2. CASE header_text # 0
    <3>1. heap[header_text] \in Block /\ header_text \in 1 .. Len(heap)
      BY <1>3, <2>2
    <3>2. PICK b : b = [heap[header_text] EXCEPT !.text = Append(@, l.arg)]
      OBVIOUS
    <3>3. heap' = [heap EXCEPT ![header_text] = b] /\ header_text' = header_text
      BY <2>2, <3>2 DEF TextLine
    <3>4. b.live = heap[header_text].live /\ b.text = Append(heap[header_text].text, l.arg)
      BY <3>1, <3>2 DEF Block
    <3>5. heap'[header_text] = b /\ Len(heap') = Len(heap)
          /\ \A q \in 1 .. Len(heap) : q # header_text => heap'[q] = heap[q]
      BY <1>3, <3>1, <3>3
    <3>6. heap[header_text].live /\ heap[header_text].text = TextOf(file)
      BY <1>5, <2>2 DEF HasText
    <3>7. HasText(header_text, TextOf(file))'
      BY <1>4, <2>2, <3>3, <3>4, <3>5, <3>6 DEF HasText
    <3> QED
      BY <1>3, <2>2, <3>3, <3>5, <3>7
  <2> QED
    BY <2>1, <2>2
<1>7. ASSUME NEW i \in 1 .. Len(images)
      PROVE  /\ images[i].text \in 0 .. Len(heap')
             /\ ~images[i].deleted => HasText(images[i].text, TextOf(images[i].file))'
             /\ copies /\ images[i].text # 0 => images[i].text # header_text'
  <2>1. images[i].text \in 0 .. Len(heap)
    BY DEF TextInv
  <2>2. copies
    <3>1. images # <<>>
      BY <1>1 DEF HeaderTypeOK
    <3> QED
      BY <1>5, <3>1 DEF Mine
  <2>3. images[i].text # 0 => images[i].text # header_text
    BY <2>2 DEF TextInv
  <2>4. images[i].text # 0 => heap'[images[i].text] = heap[images[i].text]
    BY <1>6, <2>1, <2>3
  <2>5. ~images[i].deleted => HasText(images[i].text, TextOf(images[i].file))'
    BY <1>2, <2>1, <2>4 DEF TextInv, HasText
  <2>6. Len(heap') \in Nat
    BY <1>1 DEF HeaderTypeOK
  <2> QED
    BY <1>3, <1>6, <2>1, <2>3, <2>5, <2>6
<1>8. Mine'
  BY <1>2, <1>5 DEF Mine
<1>9. heap'[header_text'].live
  BY <1>6 DEF HasText
<1> QED
  BY <1>1, <1>2, <1>6, <1>7, <1>8, <1>9 DEF TextInv

(* The image gets a copy, or the block that the module will not touch      *)
(* again because no other picture is read.                                 *)
LEMMA ReturnHeaderText == TextInv /\ ReturnHeader => TextInv'
<1> SUFFICES ASSUME TextInv, ReturnHeader PROVE TextInv'
  OBVIOUS
<1>1. HeaderTypeOK' /\ HeaderTypeOK
  BY ReturnHeaderType DEF TextInv
<1>2. /\ UNCHANGED copies /\ UNCHANGED misfree /\ UNCHANGED header_text /\ UNCHANGED file
      /\ pc = "lines" /\ pc' # "lines"
  BY DEF ReturnHeader
<1>3. Mine /\ HasText(header_text, TextOf(file)) /\ (header_text # 0 => heap[header_text].live)
  BY <1>2 DEF TextInv
<1>4. /\ heap \in Seq(Block) /\ Len(heap) \in Nat /\ header_text \in 0 .. Len(heap)
      /\ images \in Seq(Image) /\ Len(images) \in Nat
  BY <1>1 DEF HeaderTypeOK
<1>5. PICK im : im = [file |-> file, view |-> view', format |-> color_format,
        exposure |-> exposure, exposure_set |-> exposure_set,
        text |-> IF Duplicated THEN Len(heap) + 1 ELSE header_text, deleted |-> FALSE]
  OBVIOUS
<1>6. /\ images' = Append(images, im) /\ im.file = file
      /\ im.text = IF Duplicated THEN Len(heap) + 1 ELSE header_text
  BY <1>5 DEF ReturnHeader
<1>7. /\ Len(images') = Len(images) + 1 /\ images'[Len(images) + 1] = im
      /\ \A i \in 1 .. Len(images) : images'[i] = images[i]
  <2>1. images' \in Seq(Image) /\ im \in Image
    <3>1. images'[Len(images) + 1] = im /\ Len(images') = Len(images) + 1
      BY <1>4, <1>6
    <3> QED
      BY <1>1, <1>4, <3>1 DEF HeaderTypeOK
  <2> QED
    BY <1>4, <1>6, <2>1, AppendProperties
<1>8. /\ Len(heap) <= Len(heap') /\ Len(heap') \in Nat
      /\ \A q \in 1 .. Len(heap) : heap'[q] = heap[q]
      /\ im.text \in 0 .. Len(heap') /\ HasText(im.text, TextOf(file))'
      /\ copies /\ im.text # 0 => im.text = Len(heap) + 1
  <2>1. CASE Duplicated
    <3>1. header_text # 0 /\ heap[header_text] \in Block
      BY <1>4, <2>1 DEF Duplicated
    <3>2. heap' = Append(heap, heap[header_text])
      BY <2>1 DEF ReturnHeader
    <3>3. Len(heap') = Len(heap) + 1 /\ heap'[Len(heap) + 1] = heap[header_text]
          /\ \A q \in 1 .. Len(heap) : heap'[q] = heap[q]
      BY <1>4, <3>1, <3>2, AppendProperties
    <3>4. heap[header_text].live /\ heap[header_text].text = TextOf(file)
      BY <1>3, <3>1 DEF HasText
    <3>5. im.text = Len(heap) + 1 /\ im.text # 0
      BY <1>4, <1>6, <2>1
    <3> QED
      BY <1>2, <1>4, <3>3, <3>4, <3>5 DEF HasText
  <2>2. CASE ~Duplicated
    <3>1. heap' = heap /\ im.text = header_text
      BY <1>6, <2>2 DEF ReturnHeader
    <3>2. copies => header_text = 0
      BY <2>2 DEF Duplicated
    <3> QED
      BY <1>2, <1>3, <1>4, <3>1, <3>2 DEF HasText
  <2> QED
    BY <2>1, <2>2
<1>9. ~copies => Len(images) = 0
  BY <1>3 DEF Mine
<1>10. \A i \in 1 .. Len(images') : i \in 1 .. Len(images) \/ i = Len(images) + 1
  BY <1>4, <1>7
<1>11. ASSUME NEW i \in 1 .. Len(images)
       PROVE  /\ images[i].text \in 0 .. Len(heap) /\ copies
              /\ images[i].text # 0 => images[i].text # header_text
  <2>1. copies
    BY <1>4, <1>9, <1>11
  <2> QED
    BY <2>1 DEF TextInv
<1>12. ASSUME NEW i \in 1 .. Len(images')
       PROVE  /\ images'[i].text \in 0 .. Len(heap')
              /\ ~images'[i].deleted => HasText(images[i].text, TextOf(images[i].file))'
              /\ copies' /\ images'[i].text # 0 => images'[i].text # header_text'
              /\ \A j \in 1 .. Len(images') :
                   i # j /\ images'[i].text # 0 => images'[i].text # images'[j].text
  <2>1. CASE i \in 1 .. Len(images)
    <3>1. images'[i] = images[i]
      BY <1>7, <2>1
    <3>2. ASSUME NEW j \in 1 .. Len(images'), i # j, images'[i].text # 0
          PROVE  images'[i].text # images'[j].text
      <4>1. CASE j \in 1 .. Len(images)
        BY <1>7, <2>1, <3>1, <3>2, <4>1 DEF TextInv
      <4>2. CASE j = Len(images) + 1
        <5>1. images'[j] = im /\ copies /\ images[i].text \in 0 .. Len(heap)
          BY <1>7, <1>11, <2>1, <4>2
        <5> QED
          BY <1>4, <1>8, <3>1, <3>2, <5>1
      <4> QED
        BY <1>10, <4>1, <4>2
    <3>3. images'[i].text \in 0 .. Len(heap')
      BY <1>4, <1>8, <1>11, <2>1, <3>1
    <3>4. HasText(images[i].text, TextOf(images[i].file))'
            <=> IF images[i].text = 0 THEN TextOf(images[i].file) = <<>>
                ELSE heap'[images[i].text].live
                       /\ heap'[images[i].text].text = TextOf(images[i].file)
      BY <3>1 DEF HasText
    <3>5. ~images[i].deleted => HasText(images[i].text, TextOf(images[i].file))'
      <4>1. images[i].text # 0 => heap'[images[i].text] = heap[images[i].text]
        BY <1>4, <1>8, <1>11, <2>1
      <4> QED
        BY <2>1, <3>4, <4>1 DEF TextInv, HasText
    <3> QED
      BY <1>2, <1>11, <2>1, <3>1, <3>2, <3>3, <3>5
  <2>2. CASE i = Len(images) + 1
    <3>1. images'[i] = im
      BY <1>7, <2>2
    <3>2. ASSUME NEW j \in 1 .. Len(images'), i # j, im.text # 0
          PROVE  im.text # images'[j].text
      <4>1. j \in 1 .. Len(images) /\ images'[j] = images[j]
        BY <1>7, <1>10, <2>2, <3>2
      <4>2. copies /\ images[j].text \in 0 .. Len(heap)
        BY <1>11, <4>1
      <4> QED
        BY <1>4, <1>8, <3>2, <4>1, <4>2
    <3>3. copies /\ im.text # 0 => im.text # header_text
      BY <1>4, <1>8
    <3>4. HasText(images[i].text, TextOf(images[i].file))'
      BY <1>2, <1>6, <1>8, <3>1 DEF HasText
    <3> QED
      BY <1>2, <1>8, <3>1, <3>2, <3>3, <3>4
  <2> QED
    BY <1>10, <2>1, <2>2
<1>13. /\ ~copies' => Len(images') <= 1
       /\ header_text' # 0 => heap'[header_text'].live
  BY <1>2, <1>3, <1>4, <1>7, <1>8, <1>9
<1> QED
  BY <1>1, <1>2, <1>12, <1>13 DEF TextInv

(* An image takes its text along, and nobody else's.                       *)
LEMMA DeleteImageText ==
  ASSUME TextInv, NEW i \in 1 .. Len(images), DeleteImage(i)
  PROVE  TextInv'
<1>1. HeaderTypeOK
  BY DEF TextInv
<1>2. images[i].text \in 0 .. Len(heap)
  BY DEF TextInv
<1>3. HeaderTypeOK' /\ images' = [images EXCEPT ![i] = [images[i] EXCEPT !.deleted = TRUE]]
  BY <1>1, <1>2, DeleteImageType
<1>4. images \in Seq(Image) /\ images[i] \in Image /\ Len(images) \in Nat
      /\ heap \in Seq(Block) /\ Len(heap) \in Nat /\ header_text \in 0 .. Len(heap)
  BY <1>1 DEF HeaderTypeOK
<1>5. /\ UNCHANGED copies /\ UNCHANGED header_text /\ UNCHANGED file /\ pc = "idle" /\ pc' = "idle"
      /\ Free(images[i].text) /\ ~images[i].deleted
  BY DEF DeleteImage
<1>6. /\ Len(images') = Len(images)
      /\ \A j \in 1 .. Len(images) : j # i => images'[j] = images[j]
      /\ images'[i].text = images[i].text /\ images'[i].deleted
  <2>1. PICK im : im = [images[i] EXCEPT !.deleted = TRUE]
    OBVIOUS
  <2>2. im.text = images[i].text /\ im.deleted
    BY <1>4, <2>1 DEF Image
  <2>3. images' = [images EXCEPT ![i] = im]
    BY <1>3, <2>1
  <2> QED
    BY <1>4, <2>2, <2>3
<1>7. images[i].text # 0 => heap[images[i].text].live
  BY <1>5 DEF TextInv, HasText
<1>8. ~misfree' /\ Len(heap') = Len(heap)
      /\ \A q \in 1 .. Len(heap) : q # images[i].text => heap'[q] = heap[q]
  <2>1. ~misfree
    BY DEF TextInv
  <2> QED
    BY <1>1, <1>2, <1>5, <1>7, <2>1, FreeBlock
<1>9. ASSUME NEW j \in 1 .. Len(images')
      PROVE  /\ images'[j].text = images[j].text /\ images'[j].text \in 0 .. Len(heap')
             /\ ~images'[j].deleted => HasText(images[j].text, TextOf(images[j].file))'
             /\ copies' /\ images'[j].text # 0 => images'[j].text # header_text'
  <2>1. images'[j].text = images[j].text /\ j \in 1 .. Len(images)
    BY <1>6
  <2>2. images[j].text \in 0 .. Len(heap)
        /\ (copies /\ images[j].text # 0 => images[j].text # header_text)
    BY <2>1 DEF TextInv
  <2>3. ASSUME j # i, ~images[j].deleted
        PROVE  HasText(images[j].text, TextOf(images[j].file))'
    <3>1. images'[j] = images[j] /\ HasText(images[j].text, TextOf(images[j].file))
      BY <1>6, <2>1, <2>3 DEF TextInv
    <3>2. images[j].text # 0 => heap'[images[j].text] = heap[images[j].text]
      <4>1. images[j].text # 0 => images[j].text # images[i].text
        BY <2>1, <2>3 DEF TextInv
      <4> QED
        BY <1>4, <1>8, <2>2, <4>1
    <3> QED
      BY <3>1, <3>2 DEF HasText
  <2>4. ~images'[j].deleted => j # i /\ ~images[j].deleted
    BY <1>6, <2>1
  <2> QED
    BY <1>5, <1>8, <2>1, <2>2, <2>3, <2>4
<1>10. \A j, k \in 1 .. Len(images') :
         j # k /\ images'[j].text # 0 => images'[j].text # images'[k].text
  <2>1. \A j, k \in 1 .. Len(images) :
          j # k /\ images[j].text # 0 => images[j].text # images[k].text
    BY DEF TextInv
  <2> QED
    BY <1>6, <1>9, <2>1
<1>11. Mine' /\ header_text' # 0 => heap'[header_text'].live
  <2>1. images # <<>> /\ images' # <<>>
    BY <1>4, <1>6
  <2>2. ASSUME copies, header_text # 0 PROVE heap'[header_text].live
    <3>1. heap[header_text].live
      BY <2>2 DEF TextInv, Mine
    <3>2. images[i].text # header_text
      <4>1. images[i].text # 0 => images[i].text # header_text
        BY <2>2 DEF TextInv
      <4> QED
        BY <2>2, <4>1
    <3> QED
      BY <1>4, <1>8, <2>2, <3>1, <3>2
  <2> QED
    BY <1>5, <2>1, <2>2 DEF Mine
<1>12. ~copies' => Len(images') <= 1
  BY <1>5, <1>6 DEF TextInv
<1> QED
  BY <1>3, <1>5, <1>8, <1>9, <1>10, <1>11, <1>12 DEF TextInv

LEMMA OtherText ==
  ASSUME TextInv, InvalidHeader \/ Finished \/ UNCHANGED vars
  PROVE  TextInv'
<1>1. HeaderTypeOK'
  BY OtherType DEF TextInv
<1>2. /\ UNCHANGED copies /\ UNCHANGED images /\ UNCHANGED misfree /\ UNCHANGED header_text
      /\ UNCHANGED heap /\ UNCHANGED file /\ (pc' = "lines" => pc = "lines")
  BY DEF InvalidHeader, Finished, vars, found
<1> QED
  BY <1>1, <1>2 DEF TextInv, Mine, HasText

LEMMA TextInvInvariant == MaxUncopied <= 1 => (Spec => []TextInv)
<1> SUFFICES ASSUME MaxUncopied <= 1 PROVE Spec => []TextInv
  OBVIOUS
<1>1. TextInv /\ [Next]_vars => TextInv'
  BY StartReadText, OtherLineText, TextLineText, ReturnHeaderText, DeleteImageText, OtherText
     DEF Next, HeaderLine
<1> QED
  BY <1>1, InitTextInv, PTL DEF Spec

(* RadianceHeader!OwnText: an image that is not deleted has the text of    *)
(* its own file, in a block that nobody else frees or writes.  It is so    *)
(* for the readers that copy the text however often they are called, and   *)
(* for the others when they are called once, as in the programs here.      *)
THEOREM TextOwned == MaxUncopied <= 1 => (Spec => []OwnText)
<1>1. TextInv => OwnText
  <2> SUFFICES ASSUME TextInv PROVE OwnText
    OBVIOUS
  <2>1. ~misfree /\ heap \in Seq(Block)
    BY DEF TextInv, HeaderTypeOK
  <2>2. ASSUME NEW i \in 1 .. Len(images), ~images[i].deleted, images[i].text # 0
        PROVE  heap[images[i].text] = [live |-> TRUE, text |-> TextOf(images[i].file)]
    <3>1. images[i].text \in 1 .. Len(heap)
      BY <2>2 DEF TextInv
    <3>2. heap[images[i].text] \in Block
      BY <2>1, <3>1
    <3>3. heap[images[i].text].live /\ heap[images[i].text].text = TextOf(images[i].file)
      BY <2>2 DEF TextInv, HasText
    <3>4. \A b \in Block : b = [live |-> b.live, text |-> b.text] /\ b.live \in BOOLEAN
      BY DEF Block
    <3>5. heap[images[i].text].live = TRUE
      BY <3>2, <3>3, <3>4
    <3> QED
      BY <3>2, <3>3, <3>4, <3>5
  <2>3. ASSUME NEW i \in 1 .. Len(images), ~images[i].deleted, images[i].text = 0
        PROVE  TextOf(images[i].file) = <<>>
    BY <2>3 DEF TextInv, HasText
  <2> QED
    BY <2>1, <2>2, <2>3 DEF OwnText
<1> QED
  BY <1>1, TextInvInvariant, PTL

-----------------------------------------------------------------------------
(* Views, exposures and formats.                                           *)

(* The lines of a kind, one line later.                                    *)
LEMMA OfKindAppend ==
  ASSUME NEW f \in Seq(Line), NEW l \in Line, NEW k
  PROVE  /\ OfKind(f, k) \subseteq 1 .. Len(f)
         /\ OfKind(Append(f, l), k) = OfKind(f, k) \cup (IF l.kind = k THEN {Len(f) + 1} ELSE {})
         /\ Append(f, l)[Len(f) + 1] = l
         /\ \A i \in 1 .. Len(f) : Append(f, l)[i] = f[i]
<1>1. PICK n \in Nat : n = Len(f)
  OBVIOUS
<1>2. Append(f, l) \in Seq(Line)
  BY AppendProperties
<1>3. PICK h : h = Append(f, l)
  OBVIOUS
<1>4. Len(h) = n + 1 /\ h[n + 1] = l /\ \A i \in 1 .. n : h[i] = f[i]
  BY <1>1, <1>3, AppendProperties
<1>5. \A i \in 1 .. n + 1 : i \in 1 .. n \/ i = n + 1
  OBVIOUS
<1>6. OfKind(h, k) = OfKind(f, k) \cup (IF l.kind = k THEN {n + 1} ELSE {})
  BY <1>1, <1>4, <1>5 DEF OfKind
<1> QED
  BY <1>1, <1>3, <1>4, <1>6 DEF OfKind

(* The value of an option does not depend on other lines. *)
Agree(f, h, n) == \A i \in 1 .. n : h[i] = f[i]

LEMMA OptionKept ==
  ASSUME NEW f, NEW h, NEW n \in Nat, NEW S \in SUBSET (1 .. n), NEW o,
         Agree(f, h, n)
  PROVE  Option(h, S, o) = Option(f, S, o)
<1> USE DEF Agree
<1>1. PICK set \in SUBSET (1 .. n) :
        set = {i \in S : o \in DOMAIN f[i].arg} /\ set = {i \in S : o \in DOMAIN h[i].arg}
  <2>1. {i \in S : o \in DOMAIN f[i].arg} = {i \in S : o \in DOMAIN h[i].arg}
    OBVIOUS
  <2>2. {i \in S : o \in DOMAIN f[i].arg} \in SUBSET (1 .. n)
    OBVIOUS
  <2> QED
    BY <2>1, <2>2
<1>2. ASSUME set # {} PROVE Greatest(set) \in set
  <2>1. \E m \in set : \A i \in set : i <= m
    <3>1. 1 \in Int /\ n \in Int
      OBVIOUS
    <3> QED
      BY <1>2, <3>1, LargestElement
  <2>2. \E m \in set : \A i \in set : m >= i
    BY <2>1
  <2> QED
    BY <2>2 DEF Greatest
<1>3. set # {} => h[Greatest(set)] = f[Greatest(set)]
  BY <1>2
<1>4. Option(f, S, o) = IF set = {} THEN NullView[o] ELSE f[Greatest(set)].arg[o]
  BY <1>1 DEF Option
<1>5. Option(h, S, o) = IF set = {} THEN NullView[o] ELSE h[Greatest(set)].arg[o]
  BY <1>1 DEF Option
<1> QED
  BY <1>3, <1>4, <1>5

(* A line behind the others sets the options it has.                       *)
LEMMA OptionAppend ==
  ASSUME NEW f, NEW n \in Nat, NEW S \in SUBSET (1 .. n), NEW o
  PROVE  Option(f, S \cup {n + 1}, o) = IF o \in DOMAIN f[n + 1].arg THEN f[n + 1].arg[o]
                                                                    ELSE Option(f, S, o)
<1> DEFINE set == {i \in S \cup {n + 1} : o \in DOMAIN f[i].arg}
<1>1. CASE o \in DOMAIN f[n + 1].arg
  <2>1. n + 1 \in set /\ \A i \in set : n + 1 >= i
    BY <1>1
  <2>2. ASSUME NEW m \in set, \A i \in set : m >= i PROVE m = n + 1
    BY <2>1, <2>2
  <2> HIDE DEF set
  <2>3. Greatest(set) = n + 1
    BY <2>1, <2>2 DEF Greatest
  <2>4. set # {}
    BY <2>1
  <2> QED
    BY <1>1, <2>3, <2>4 DEF Option, set
<1>2. CASE o \notin DOMAIN f[n + 1].arg
  <2>1. set = {i \in S : o \in DOMAIN f[i].arg}
    BY <1>2
  <2> QED
    BY <1>2, <2>1 DEF Option
<1> QED
  BY <1>1, <1>2

(* The options after the lines of S. *)
Options(f, S) == [o \in DOMAIN NullView |-> Option(f, S, o)]

(* sscanview does on the way what Option does at the end. *)
LEMMA OptionsScanned ==
  ASSUME NEW f \in Seq(Line), NEW l \in Line, NEW S \in SUBSET (1 .. Len(f))
  PROVE  /\ Options(Append(f, l), S) = Options(f, S)
         /\ Options(Append(f, l), S \cup {Len(f) + 1}) = sscanview(Options(f, S), l.arg)
<1>1. PICK n \in Nat : n = Len(f)
  OBVIOUS
<1>2. PICK h : h = Append(f, l)
  OBVIOUS
<1>3. h[n + 1] = l /\ \A i \in 1 .. n : h[i] = f[i]
  BY <1>1, <1>2, OfKindAppend
<1>S. S \in SUBSET (1 .. n)
  BY <1>1
<1>4. ASSUME NEW o PROVE Option(h, S, o) = Option(f, S, o)
  <2>1. Agree(f, h, n)
    BY <1>3 DEF Agree
  <2> QED
    BY <1>S, <2>1, OptionKept
<1>5. ASSUME NEW o PROVE Option(h, S \cup {n + 1}, o) = IF o \in DOMAIN l.arg THEN l.arg[o]
                                                                         ELSE Option(f, S, o)
  BY <1>S, <1>3, <1>4, OptionAppend
<1>6. Options(h, S) = Options(f, S)
  BY <1>4 DEF Options
<1>7. Options(h, S \cup {n + 1}) = sscanview(Options(f, S), l.arg)
  BY <1>5 DEF Options, sscanview
<1> QED
  BY <1>1, <1>2, <1>6, <1>7

LEMMA NoOptions == ASSUME NEW f PROVE Options(f, {}) = NullView
<1>1. \A o : Option(f, {}, o) = NullView[o]
  BY DEF Option
<1> QED
  BY <1>1, HeaderAssumption DEF HeaderAssumption, Options

(* The first line of a set, and a line behind it. *)
FirstOf(S) == IF S = {} THEN {} ELSE {Least(S)}

LEMMA LeastFound ==
  ASSUME NEW n \in Nat, NEW S \in SUBSET (1 .. n), S # {}
  PROVE  Least(S) \in S /\ \A j \in S : Least(S) <= j
<1>1. PICK back \in SUBSET (1 .. n) : back = {(n + 1) - i : i \in S}
  <2>1. {(n + 1) - i : i \in S} \in SUBSET (1 .. n)
    OBVIOUS
  <2> QED
    BY <2>1
<1>2. back # {}
  BY <1>1
<1>3. PICK m \in back : \A i \in back : i <= m
  <2>1. 1 \in Int /\ n \in Int
    OBVIOUS
  <2> QED
    BY <1>2, <2>1, LargestElement
<1>4. PICK k \in S : m = (n + 1) - k
  BY <1>1
<1>5. ASSUME NEW j \in S PROVE k <= j
  <2>1. (n + 1) - j <= (n + 1) - k
    BY <1>1, <1>3, <1>4
  <2>2. j \in Nat /\ k \in Nat
    OBVIOUS
  <2> QED
    BY <2>1, <2>2
<1> QED
  BY <1>5 DEF Least

LEMMA FirstKept ==
  ASSUME NEW n \in Nat, NEW S \in SUBSET (1 .. n)
  PROVE  /\ FirstOf(S) \in SUBSET (1 .. n)
         /\ FirstOf(S \cup {n + 1}) = IF S = {} THEN {n + 1} ELSE FirstOf(S)
<1>1. CASE S = {}
  <2>1. Least({n + 1}) = n + 1
    BY DEF Least
  <2> QED
    BY <1>1, <2>1 DEF FirstOf
<1>2. CASE S # {}
  <2>1. Least(S) \in S /\ \A j \in S : Least(S) <= j
    BY <1>2, LeastFound
  <2>2. PICK k \in S : k = Least(S)
    BY <2>1
  <2>3. k \in S \cup {n + 1} /\ \A j \in S \cup {n + 1} : k <= j
    BY <2>1, <2>2
  <2>4. ASSUME NEW i \in S \cup {n + 1}, \A j \in S \cup {n + 1} : i <= j PROVE i = k
    <3>1. i <= k /\ k <= i /\ i \in Nat /\ k \in Nat
      BY <2>3, <2>4
    <3> QED
      BY <3>1
  <2>5. Least(S \cup {n + 1}) = k
    BY <2>3, <2>4 DEF Least
  <2> QED
    BY <1>2, <2>2, <2>5 DEF FirstOf
<1> QED
  BY <1>1, <1>2

LEMMA ExposureOfEmpty == ExposureOf(<<>>) = One
<1>none. <<>> \in Seq(Line)
  OBVIOUS
<1>1. PICK e : e \in Seq(Line) /\ e = <<>>
  BY <1>none
<1>2. PICK n \in Nat : n = Len(e) /\ n = 0
  BY <1>1
<1>3. \A l \in Line : l.kind = "exposure" => l.arg \in Nat
  BY LineFacts
<1>4. \E P : ExposureRun(e, n, P) /\ ExposureOf(e) = P[n]
  BY <1>1, <1>2, <1>3, ExposureRunFound
<1> QED
  BY <1>1, <1>2, <1>4, ExposureRunSteps

-----------------------------------------------------------------------------
(* What is found is what the file says.                                    *)

(* The lines of f with a format: none, or one of the format c.             *)
FormatFound(f, c) ==
  IF c = "unknown" THEN OfKind(f, "format") = {}
  ELSE \E k \in OfKind(f, "format") : OfKind(f, "format") = {k} /\ f[k].arg = c

(* The variables of headline say what the lines so far mean.               *)
Found ==
  /\ view_set = (OfKind(file, "view") # {})
  /\ view = Options(file, OfKind(file, "view"))
  /\ indented_view_set = (OfKind(file, "indented view") # {})
  /\ indented_view = Options(file, FirstOf(OfKind(file, "indented view")))
  /\ exposure = ExposureOf(file) /\ exposure_set = (OfKind(file, "exposure") # {})
  /\ FormatFound(file, color_format)

(* The inductive invariant of the results.  The text of an image is a      *)
(* block of the heap whoever owns it.                                      *)
HeaderInv ==
  /\ HeaderTypeOK /\ OwnHeader
  /\ pc = "lines" => Found
  /\ \A i \in 1 .. Len(images) : images[i].text \in 0 .. Len(heap)

(* No lines mean nothing. *)
LEMMA NothingFound ==
  ASSUME StartRead
  PROVE  Found'
<1>1. /\ file' = <<>> /\ color_format' = "unknown" /\ exposure' = One /\ exposure_set' = FALSE
      /\ view' = NullView /\ view_set' = FALSE
      /\ indented_view' = NullView /\ indented_view_set' = FALSE
  BY DEF StartRead, initialize_headline
<1>2. \A k : OfKind(<<>>, k) = {}
  BY DEF OfKind
<1>3. FirstOf({}) = {}
  BY DEF FirstOf
<1> QED
  BY <1>1, <1>2, <1>3, NoOptions, ExposureOfEmpty DEF Found, FormatFound

(* One more line: what changes of the lines, options and exposure.         *)
LineMeans(f, l, h, k) ==
  /\ (OfKind(h, k) # {}) = (l.kind = k \/ OfKind(f, k) # {})
  /\ Options(h, OfKind(h, k)) =
       IF l.kind = k THEN sscanview(Options(f, OfKind(f, k)), l.arg)
                     ELSE Options(f, OfKind(f, k))
  /\ Options(h, FirstOf(OfKind(h, k))) =
       IF l.kind = k /\ OfKind(f, k) = {}
       THEN sscanview(Options(f, FirstOf(OfKind(f, k))), l.arg)
       ELSE Options(f, FirstOf(OfKind(f, k)))

LEMMA LineMeaning ==
  ASSUME NEW f \in Seq(Line), NEW l \in Line, NEW h, h = Append(f, l), NEW k
  PROVE  LineMeans(f, l, h, k)
<1>1. PICK n \in Nat : n = Len(f)
  OBVIOUS
<1>2. PICK S \in SUBSET (1 .. n) : S = OfKind(f, k)
  BY <1>1, OfKindAppend
<1>3. OfKind(h, k) = IF l.kind = k THEN S \cup {n + 1} ELSE S
  <2>1. OfKind(h, k) = S \cup (IF l.kind = k THEN {n + 1} ELSE {})
    BY <1>1, <1>2, OfKindAppend
  <2> QED
    BY <2>1
<1>4. FirstOf(S) \in SUBSET (1 .. n)
      /\ FirstOf(S \cup {n + 1}) = IF S = {} THEN {n + 1} ELSE FirstOf(S)
  BY FirstKept
<1>5. PICK F \in SUBSET (1 .. n) : F = FirstOf(S)
  BY <1>4
<1>6. /\ Options(h, S) = Options(f, S)
      /\ Options(h, S \cup {n + 1}) = sscanview(Options(f, S), l.arg)
  BY <1>1, OptionsScanned
<1>7. /\ Options(h, F) = Options(f, F)
      /\ Options(h, F \cup {n + 1}) = sscanview(Options(f, F), l.arg)
  BY <1>1, OptionsScanned
<1>8. S = {} => F = {} /\ F \cup {n + 1} = {n + 1}
  BY <1>5 DEF FirstOf
<1> QED
  BY <1>2, <1>3, <1>4, <1>5, <1>6, <1>7, <1>8 DEF LineMeans

(* A format line is the first, or the reader exits. *)
LEMMA FormatLineMeaning ==
  ASSUME NEW f \in Seq(Line), NEW l \in Line, NEW h, h = Append(f, l), NEW c, FormatFound(f, c)
  PROVE  /\ l.kind # "format" => FormatFound(h, c)
         /\ l.kind = "format" /\ c = "unknown" /\ l.arg # "unknown" => FormatFound(h, l.arg)
<1>1. PICK n \in Nat : n = Len(f)
  OBVIOUS
<1>2. /\ OfKind(f, "format") \subseteq 1 .. n
      /\ OfKind(h, "format") = OfKind(f, "format") \cup (IF l.kind = "format" THEN {n + 1} ELSE {})
      /\ h[n + 1] = l /\ \A i \in 1 .. n : h[i] = f[i]
  BY <1>1, OfKindAppend
<1>3. CASE l.kind # "format"
  <2>1. OfKind(h, "format") = OfKind(f, "format")
    BY <1>2, <1>3
  <2>2. \A k \in OfKind(f, "format") : h[k] = f[k]
    BY <1>2
  <2> QED
    BY <1>3, <2>1, <2>2 DEF FormatFound
<1>4. CASE l.kind = "format" /\ c = "unknown" /\ l.arg # "unknown"
  <2>1. OfKind(h, "format") = {n + 1}
    BY <1>2, <1>4 DEF FormatFound
  <2> QED
    BY <1>2, <1>4, <2>1 DEF FormatFound
<1> QED
  BY <1>3, <1>4

(* Every line does to the variables what it means. *)
LEMMA FoundLine ==
  ASSUME HeaderInv, NEW l \in Line,
         \/ FormatLine(l) \/ UnindentedView(l) \/ IndentedView(l) \/ ExposureLine(l) \/ TextLine(l)
  PROVE  pc' = "lines" => Found'
<1>1. file' = Append(file, l) /\ pc = "lines" /\ file \in Seq(Line)
  BY DEF FormatLine, UnindentedView, IndentedView, ExposureLine, TextLine, Reads,
         HeaderInv, HeaderTypeOK
<1>2. /\ view_set = (OfKind(file, "view") # {})
      /\ view = Options(file, OfKind(file, "view"))
      /\ indented_view_set = (OfKind(file, "indented view") # {})
      /\ indented_view = Options(file, FirstOf(OfKind(file, "indented view")))
      /\ exposure = ExposureOf(file) /\ exposure_set = (OfKind(file, "exposure") # {})
      /\ FormatFound(file, color_format)
  BY <1>1 DEF HeaderInv, Found
<1>3. PICK h : h = file'
  OBVIOUS
<1>4. LineMeans(file, l, h, "view")
  BY <1>1, <1>3, LineMeaning
<1>5. LineMeans(file, l, h, "indented view")
  BY <1>1, <1>3, LineMeaning
<1>6. LineMeans(file, l, h, "exposure")
  BY <1>1, <1>3, LineMeaning
<1>7. ExposureOf(h) = WithExposure(ExposureOf(file), l)
  <2>1. \A m \in Line : m.kind = "exposure" => m.arg \in Nat
    BY LineFacts
  <2> QED
    BY <1>1, <1>3, <2>1, ExposureAppend
<1>8. /\ l.kind # "format" => FormatFound(h, color_format)
      /\ l.kind = "format" /\ color_format = "unknown" /\ l.arg # "unknown" => FormatFound(h, l.arg)
  BY <1>1, <1>2, <1>3, FormatLineMeaning
<1>9. /\ l.kind # "format" => color_format' = color_format
      /\ l.kind = "format" /\ pc' = "lines" =>
           color_format = "unknown" /\ l.arg # "unknown" /\ color_format' = l.arg
  <2>1. l.kind = "format" => l.arg \in {"rgbe", "xyze", "other"}
    BY LineFacts
  <2> QED
    BY <1>1, <2>1 DEF FormatLine, UnindentedView, IndentedView, ExposureLine, TextLine, Reads, found
<1>10. /\ view' = IF l.kind = "view" THEN sscanview(view, l.arg) ELSE view
       /\ view_set' = (l.kind = "view" \/ view_set)
  BY DEF FormatLine, UnindentedView, IndentedView, ExposureLine, TextLine, Reads, found,
         HeaderInv, HeaderTypeOK
<1>11. /\ indented_view' = IF l.kind = "indented view" /\ ~indented_view_set
                           THEN sscanview(indented_view, l.arg) ELSE indented_view
       /\ indented_view_set' = (l.kind = "indented view" \/ indented_view_set)
  BY DEF FormatLine, UnindentedView, IndentedView, ExposureLine, TextLine, Reads, found,
         HeaderInv, HeaderTypeOK
<1>12. /\ exposure' = WithExposure(exposure, l)
       /\ exposure_set' = (l.kind = "exposure" \/ exposure_set)
  BY DEF FormatLine, UnindentedView, IndentedView, ExposureLine, TextLine, Reads, found,
         HeaderInv, HeaderTypeOK, WithExposure
<1> SUFFICES ASSUME pc' = "lines" PROVE Found'
  OBVIOUS
<1>13. FormatFound(h, color_format')
  BY <1>8, <1>9
<1>14. view_set' = (OfKind(h, "view") # {}) /\ view' = Options(h, OfKind(h, "view"))
  BY <1>2, <1>4, <1>10 DEF LineMeans
<1>15. /\ indented_view_set' = (OfKind(h, "indented view") # {})
       /\ indented_view' = Options(h, FirstOf(OfKind(h, "indented view")))
  BY <1>2, <1>5, <1>11 DEF LineMeans
<1>16. exposure' = ExposureOf(h) /\ exposure_set' = (OfKind(h, "exposure") # {})
  BY <1>2, <1>6, <1>7, <1>12 DEF LineMeans
<1> QED
  BY <1>3, <1>13, <1>14, <1>15, <1>16 DEF Found

OwnImage(im) ==
  /\ im.view = ViewOf(im.file)
  /\ im.exposure = ExposureOf(im.file)
  /\ im.exposure_set = (OfKind(im.file, "exposure") # {})
  /\ im.format # "unknown" => FormatFound(im.file, im.format)

LEMMA OwnImages == OwnHeader <=> \A i \in 1 .. Len(images) : OwnImage(images[i])
BY DEF OwnHeader, OwnImage, FormatFound

(* The picture returned is that of the lines read. *)
LEMMA ReturnHeaderOwn == HeaderInv /\ ReturnHeader => HeaderInv'
<1> SUFFICES ASSUME HeaderInv, ReturnHeader PROVE HeaderInv'
  OBVIOUS
<1>1. HeaderTypeOK /\ HeaderTypeOK' /\ Found /\ OwnHeader
  BY ReturnHeaderType DEF HeaderInv, ReturnHeader
<1>2. PICK im : im = [file |-> file, view |-> view', format |-> color_format,
        exposure |-> exposure, exposure_set |-> exposure_set,
        text |-> IF Duplicated THEN Len(heap) + 1 ELSE header_text, deleted |-> FALSE]
  OBVIOUS
<1>3. images' = Append(images, im) /\ pc' # "lines"
  BY <1>2 DEF ReturnHeader
<1>4. PICK n \in Nat : n = Len(images)
  BY <1>1 DEF HeaderTypeOK
<1>5. Len(images') = n + 1 /\ images'[n + 1] = im /\ \A i \in 1 .. n : images'[i] = images[i]
  BY <1>1, <1>3, <1>4, AppendProperties DEF HeaderTypeOK
<1>6. \A i \in 1 .. n + 1 : i \in 1 .. n \/ i = n + 1
  OBVIOUS
<1>7. im.view = ViewOf(im.file)
  <2>1. im.file = file /\ im.view = IF indented_view_set /\ ~view_set THEN indented_view ELSE view
    BY <1>2 DEF ReturnHeader
  <2>2. ViewOf(file) = Options(file, IF OfKind(file, "view") # {} THEN OfKind(file, "view")
                                     ELSE FirstOf(OfKind(file, "indented view")))
    BY DEF ViewOf, Options, FirstOf
  <2>3. CASE OfKind(file, "view") # {}
    BY <1>1, <2>1, <2>2, <2>3 DEF Found
  <2>4. CASE OfKind(file, "view") = {} /\ OfKind(file, "indented view") # {}
    BY <1>1, <2>1, <2>2, <2>4 DEF Found
  <2>5. CASE OfKind(file, "view") = {} /\ OfKind(file, "indented view") = {}
    <3>1. im.view = Options(file, {})
      BY <1>1, <2>1, <2>5 DEF Found
    <3>2. ViewOf(file) = Options(file, {})
      BY <2>2, <2>5 DEF FirstOf
    <3> QED
      BY <2>1, <3>1, <3>2
  <2> QED
    BY <2>3, <2>4, <2>5
<1>8. im.exposure = ExposureOf(im.file) /\ im.exposure_set = (OfKind(im.file, "exposure") # {})
  BY <1>1, <1>2 DEF Found
<1>9. OwnImage(im)
  BY <1>1, <1>2, <1>7, <1>8 DEF Found, OwnImage
<1>10. OwnHeader'
  <2>1. \A i \in 1 .. n : OwnImage(images[i])
    BY <1>1, <1>4, OwnImages
  <2>2. \A i \in 1 .. n + 1 : OwnImage(images'[i])
    BY <1>5, <1>6, <1>9, <2>1
  <2> QED
    BY <1>5, <2>2 DEF OwnHeader, OwnImage, FormatFound
<1>11. ASSUME NEW i \in 1 .. n + 1 PROVE images'[i].text \in 0 .. Len(heap')
  <2>1. Len(heap) \in Nat /\ header_text \in 0 .. Len(heap)
    BY <1>1 DEF HeaderTypeOK
  <2>2. Len(heap') = IF Duplicated THEN Len(heap) + 1 ELSE Len(heap)
    <3>1. heap \in Seq(Block) /\ (Duplicated => heap[header_text] \in Block)
      BY <1>1 DEF HeaderTypeOK, Duplicated
    <3> QED
      BY <3>1, AppendProperties DEF ReturnHeader
  <2>3. im.text \in 0 .. Len(heap')
    BY <1>2, <2>1, <2>2
  <2>4. ASSUME i \in 1 .. n PROVE images[i].text \in 0 .. Len(heap)
    BY <1>4, <2>4 DEF HeaderInv
  <2> QED
    BY <1>5, <1>6, <2>1, <2>2, <2>3, <2>4
<1> QED
  BY <1>1, <1>3, <1>5, <1>10, <1>11 DEF HeaderInv

(* Deleting an image changes no other field of it. *)
LEMMA DeleteImageOwn ==
  ASSUME HeaderInv, NEW i \in 1 .. Len(images), DeleteImage(i)
  PROVE  HeaderInv'
<1>1. /\ HeaderTypeOK /\ HeaderTypeOK'
      /\ images' = [images EXCEPT ![i] = [images[i] EXCEPT !.deleted = TRUE]]
  BY DeleteImageType DEF HeaderInv
<1>2. PICK n \in Nat : n = Len(images)
  BY <1>1 DEF HeaderTypeOK
<1>3. images \in Seq(Image) /\ Len(images') = n
  BY <1>1, <1>2 DEF HeaderTypeOK
<1>4. ASSUME NEW j \in 1 .. n
      PROVE  /\ images'[j].file = images[j].file /\ images'[j].view = images[j].view
             /\ images'[j].format = images[j].format /\ images'[j].text = images[j].text
             /\ images'[j].exposure = images[j].exposure
             /\ images'[j].exposure_set = images[j].exposure_set
  <2>1. images[j] \in Image
    BY <1>2, <1>3
  <2>2. images'[j] = IF j = i THEN [images[j] EXCEPT !.deleted = TRUE] ELSE images[j]
    <3>1. PICK im : im = [images[i] EXCEPT !.deleted = TRUE]
      OBVIOUS
    <3>2. images' = [images EXCEPT ![i] = im] /\ j \in DOMAIN images
      BY <1>1, <1>2, <1>3, <3>1
    <3> QED
      BY <3>1, <3>2
  <2> QED
    BY <2>1, <2>2 DEF Image
<1>5. OwnHeader'
  <2>1. \A j \in 1 .. n : OwnImage(images[j])
    BY <1>2, OwnImages DEF HeaderInv
  <2>2. \A j \in 1 .. n : OwnImage(images'[j])
    BY <1>4, <2>1 DEF OwnImage
  <2> QED
    BY <1>3, <2>2 DEF OwnHeader, OwnImage, FormatFound
<1>6. Len(heap') = Len(heap) /\ pc' # "lines"
  BY <1>1, FreeBlock DEF DeleteImage, HeaderInv
<1> QED
  BY <1>1, <1>2, <1>3, <1>4, <1>5, <1>6 DEF HeaderInv

(* The other steps. *)
LEMMA OtherOwn ==
  ASSUME HeaderInv, StartRead \/ HeaderLine \/ InvalidHeader \/ Finished \/ UNCHANGED vars
  PROVE  HeaderInv'
<1>1. CASE StartRead
  <2>1. HeaderTypeOK /\ HeaderTypeOK' /\ Found' /\ UNCHANGED images
    BY <1>1, StartReadType, NothingFound DEF HeaderInv, StartRead
  <2>2. header_text \in 0 .. Len(heap) /\ Free(header_text)
    BY <1>1, <2>1 DEF HeaderTypeOK, StartRead, initialize_headline
  <2>3. Len(heap') = Len(heap)
    BY <2>1, <2>2, FreeBlock
  <2>4. OwnHeader'
    BY <2>1 DEF HeaderInv, OwnHeader
  <2> QED
    BY <2>1, <2>3, <2>4 DEF HeaderInv
<1>2. CASE HeaderLine
  <2>1. PICK l \in Line :
           \/ FormatLine(l) \/ UnindentedView(l) \/ IndentedView(l) \/ ExposureLine(l) \/ TextLine(l)
    BY <1>2 DEF HeaderLine
  <2>2. HeaderTypeOK /\ HeaderTypeOK' /\ (pc' = "lines" => Found')
    BY <2>1, HeaderLineType, FoundLine DEF HeaderInv
  <2>3. UNCHANGED images
    BY <2>1 DEF FormatLine, UnindentedView, IndentedView, ExposureLine, TextLine, Reads
  <2>4. OwnHeader'
    BY <2>3 DEF HeaderInv, OwnHeader
  <2>5. Len(heap) \in Nat /\ Len(heap') \in Nat /\ Len(heap') >= Len(heap)
    <3>1. heap \in Seq(Block) /\ Len(heap) \in Nat /\ Len(heap') \in Nat
      BY <2>2 DEF HeaderTypeOK
    <3>2. CASE UNCHANGED heap
      BY <3>1, <3>2
    <3>3. CASE TextLine(l)
      <4>1. CASE header_text = 0
        <5>1. PICK b : b = [live |-> TRUE, text |-> <<l.arg>>]
          OBVIOUS
        <5>2. heap' = Append(heap, b)
          BY <3>3, <4>1, <5>1 DEF TextLine
        <5>3. Len(heap') = Len(heap) + 1
          BY <3>1, <5>2
        <5> QED
          BY <3>1, <5>3
      <4>2. CASE header_text # 0
        <5>1. Len(heap') = Len(heap)
          BY <3>1, <3>3, <4>2 DEF TextLine
        <5> QED
          BY <3>1, <5>1
      <4> QED
        BY <4>1, <4>2
    <3> QED
      BY <2>1, <3>2, <3>3 DEF FormatLine, UnindentedView, IndentedView, ExposureLine
  <2>6. ASSUME NEW i \in 1 .. Len(images) PROVE images[i].text \in 0 .. Len(heap')
    <3>1. images[i].text \in 0 .. Len(heap)
      BY DEF HeaderInv
    <3> QED
      BY <2>5, <3>1
  <2> QED
    BY <2>2, <2>3, <2>4, <2>6 DEF HeaderInv
<1>3. CASE InvalidHeader \/ Finished \/ UNCHANGED vars
  <2>1. HeaderTypeOK'
    BY <1>3, OtherType DEF HeaderInv
  <2>2. UNCHANGED <<file, color_format, view, view_set, indented_view, indented_view_set,
                     exposure, exposure_set, heap, images>> /\ (pc' = "lines" => pc = "lines")
    BY <1>3 DEF InvalidHeader, Finished, vars, found
  <2>3. OwnHeader'
    BY <2>2 DEF HeaderInv, OwnHeader
  <2>4. Found => Found'
    BY <2>2 DEF Found
  <2> QED
    BY <2>1, <2>2, <2>3, <2>4 DEF HeaderInv
<1> QED
  BY <1>1, <1>2, <1>3

LEMMA HeaderInvInvariant == Spec => []HeaderInv
<1>1. Init => HeaderInv
  <2> SUFFICES ASSUME Init PROVE HeaderInv
    OBVIOUS
  <2>1. images = <<>> /\ Len(images) = 0 /\ pc = "idle"
    BY DEF Init
  <2> QED
    BY <2>1, InitHeaderType DEF HeaderInv, OwnHeader
<1>2. HeaderInv /\ [Next]_vars => HeaderInv'
  BY ReturnHeaderOwn, DeleteImageOwn, OtherOwn DEF Next
<1> QED
  BY <1>1, <1>2, PTL DEF Spec

(* RadianceHeader!OwnHeader: view, format and exposure of every picture    *)
(* are those of its own file, whatever the files before it left in the     *)
(* variables of headline, for headers of any length, whatever options      *)
(* there are, and for readers of either kind called any number of times.   *)
THEOREM HeaderOwned == Spec => []OwnHeader
<1>1. HeaderInv => OwnHeader
  BY DEF HeaderInv
<1> QED
  BY <1>1, HeaderInvInvariant, PTL

-----------------------------------------------------------------------------
(***************************************************************************)
(* HeaderLines: how the lines of a header reach its readers, for every     *)
(* length of the buffer and every file.  The pieces of a long line are     *)
(* MaxLine - 2 bytes each, so inside a line the stream can stand only at a *)
(* multiple of that; in a file without awkward lines it then always has    *)
(* more than an end of line in front of it, and no NUL is ever put back.   *)
(***************************************************************************)
Piece == MaxLine - 2

(* Where the stream may stand in a file without awkward lines: at the      *)
(* beginning of a line, or behind a piece with more text to come.          *)
AtCut ==
  IF InFile THEN pos = 0 \/ (pos \in Cuts(lines[line]) /\ Avail >= 2)
            ELSE pos = 0

(* The inductive invariant.                                                *)
LinesInv == TypeOK /\ (Tame => /\ nul = FALSE /\ AtCut
                               /\ Tiled /\ EndsAtBlank)

-----------------------------------------------------------------------------
(* What getheader reads of a line: at least a byte of the file, and at     *)
(* most the rest of the line or a buffer.                                  *)
LEMMA TakenBounds ==
  ASSUME TypeOK, InFile
  PROVE  /\ lines[line] \in Lines
         /\ Avail \in Nat \ {0} /\ Stored \in Nat /\ Taken \in 1 .. Avail
         /\ Stored = Piece => Taken >= 2
         /\ Stored = MaxLine - 1 => Taken >= 3
<1>1. line \in 1 .. Len(lines)
  BY DEF TypeOK, InFile
<1>2. lines[line] \in Lines
  BY <1>1 DEF TypeOK
<1>3. lines[line] \in [len : Nat \ {0}, cr : BOOLEAN]
  BY <1>2, HeaderLinesAssumption DEF HeaderLinesAssumption
<1>4. Avail \in Nat \ {0}
  BY <1>3 DEF TypeOK, Avail
<1> QED
  BY <1>2, <1>4, HeaderLinesAssumption
     DEF HeaderLinesAssumption, Stored, Taken, Nuls, Piece

(* How far getheader goes on.                                              *)
Step == IF Sentinel \in {"text", "CR"} THEN Taken - 1 ELSE Taken

LEMMA StepBounds ==
  ASSUME TypeOK, InFile
  PROVE  Step \in 1 .. Avail /\ (Sentinel \in {"text", "CR"} => Stored = MaxLine - 1)
<1>1. Sentinel \in {"text", "CR"} => Stored = MaxLine - 1
  BY TakenBounds, HeaderLinesAssumption
     DEF HeaderLinesAssumption, Sentinel, Stored, Taken, Nuls
<1> QED
  BY <1>1, TakenBounds DEF Step

-----------------------------------------------------------------------------
(* getheader keeps the type of its state.                                  *)
LEMMA TypeStep == TypeOK /\ [LinesNext]_linesVars => TypeOK'
<1> SUFFICES ASSUME TypeOK, [LinesNext]_linesVars PROVE TypeOK'
  OBVIOUS
<1>1. ASSUME NEW n \in 1 .. Avail, InFile, Advance(n), UNCHANGED lines
      PROVE  /\ line' \in 1 .. Len(lines') + 1
             /\ pos' \in Nat /\ (InFile' => pos' < lines'[line'].len)
  <2>1. line \in 1 .. Len(lines) /\ Len(lines) \in Nat /\ n \in Nat
    BY <1>1, TakenBounds DEF TypeOK, InFile
  <2>2. \A k \in 1 .. Len(lines) : lines[k].len \in Nat \ {0}
    BY HeaderLinesAssumption DEF HeaderLinesAssumption, TypeOK
  <2>3. CASE pos + n < lines[line].len
    BY <1>1, <2>1, <2>2, <2>3 DEF Advance, TypeOK, InFile
  <2>4. CASE ~(pos + n < lines[line].len)
    <3>1. pos' = 0 /\ line' = line + 1
      BY <1>1, <2>4 DEF Advance
    <3>2. InFile' => line' \in 1 .. Len(lines)
      BY <1>1, <2>1, <3>1 DEF InFile
    <3> QED
      BY <1>1, <2>1, <2>2, <3>1, <3>2
  <2> QED
    BY <2>3, <2>4
<1>2. CASE GetLine
  <2>1. InFile /\ Step \in 1 .. Avail /\ Advance(Step) /\ UNCHANGED lines
    BY <1>2, StepBounds DEF GetLine, Step
  <2>2. [line |-> line, from |-> pos + 1, to |-> Shown(Step)]
          \in [line : Nat, from : Nat, to : Nat]
    <3>1. Step \in Nat /\ line \in Nat /\ pos \in Nat
      BY <2>1, TakenBounds DEF TypeOK
    <3> QED
      BY <3>1 DEF Shown
  <2>3. got' \in Seq([line : Nat, from : Nat, to : Nat])
    BY <1>2, <2>2, AppendProperties DEF GetLine, Step, TypeOK
  <2>4. nul' \in BOOLEAN /\ lines' \in Seq(Lines) /\ state' \in {"read", "done", "failed"}
    BY <1>2 DEF GetLine, TypeOK
  <2> QED
    BY <1>1, <2>1, <2>3, <2>4 DEF TypeOK
<1>3. CASE BlankLine
  <2>1. InFile /\ Avail \in 1 .. Avail /\ Advance(Avail) /\ UNCHANGED lines
    BY <1>3, TakenBounds DEF BlankLine
  <2> QED
    BY <1>1, <1>3, <2>1 DEF TypeOK, BlankLine
<1>4. CASE CallbackRefuses
  BY <1>4 DEF CallbackRefuses, TypeOK, InFile
<1>5. CASE EndOfFile
  BY <1>5 DEF EndOfFile, TypeOK, InFile
<1>6. CASE LinesFinished \/ UNCHANGED linesVars
  BY <1>6 DEF LinesFinished, linesVars, TypeOK, InFile
<1> QED
  BY <1>2, <1>3, <1>4, <1>5, <1>6 DEF LinesNext

(* HeaderLines!TypeOK: the state of getheader, with the stream always in   *)
(* front of a byte of its line.                                            *)
THEOREM LinesTypeCorrect == LinesSpec => []TypeOK
<1>1. LinesInit => TypeOK
  <2>1. ASSUME LinesInit PROVE Len(lines) \in Nat
    BY <2>1 DEF LinesInit
  <2>2. ASSUME LinesInit, InFile PROVE lines[1].len \in Nat \ {0}
    BY <2>1, <2>2, HeaderLinesAssumption DEF HeaderLinesAssumption, LinesInit, InFile
  <2>3. <<>> \in Seq([line : Nat, from : Nat, to : Nat])
    OBVIOUS
  <2> SUFFICES ASSUME LinesInit PROVE TypeOK
    OBVIOUS
  <2>4. line \in 1 .. Len(lines) + 1 /\ (InFile => pos < lines[line].len)
    <3>1. line = 1 /\ pos = 0
      BY DEF LinesInit
    <3> QED
      BY <2>1, <2>2, <3>1
  <2> QED
    BY <2>3, <2>4 DEF LinesInit, TypeOK
<1> QED
  BY <1>1, TypeStep, PTL DEF LinesSpec

-----------------------------------------------------------------------------
(* What a line that is not awkward has behind a cut: not the end of the    *)
(* line, which makes the line as long as some pieces, and not CR LF either.*)
LEMMA CutStep ==
  ASSUME TypeOK, InFile, AtCut, Tame
  PROVE  /\ Avail # Piece
         /\ pos > 0 => Avail >= 2 /\ ~(Avail = 2 /\ Char(pos + 1) = "CR")
         /\ Avail >= Piece => pos + Piece \in Cuts(lines[line])
<1> DEFINE l == lines[line]
<1>1. l \in [len : Nat \ {0}, cr : BOOLEAN] /\ Piece \in Nat /\ Piece >= 3
  BY TakenBounds, HeaderLinesAssumption DEF HeaderLinesAssumption, Piece
<1>2. ~Awkward(l)
  BY DEF Tame, TypeOK, InFile
<1>3. pos \in Nat /\ pos < l.len
  BY DEF TypeOK
<1>4. PICK j \in Nat : pos = j * Piece /\ j <= pos /\ (pos > 0 => j >= 1)
  <2>1. CASE pos = 0
    <3>1. 0 = 0 * Piece
      BY <1>1
    <3> QED
      BY <2>1, <3>1
  <2>2. CASE pos > 0
    <3>1. PICK k \in 1 .. l.len : pos = k * Piece
      BY <2>2, <1>1, <1>3 DEF AtCut, Cuts, Piece
    <3>2. k <= k * Piece
      BY <1>1, <3>1
    <3> QED
      BY <3>1, <3>2, <1>1
  <2> QED
    BY <2>1, <2>2, <1>3
<1>5. (j + 1) * Piece = pos + Piece /\ j + 1 \in 1 .. l.len
  BY <1>1, <1>3, <1>4
<1>6. pos + Piece \in Cuts(l)
  BY <1>5 DEF Cuts, Piece
<1>7. Avail # Piece
  BY <1>1, <1>2, <1>3, <1>6 DEF Awkward, Avail
<1>8. ASSUME pos > 0 PROVE Avail >= 2 /\ ~(Avail = 2 /\ Char(pos + 1) = "CR")
  <2>1. pos \in Cuts(l) /\ Avail >= 2
    BY <1>8, <1>3 DEF AtCut
  <2>2. ASSUME Avail = 2, Char(pos + 1) = "CR" PROVE FALSE
    <3>1. l.cr /\ l.len - 2 = pos
      BY <2>2, <1>1, <1>3 DEF Char, Avail
    <3> QED
      BY <3>1, <2>1, <1>2 DEF Awkward
  <2> QED
    BY <2>1, <2>2
<1> QED
  BY <1>6, <1>7, <1>8

(* The stream stays at the cuts, and steps over a line whole or by a piece. *)
LEMMA CutKept ==
  ASSUME TypeOK, InFile, AtCut, Tame, nul = FALSE, Advance(Step), UNCHANGED lines
  PROVE  Sentinel # "NUL" /\ AtCut'
<1>1. Stored = (IF Avail < MaxLine - 1 THEN Avail ELSE MaxLine - 1) /\ Taken = Stored
  BY TakenBounds, HeaderLinesAssumption DEF HeaderLinesAssumption, Stored, Taken, Nuls
<1>2. Avail \in Nat \ {0} /\ pos \in Nat /\ Avail = lines[line].len - pos
      /\ lines[line].len \in Nat
  BY TakenBounds, HeaderLinesAssumption DEF HeaderLinesAssumption, TypeOK, Avail
<1>3. Sentinel # "NUL"
  BY <1>1, <1>2, CutStep, HeaderLinesAssumption
     DEF HeaderLinesAssumption, Sentinel, Piece, Char
<1>4. CASE Sentinel \in {"text", "CR"}
  <2>1. Stored = MaxLine - 1 /\ Step = Piece /\ Avail >= MaxLine - 1
    BY <1>1, <1>2, <1>4, StepBounds, HeaderLinesAssumption
       DEF HeaderLinesAssumption, Step, Piece
  <2>2. Char(pos + MaxLine - 1) # "LF"
    BY <1>1, <1>4, <2>1, <1>2, HeaderLinesAssumption
       DEF HeaderLinesAssumption, Sentinel
  <2>3. pos + Piece + 2 <= lines[line].len
    BY <1>2, <2>1, <2>2, HeaderLinesAssumption
       DEF HeaderLinesAssumption, Char, Piece
  <2>4. pos' = pos + Piece /\ line' = line
    BY <2>1, <2>3, <1>2, HeaderLinesAssumption DEF HeaderLinesAssumption, Advance, Piece
  <2>5. pos + Piece \in Cuts(lines[line])
    BY <2>1, CutStep, <1>2, HeaderLinesAssumption DEF HeaderLinesAssumption, Piece
  <2>6. InFile' /\ Avail' >= 2
    BY <2>3, <2>4, <1>2, HeaderLinesAssumption
       DEF HeaderLinesAssumption, InFile, Avail, Piece
  <2> QED
    BY <1>3, <2>4, <2>5, <2>6 DEF AtCut
<1>5. CASE Sentinel = "LF"
  <2>1. Step = Taken /\ pos + Step = lines[line].len
    BY <1>1, <1>2, <1>5, HeaderLinesAssumption
       DEF HeaderLinesAssumption, Sentinel, Step, Char
  <2>2. pos' = 0
    BY <2>1, <1>2 DEF Advance
  <2> QED
    BY <1>3, <2>2 DEF AtCut
<1> QED
  BY <1>3, <1>4, <1>5 DEF Sentinel, Char

-----------------------------------------------------------------------------
(* The piece handed over begins where the last one ended, and a step ends  *)
(* where it says.                                                          *)
LEMMA TiledKept ==
  ASSUME TypeOK, Tame, AtCut, nul = FALSE, Tiled, GetLine
  PROVE  Tiled'
<1> DEFINE r == [line |-> line, from |-> pos + 1, to |-> pos + Step]
           R == [line : Nat, from : Nat, to : Nat]
<1>1. got' = Append(got, r) /\ UNCHANGED lines /\ Advance(Step)
      /\ InFile /\ state = "read" /\ state' = "read"
  BY DEF GetLine, Step, Shown
<1>2. Step \in 1 .. Avail /\ Avail = lines[line].len - pos /\ pos \in Nat
      /\ line \in Nat /\ lines[line].len \in Nat
  BY <1>1, StepBounds, TakenBounds, HeaderLinesAssumption
     DEF HeaderLinesAssumption, TypeOK, Avail
<1>3. r \in R /\ got \in Seq(R)
  <2>1. got \in Seq(R)
    BY DEF TypeOK
  <2>2. pos + 1 \in Nat /\ pos + Step \in Nat
    BY <1>2
  <2> QED
    BY <1>2, <2>1, <2>2
<1>len. Len(got) \in Nat
  BY <1>3
<1>4. /\ Len(got') = Len(got) + 1
      /\ \A i \in 1 .. Len(got) : got'[i] = got[i]
      /\ got'[Len(got) + 1] = r
  BY <1>1, <1>3, AppendProperties
<1>5. \A i \in 1 .. Len(got) : Start(i)' = Start(i)
  BY <1>1, <1>4 DEF Start
<1>6. Here = [line |-> line, from |-> pos + 1]
  BY DEF Here
<1>7. Start(Len(got))' = Here'
  <2>1. Start(Len(got))' = IF r.to = lines[r.line].len
                           THEN [line |-> r.line + 1, from |-> 1]
                           ELSE [line |-> r.line, from |-> r.to + 1]
    BY <1>1, <1>4 DEF Start
  <2>2. Here' = [line |-> line', from |-> pos' + 1]
    BY DEF Here
  <2>3. CASE pos + Step < lines[line].len
    BY <1>1, <1>2, <2>1, <2>2, <2>3 DEF Advance
  <2>4. CASE pos + Step = lines[line].len
    BY <1>1, <1>2, <2>1, <2>2, <2>4 DEF Advance
  <2> QED
    BY <1>2, <2>3, <2>4
<1>8. got' # <<>> => got'[1].line = 1 /\ got'[1].from = 1
  <2>1. CASE got = <<>>
    BY <1>1, <1>4, <1>6, <2>1 DEF Tiled
  <2>2. CASE got # <<>>
    <3>1. 1 \in 1 .. Len(got)
      BY <1>len, <1>3, <2>2
    <3> QED
      BY <1>4, <2>2, <3>1 DEF Tiled
  <2> QED
    BY <2>1, <2>2
<1>9. ASSUME NEW i \in 1 .. Len(got') - 1
      PROVE  Start(i)' = [line |-> got'[i + 1].line, from |-> got'[i + 1].from]
  <2>1. i \in 1 .. Len(got) /\ Start(i)' = Start(i)
    BY <1>len, <1>4, <1>5, <1>9
  <2>2. CASE i = Len(got)
    <3>1. got # <<>>
      BY <2>1
    <3>2. Start(i) = Here
      BY <1>1, <2>2, <3>1 DEF Tiled
    <3> QED
      BY <1>4, <1>6, <2>1, <2>2, <3>2
  <2>3. CASE i # Len(got)
    <3>1. i \in 1 .. Len(got) - 1 /\ i + 1 \in 1 .. Len(got)
      BY <1>len, <2>1, <2>3
    <3> QED
      BY <1>4, <2>1, <3>1 DEF Tiled
  <2> QED
    BY <2>2, <2>3
<1>10. got' # <<>>
  BY <1>len, <1>4
<1> QED
  BY <1>7, <1>8, <1>9, <1>10 DEF Tiled

(* A line is left behind only when it is not empty: at its beginning        *)
(* getheader has looked, and behind a cut two bytes are left of it.         *)
LEMMA NotBlankKept ==
  ASSUME TypeOK, Tame, AtCut, nul = FALSE, EndsAtBlank, GetLine
  PROVE  EndsAtBlank'
<1>1. UNCHANGED lines /\ Advance(Step) /\ InFile /\ ~LooksBlank
      /\ state = "read" /\ state' = "read"
  BY DEF GetLine, Step
<1>2. ~IsBlank(lines[line])
  <2>1. lines[line] \in [len : Nat \ {0}, cr : BOOLEAN] /\ Avail = lines[line].len - pos
        /\ pos \in Nat
    BY <1>1, TakenBounds, HeaderLinesAssumption DEF HeaderLinesAssumption, TypeOK, Avail
  <2>2. CASE pos = 0
    BY <1>1, <2>1, <2>2 DEF LooksBlank, IsBlank, Char
  <2>3. CASE pos > 0
    <3>1. Avail >= 2
      BY <1>1, <2>3, CutStep
    <3> QED
      BY <2>1, <2>3, <3>1 DEF IsBlank
  <2> QED
    BY <2>1, <2>2, <2>3
<1>3. \A k \in 1 .. line - 1 : ~IsBlank(lines[k])
  BY <1>1 DEF EndsAtBlank
<1>4. line' \in {line, line + 1} /\ line \in Nat
  BY <1>1 DEF Advance, TypeOK
<1>5. \A k \in 1 .. line' - 1 : ~IsBlank(lines[k])
  <2>1. CASE line' = line
    BY <1>3, <2>1
  <2>2. CASE line' = line + 1
    <3>1. \A k \in 1 .. line' - 1 : k \in 1 .. line - 1 \/ k = line
      BY <1>4, <2>2
    <3> QED
      BY <1>2, <1>3, <3>1
  <2> QED
    BY <1>4, <2>1, <2>2
<1> QED
  BY <1>1, <1>5 DEF EndsAtBlank, IsBlank

(* What looks like an empty line is one. *)
LEMMA BlankFound ==
  ASSUME TypeOK, Tame, AtCut, nul = FALSE, EndsAtBlank, BlankLine
  PROVE  EndsAtBlank' /\ AtCut'
<1>1. UNCHANGED lines /\ Advance(Avail) /\ InFile /\ LooksBlank
      /\ state = "read" /\ state' = "done"
  BY DEF BlankLine
<1>2. lines[line] \in [len : Nat \ {0}, cr : BOOLEAN] /\ Avail = lines[line].len - pos
      /\ pos \in Nat /\ line \in Nat \ {0} /\ (lines[line].cr => lines[line].len >= 2)
  BY <1>1, TakenBounds, HeaderLinesAssumption DEF HeaderLinesAssumption, TypeOK, Avail
<1>3. pos = 0
  BY <1>1, <1>2, CutStep DEF LooksBlank
<1>4. IsBlank(lines[line])
  BY <1>1, <1>2, <1>3 DEF LooksBlank, IsBlank, Char
<1>5. line' = line + 1 /\ pos' = 0
  BY <1>1, <1>2 DEF Advance
<1>6. \A k \in 1 .. line - 1 : ~IsBlank(lines[k])
  BY <1>1 DEF EndsAtBlank
<1> QED
  BY <1>1, <1>2, <1>4, <1>5, <1>6 DEF EndsAtBlank, AtCut, IsBlank

LEMMA LinesInvStep == LinesInv /\ [LinesNext]_linesVars => LinesInv'
<1> SUFFICES ASSUME LinesInv, [LinesNext]_linesVars, Tame
             PROVE  nul' = FALSE /\ AtCut' /\ Tiled' /\ EndsAtBlank'
  <2>1. [LinesNext]_linesVars => UNCHANGED lines
    BY DEF LinesNext, linesVars, GetLine, BlankLine, CallbackRefuses, EndOfFile, LinesFinished
  <2> QED
    BY <2>1, TypeStep DEF LinesInv, Tame, Awkward, Cuts
<1> USE DEF LinesInv
<1>1. CASE GetLine
  <2>1. InFile /\ Advance(Step) /\ UNCHANGED lines /\ nul' = (Sentinel = "NUL")
    BY <1>1 DEF GetLine, Step
  <2> QED
    BY <1>1, <2>1, CutKept, TiledKept, NotBlankKept
<1>2. CASE BlankLine
  <2>1. got' = got /\ state' = "done" /\ UNCHANGED <<lines, nul>>
    BY <1>2 DEF BlankLine
  <2>2. Tiled'
    BY <2>1 DEF Tiled, Start
  <2> QED
    BY <1>2, <2>1, <2>2, BlankFound
<1>3. CASE CallbackRefuses
  <2>1. Tiled'
    BY <1>3 DEF CallbackRefuses, Tiled, Start
  <2> QED
    BY <1>3, <2>1 DEF CallbackRefuses, AtCut, InFile, Avail, Cuts, EndsAtBlank, IsBlank
<1>4. CASE EndOfFile
  <2>1. Tiled'
    BY <1>4 DEF EndOfFile, Tiled, Start
  <2> QED
    BY <1>4, <2>1 DEF EndOfFile, AtCut, InFile, Avail, Cuts, EndsAtBlank, IsBlank
<1>5. CASE LinesFinished \/ UNCHANGED linesVars
  <2>1. UNCHANGED linesVars
    BY <1>5 DEF LinesFinished
  <2>2. Tiled'
    BY <2>1 DEF linesVars, Tiled, Start, Here
  <2> QED
    BY <2>1, <2>2 DEF linesVars, AtCut, InFile, Avail, Cuts, EndsAtBlank, IsBlank
<1> QED
  BY <1>1, <1>2, <1>3, <1>4, <1>5 DEF LinesNext

LEMMA LinesInvInvariant == LinesSpec => []LinesInv
<1>1. LinesInit => AtCut /\ Tiled /\ EndsAtBlank /\ nul = FALSE
  <2> SUFFICES ASSUME LinesInit PROVE AtCut /\ Tiled /\ EndsAtBlank /\ nul = FALSE
    OBVIOUS
  <2>1. line = 1 /\ pos = 0 /\ nul = FALSE /\ got = <<>> /\ state = "read" /\ Len(got) = 0
    BY DEF LinesInit
  <2> QED
    BY <2>1 DEF AtCut, Tiled, Here, EndsAtBlank
<1>2. LinesInit /\ TypeOK => LinesInv
  BY <1>1 DEF LinesInv
<1> QED
  BY <1>2, LinesInvStep, LinesTypeCorrect, PTL DEF LinesSpec

(* HeaderLines!WholeLines: getheader gives its callback every byte of a    *)
(* file without awkward lines once, in order, up to where the stream is.   *)
THEOREM LinesPassedWhole == LinesSpec => []WholeLines
<1>1. LinesInv => WholeLines
  BY DEF LinesInv, WholeLines
<1> QED
  BY <1>1, LinesInvInvariant, PTL

(* HeaderLines!HeaderEnd: in such a file getheader ends the header at the  *)
(* first empty line, and nowhere else.                                     *)
THEOREM HeaderEndsRight == LinesSpec => []HeaderEnd
<1>1. LinesInv => HeaderEnd
  BY DEF LinesInv, HeaderEnd
<1> QED
  BY <1>1, LinesInvInvariant, PTL
=============================================================================
