------------------------------ MODULE RleProofs ------------------------------
(***************************************************************************)
(* Proofs about RlePipe, for every Half, MinRun, width, number of rows and *)
(* components, and for every picture.                                      *)
(*                                                                         *)
(* The stream carries no separators, so that the reader delivers the right *)
(* rows only because each byte determines what the next one is.  Follow    *)
(* says how; the inductive invariant IInv says that the bytes written were *)
(* meant that way (ChainInv), that each is right for its place (BytesInv), *)
(* that the writer stands at the end of the chain (WriterInv) and the      *)
(* reader somewhere on it, with the values read so far in its buffer       *)
(* (ReaderInv).  PriceInv is about the length of the stream.  The last     *)
(* part is about RleForeign, whose definition of a well-formed row is a    *)
(* recursion along the bytes; ForeignInv says how it unwinds at the        *)
(* packets that the reader has passed.                                     *)
(***************************************************************************)
EXTENDS RlePipe, RleForeign, NatLemmas

Start == Place("magic", 0, 0, 0, 0)
End   == Place("end", NRows, 0, 0, 0)

(* The place after the pixels before x of component c of row r. *)
Onward(r, c, x) ==
  IF x < Width THEN Place("code", r, c, x, 0)
  ELSE IF c < NComp - 1 THEN Place("code", r, c + 1, 0, 0)
  ELSE IF r < NRows - 1 THEN Place("magic", r + 1, 0, 0, 0)
  ELSE End

(* The place of the byte after a byte b at the place p. *)
Follow(p, b) ==
  CASE p.k = "magic" -> IF p.n < 3 THEN Place("magic", p.r, 0, 0, p.n + 1)
                                   ELSE Place("code", p.r, 0, 0, 0)
    [] p.k = "code"  -> IF b > Half THEN Place("run", p.r, p.c, p.x, b - Half)
                                    ELSE Place("lit", p.r, p.c, p.x, b)
    [] p.k = "run"   -> Onward(p.r, p.c, p.x + p.n)
    [] p.k = "lit"   -> IF p.n > 1 THEN Place("lit", p.r, p.c, p.x + 1, p.n - 1)
                                   ELSE Onward(p.r, p.c, p.x + 1)
    [] OTHER         -> End

(* The place of byte k, for k up to Len(stream) + 1. *)
Expected(m, s, k) == IF k = 1 THEN Start ELSE Follow(m[k - 1], s[k - 1])

SameValues(s, x, n) == \A d \in 0 .. n - 1 : s[x + d] = s[x]

Kind == {"magic", "code", "run", "lit"}
PlaceSet == [k : Kind, r : Row, c : Comp, x : Col, n : Nat]

(* The byte b is one that the writer of picture I may put at the place p. *)
Fits(I, p, b) ==
  /\ p \in PlaceSet
  /\ p.k = "magic" => p.n \in 0 .. 3 /\ b = Header[p.n + 1]
  /\ p.k = "code" =>
       /\ b >= 1
       /\ IF b > Half THEN p.x + (b - Half) <= Width ELSE p.x + b <= Width
  /\ p.k = "run" =>
       /\ p.n >= 1 /\ p.x + p.n <= Width
       /\ \A d \in 0 .. p.n - 1 : I[p.r][p.c][p.x + d] = b
  /\ p.k = "lit" =>
       /\ p.n >= 1 /\ p.x + p.n <= Width
       /\ b = I[p.r][p.c][p.x]

BytesInv == \A k \in 1 .. Len(stream) : Fits(img, mark[k], stream[k])

ChainInv ==
  /\ mark \in Seq(PlaceSet)
  /\ Len(mark) = Len(stream)
  /\ \A k \in 1 .. Len(stream) : mark[k] = Expected(mark, stream, k)

(* The run that the search found at beg, if any. *)
RunFound == wcnt >= MinRun => wbeg + wcnt <= Width /\ SameValues(scan, wbeg, wcnt)

WriterLocal ==
  /\ wpc = "magic" => wleft \in 0 .. 3 /\ wi = 0 /\ wj = 0 /\ wbeg = 0
  /\ wpc = "find" => wj <= wbeg /\ wbeg < Width
  /\ wpc \in {"short", "shortval"} => IsShortRun(scan, wj, wbeg) /\ RunFound
  /\ wpc = "nonrun" => wj < wbeg /\ RunFound
  /\ wpc = "lit" => 1 <= wleft /\ wleft <= MaxLit /\ wj + wleft <= wbeg /\ RunFound
  /\ wpc \in {"run", "runval"} => wj = wbeg /\ wbeg < Width /\ wcnt >= MinRun /\ RunFound

WriterInv ==
  /\ WriterLocal
  /\ wpc # "dead" => WriterPlace = Expected(mark, stream, Len(stream) + 1)
  /\ wpc = "dead" => Expected(mark, stream, Len(stream) + 1) # End

Reading == rpc \in {"magic", "code", "runval", "lit"}

(* The buffer b holds the row being read up to the pixel before x of ri. *)
Holds(b, x) ==
  /\ \A c \in Comp : c < ri => b[c] = img[Len(delivered)][c]
  /\ \A y \in Col : y < x => b[ri][y] = img[Len(delivered)][ri][y]

ReaderInv ==
  /\ rpc # "old"
  /\ rpc # "failed" => ReaderPlace = Expected(mark, stream, rpos + 1)
  /\ rpc = "failed" => wpc = "dead" /\ rpos = Len(stream)
  /\ rpc = "done" => Len(delivered) = NRows
  /\ Reading => Len(delivered) < NRows
  /\ rpc = "magic" => ri = 0 /\ rj = 0 /\ \A m \in 1 .. Len(hdr) : hdr[m] = Header[m]
  /\ rpc \in {"code", "runval", "lit"} =>
       rj < Width /\ Holds(buf, rj)
  /\ rpc \in {"runval", "lit"} => code >= 1

IInv == TypeOK /\ BytesInv /\ ChainInv /\ WriterInv /\ ReaderInv
          /\ DeliveredIsWritten

-----------------------------------------------------------------------------
LEMMA WidthType == Width \in Nat \ {0}
  BY FormatAssumption, EncodedWidth

(* The sizes that the format derives from Half and Width fit their bytes.  *)
LEMMA HeaderFacts ==
  /\ Header \in [1 .. 4 -> Byte]
  /\ HighByte \in 0 .. Half - 1 /\ LowByte \in Byte
  /\ HighByte * 2 * Half + LowByte = Width
<1>1. HighByte \in 0 .. Half - 1 /\ LowByte \in Byte
        /\ HighByte * 2 * Half + LowByte = Width
  BY FormatAssumption, EncodedWidth DEF HighByte, LowByte, Byte, MaxELen
<1>2. HighByte \in Byte /\ Magic \in Byte
  BY <1>1, FormatAssumption DEF Byte, Magic
<1>3. Header \in [1 .. 4 -> Byte]
  BY <1>1, <1>2 DEF Header
<1> QED
  BY <1>1, <1>3

(* A byte loses nothing when it is put into the stream, and the count of a *)
(* run is what the mask leaves of its code.                                *)
LEMMA PutByte == \A b \in Byte : b % (2 * Half) = b
  BY FormatAssumption DEF Byte

LEMMA CodeMask == \A b \in Byte : b > Half => b % Half = b - Half
  BY FormatAssumption DEF Byte

(* The search for a run finds one, of the length it says. *)
LEMMA RunLengthFound ==
  ASSUME NEW s \in [Col -> Byte], NEW b \in Col
  PROVE  /\ RunLength(s, b) \in 1 .. RunCap(b)
         /\ IsRun(s, b, RunLength(s, b))
<1> DEFINE SameTo(n) == n \in 1 .. RunCap(b) /\ SameValues(s, b, n)
<1>1. RunCap(b) \in Nat \ {0} /\ b + RunCap(b) <= Width
  BY WidthType, FormatAssumption DEF RunCap, MaxRun, Col
<1>2. SUFFICES \E n \in 1 .. RunCap(b) : IsRun(s, b, n)
  BY DEF RunLength
<1>3. SameTo(1)
  BY <1>1 DEF SameValues, Col
<1>4. PICK m \in 1 .. RunCap(b) : SameTo(m) /\ \A n \in 1 .. RunCap(b) : SameTo(n) => n <= m
  <2> DEFINE S == {n \in 1 .. RunCap(b) : SameTo(n)}
  <2>1. S \in SUBSET (1 .. RunCap(b)) /\ S # {} /\ RunCap(b) \in Int /\ 1 \in Int
    BY <1>1, <1>3
  <2>2. \E m \in S : \A n \in S : n <= m
    <3> HIDE DEF S
    <3> QED
      BY <2>1, LargestElement, Zenon
  <2> QED
    BY <2>2
<1>5. IsRun(s, b, m)
  <2>1. m < RunCap(b) => s[b + m] # s[b]
    <3> SUFFICES ASSUME m < RunCap(b), s[b + m] = s[b] PROVE FALSE
      OBVIOUS
    <3>1. SameTo(m + 1)
      BY <1>1, <1>4 DEF SameValues
    <3> QED
      BY <3>1, <1>4, <1>1
  <2> QED
    BY <2>1, <1>4 DEF IsRun, SameValues
<1> QED
  BY <1>5

(* Writing a byte that fits the place of the writer extends the chain.     *)
LEMMA Emit ==
  ASSUME StreamOK, BytesInv, ChainInv, WriterInv, wpc # "dead",
         NEW b \in Byte, Fits(img, WriterPlace, b),
         stream' = Append(stream, b), mark' = Append(mark, WriterPlace),
         UNCHANGED img
  PROVE  /\ StreamOK' /\ BytesInv' /\ ChainInv'
         /\ Len(stream') = Len(stream) + 1
         /\ \A k \in 1 .. Len(stream) + 1 : Expected(mark', stream', k) = Expected(mark, stream, k)
         /\ Expected(mark', stream', Len(stream') + 1) = Follow(WriterPlace, b)
<1> DEFINE L == Len(stream)
<1> USE DEF StreamOK
<1>1. /\ L \in Nat /\ Len(mark) = L
      /\ stream' \in Seq(Byte) /\ Len(stream') = L + 1
      /\ stream'[L + 1] = b
      /\ \A k \in 1 .. L : stream'[k] = stream[k]
  BY DEF ChainInv
<1>2. WriterPlace \in PlaceSet
  BY DEF Fits
<1>3. /\ mark' \in Seq(PlaceSet)
      /\ Len(mark') = L + 1
      /\ mark'[L + 1] = WriterPlace
      /\ \A k \in 1 .. L : mark'[k] = mark[k]
  BY <1>1, <1>2 DEF ChainInv
<1>4. \A k \in 1 .. L + 1 : Expected(mark', stream', k) = Expected(mark, stream, k)
  <2> SUFFICES ASSUME NEW k \in 1 .. L + 1 PROVE Expected(mark', stream', k) = Expected(mark, stream, k)
    OBVIOUS
  <2>1. CASE k = 1
    BY <2>1 DEF Expected
  <2>2. CASE k # 1
    <3>1. k - 1 \in 1 .. L
      BY <2>2, <1>1
    <3>2. mark'[k - 1] = mark[k - 1] /\ stream'[k - 1] = stream[k - 1]
      BY <3>1, <1>1, <1>3
    <3> QED
      BY <2>2, <3>2 DEF Expected
  <2> QED
    BY <2>1, <2>2
<1>5. Expected(mark', stream', Len(stream') + 1) = Follow(WriterPlace, b)
  BY <1>1, <1>3 DEF Expected
<1>6. BytesInv'
  <2> SUFFICES ASSUME NEW k \in 1 .. L + 1 PROVE Fits(img, mark[k], stream[k])'
    BY <1>1 DEF BytesInv
  <2>1. CASE k \in 1 .. L
    BY <2>1, <1>1, <1>3 DEF BytesInv
  <2>2. CASE k = L + 1
    BY <2>2, <1>1, <1>3
  <2> QED
    BY <2>1, <2>2, <1>1
<1>7. ChainInv'
  <2>1. \A k \in 1 .. L + 1 : mark'[k] = Expected(mark', stream', k)
    <3> SUFFICES ASSUME NEW k \in 1 .. L + 1 PROVE mark'[k] = Expected(mark, stream, k)
      BY <1>4
    <3>1. CASE k \in 1 .. L
      BY <3>1, <1>3 DEF ChainInv
    <3>2. CASE k = L + 1
      BY <3>2, <1>3 DEF WriterInv
    <3> QED
      BY <3>1, <3>2, <1>1
  <2> QED
    BY <2>1, <1>1, <1>3 DEF ChainInv
<1> QED
  BY <1>1, <1>4, <1>5, <1>6, <1>7

-----------------------------------------------------------------------------
(* The writer.                                                             *)

(* The scanline being written is one of the picture's.                     *)
LEMMA ScanType ==
  ASSUME TypeOK
  PROVE  /\ scan \in [Col -> Byte]
         /\ scan = img[wrow][wi]
  BY FormatAssumption DEF TypeOK, PictureOK, WriterTypeOK, Scanline, scan

(* NextSearch takes the writer to the place after the pixels before x.     *)
LEMMA NextSearchPlace ==
  ASSUME WriterTypeOK, NEW x \in 1 .. Width, NextSearch(x), wcnt' = wcnt
  PROVE  WriterTypeOK' /\ WriterLocal' /\ wpc' # "dead"
           /\ WriterPlace' = Onward(wrow, wi, x)
<1> USE FormatAssumption, WidthType DEF WriterTypeOK, NextSearch, Row, Comp, MaxRun, MaxLit
<1>1. WriterTypeOK'
  OBVIOUS
<1>2. WriterLocal' /\ wpc' # "dead"
  BY DEF WriterLocal
<1>3. WriterPlace' = Onward(wrow, wi, x)
  BY DEF WriterPlace, Onward, End, Place
<1> QED
  BY <1>1, <1>2, <1>3

(* So does AfterPrefix, when the pixels before beg are written.            *)
LEMMA AfterPrefixPlace ==
  ASSUME WriterTypeOK, RunFound, wbeg \in 1 .. Width, AfterPrefix,
         wcnt' = wcnt, img' = img
  PROVE  WriterTypeOK' /\ WriterLocal' /\ wpc' # "dead"
           /\ WriterPlace' = Onward(wrow, wi, wbeg)
<1>1. CASE wcnt >= MinRun
  <2> USE <1>1, FormatAssumption, WidthType DEF WriterTypeOK, AfterPrefix
  <2>1. wbeg < Width
    BY DEF RunFound
  <2>2. WriterTypeOK' /\ wpc' = "run"
    OBVIOUS
  <2>3. RunFound'
    BY DEF RunFound, SameValues, scan
  <2>4. WriterLocal'
    BY <2>1, <2>2, <2>3 DEF WriterLocal
  <2>5. WriterPlace' = Onward(wrow, wi, wbeg)
    BY <2>1 DEF WriterPlace, Onward, Place
  <2> QED
    BY <2>2, <2>4, <2>5
<1>2. CASE ~(wcnt >= MinRun)
  BY <1>2, NextSearchPlace DEF AfterPrefix
<1> QED
  BY <1>1, <1>2

(* Every step of the writer keeps what concerns it, and leaves the places  *)
(* of the bytes written before, and of the one after them, as they were.   *)
WriterKeeps ==
  /\ PictureOK /\ StreamOK /\ WriterTypeOK
  /\ BytesInv /\ ChainInv /\ WriterInv

Extends ==
  /\ Len(stream) \in Nat /\ Len(stream') \in Nat
  /\ Len(stream) <= Len(stream')
  /\ \A k \in 1 .. Len(stream) + 1 : Expected(mark', stream', k) = Expected(mark, stream, k)

LEMMA FindRunInv ==
  ASSUME TypeOK, WriterKeeps, FindRun, mark' = mark
  PROVE  WriterKeeps' /\ Extends
<1> USE FormatAssumption, WidthType DEF WriterKeeps
<1> DEFINE n == RunLength(scan, wbeg)
<1>1. wpc = "find" /\ wbeg \in Col /\ wj <= wbeg /\ wj \in Col
  BY DEF FindRun, WriterInv, WriterLocal, WriterTypeOK, Col
<1>2. n \in 1 .. RunCap(wbeg) /\ IsRun(scan, wbeg, n)
  BY <1>1, ScanType, RunLengthFound
<1>3. RunCap(wbeg) <= MaxRun /\ RunCap(wbeg) <= Width - wbeg /\ RunCap(wbeg) \in Nat
  BY <1>1 DEF RunCap, MaxRun, Col
<1>4. /\ wcnt' = n /\ n \in 1 .. MaxRun /\ wbeg + n <= Width
      /\ UNCHANGED <<img, stream, mark, wrow, wi, wj, wleft>>
  BY <1>1, <1>2, <1>3 DEF FindRun, Col, MaxRun
<1>5. scan' = scan
  BY <1>4 DEF scan
<1>6. ASSUME n >= MinRun
      PROVE  wpc' \in {"short", "nonrun", "run"} /\ WriterTypeOK' /\ WriterLocal'
  <2>1. wbeg' = wbeg /\ wpc' = AfterSearch(wbeg)
    BY <1>6 DEF FindRun
  <2>2. RunFound'
    BY <2>1, <1>4, <1>5, <1>2 DEF RunFound, SameValues, IsRun
  <2>3. WriterTypeOK' /\ wpc' \in {"short", "nonrun", "run"}
    BY <2>1, <1>4, <1>1 DEF WriterTypeOK, AfterSearch
  <2>4. WriterLocal'
    BY <2>1, <2>2, <2>3, <1>1, <1>4, <1>5, <1>6
       DEF WriterLocal, AfterSearch, IsShortRun, Col, WriterTypeOK
  <2> QED
    BY <2>3, <2>4
<1>7. ASSUME n < MinRun
      PROVE  wpc' \in {"find", "short", "nonrun"} /\ WriterTypeOK' /\ WriterLocal'
  <2>1. wbeg' = wbeg + n /\ wpc' = IF wbeg + n = Width THEN AfterSearch(wbeg + n) ELSE "find"
    BY <1>7, <1>2, <1>4 DEF FindRun
  <2>2. RunFound'
    BY <1>7, <1>4 DEF RunFound
  <2>3. WriterTypeOK' /\ wpc' \in {"find", "short", "nonrun"}
    BY <2>1, <1>4, <1>1 DEF WriterTypeOK, AfterSearch, Col
  <2>4. WriterLocal'
    BY <2>1, <2>2, <2>3, <1>1, <1>4, <1>5
       DEF WriterLocal, AfterSearch, IsShortRun, Col, WriterTypeOK
  <2> QED
    BY <2>3, <2>4
<1>8. wpc' \in {"find", "short", "nonrun", "run"} /\ WriterTypeOK' /\ WriterLocal'
  BY <1>2, <1>6, <1>7
<1>9. WriterPlace' = WriterPlace
  BY <1>8, <1>1, <1>4 DEF WriterPlace
<1>10. /\ Len(stream) \in Nat
       /\ \A k \in 1 .. Len(stream) + 1 : Expected(mark', stream', k) = Expected(mark, stream, k)
  BY <1>4 DEF Expected, StreamOK
<1>11. WriterInv'
  BY <1>4, <1>8, <1>9, <1>10, <1>1 DEF WriterInv
<1>12. PictureOK' /\ StreamOK'
  BY <1>4 DEF PictureOK, StreamOK
<1>13. BytesInv' /\ ChainInv'
  BY <1>4, <1>10 DEF BytesInv, ChainInv
<1> QED
  BY <1>4, <1>8, <1>10, <1>11, <1>12, <1>13 DEF Extends

(* What a step that writes a byte has to show.                             *)
LEMMA EmitKeeps ==
  ASSUME WriterKeeps, NEW b \in Byte, putc(b), img' = img, wpc # "dead",
         mark' = Append(mark, WriterPlace), Fits(img, WriterPlace, b),
         WriterTypeOK', WriterLocal', wpc' # "dead",
         WriterPlace' = Follow(WriterPlace, b)
  PROVE  WriterKeeps' /\ Extends
<1>1. stream' = Append(stream, b)
  BY PutByte DEF putc
<1>2. /\ StreamOK' /\ BytesInv' /\ ChainInv'
      /\ Len(stream') = Len(stream) + 1
      /\ \A k \in 1 .. Len(stream) + 1 : Expected(mark', stream', k) = Expected(mark, stream, k)
      /\ Expected(mark', stream', Len(stream') + 1) = Follow(WriterPlace, b)
  BY <1>1, Emit DEF WriterKeeps
<1>3. WriterInv'
  BY <1>2 DEF WriterInv
<1>4. PictureOK'
  BY DEF WriterKeeps, PictureOK
<1>5. Len(stream) \in Nat
  BY DEF WriterKeeps, StreamOK
<1> QED
  BY <1>2, <1>3, <1>4, <1>5 DEF WriterKeeps, Extends

LEMMA WriteMagicInv ==
  ASSUME TypeOK, WriterKeeps, WriteMagic, mark' = Append(mark, WriterPlace)
  PROVE  WriterKeeps' /\ Extends
<1> DEFINE b == Header[wleft + 1]
<1> USE FormatAssumption, WidthType
<1>1. wpc = "magic" /\ wleft \in 0 .. 3 /\ wi = 0 /\ wj = 0 /\ wbeg = 0
  BY DEF WriterKeeps, WriterInv, WriterLocal, WriteMagic
<1>2. wrow \in Row /\ wi \in Comp /\ wcnt \in 1 .. MaxRun
  BY DEF WriterKeeps, WriterTypeOK
<1>3. b \in Byte
  BY <1>1, HeaderFacts
<1>4. WriterPlace = Place("magic", wrow, 0, 0, wleft)
  BY <1>1 DEF WriterPlace
<1>5. Fits(img, WriterPlace, b)
  BY <1>1, <1>2, <1>4 DEF Fits, PlaceSet, Kind, Place, Comp, Col
<1>6. WriterTypeOK' /\ WriterLocal' /\ wpc' # "dead"
  BY <1>1, <1>2 DEF WriteMagic, WriterTypeOK, WriterLocal, MaxLit, Comp
<1>7. WriterPlace' = Follow(WriterPlace, b)
  BY <1>1, <1>2, <1>4 DEF WriteMagic, WriterPlace, Follow, Place
<1>8. putc(b) /\ img' = img
  BY DEF WriteMagic
<1> QED
  BY <1>1, <1>3, <1>5, <1>6, <1>7, <1>8, EmitKeeps

LEMMA WriteShortRunInv ==
  ASSUME TypeOK, WriterKeeps, WriteShortRun, mark' = Append(mark, WriterPlace)
  PROVE  WriterKeeps' /\ Extends
<1> DEFINE b == Half + wbeg - wj
<1> USE FormatAssumption, WidthType
<1>1. wpc = "short" /\ IsShortRun(scan, wj, wbeg) /\ RunFound
  BY DEF WriterKeeps, WriterInv, WriterLocal, WriteShortRun
<1>2. WriterTypeOK
  BY DEF WriterKeeps
<1>3. b \in Byte /\ b - Half = wbeg - wj /\ wbeg - wj > 1 /\ wj \in Col
  BY <1>1, <1>2 DEF WriterTypeOK, IsShortRun, Byte, Col
<1>4. WriterPlace = Place("code", wrow, wi, wj, 0)
  BY <1>1 DEF WriterPlace
<1>5. Fits(img, WriterPlace, b)
  BY <1>2, <1>3, <1>4 DEF Fits, PlaceSet, Kind, Place, WriterTypeOK
<1>6. WriterTypeOK' /\ WriterLocal' /\ wpc' # "dead"
  BY <1>1, <1>2 DEF WriteShortRun, WriterTypeOK, WriterLocal, RunFound, scan
<1>7. WriterPlace' = Follow(WriterPlace, b)
  <2>1. WriterPlace' = Place("run", wrow, wi, wj, b - Half)
    BY <1>3 DEF WriteShortRun, WriterPlace
  <2>2. b > Half
    BY <1>2, <1>3 DEF WriterTypeOK
  <2> HIDE DEF b
  <2> QED
    BY <2>1, <2>2, <1>4 DEF Follow, Place
<1>8. putc(b) /\ img' = img
  BY DEF WriteShortRun
<1> QED
  BY <1>1, <1>3, <1>5, <1>6, <1>7, <1>8, EmitKeeps

LEMMA WriteShortValueInv ==
  ASSUME TypeOK, WriterKeeps, WriteShortValue, mark' = Append(mark, WriterPlace)
  PROVE  WriterKeeps' /\ Extends
<1> DEFINE b == scan[wj]
<1> USE FormatAssumption, WidthType
<1>1. wpc = "shortval" /\ IsShortRun(scan, wj, wbeg) /\ RunFound
  BY DEF WriterKeeps, WriterInv, WriterLocal, WriteShortValue
<1>2. WriterTypeOK
  BY DEF WriterKeeps
<1>3. wj \in Col /\ wbeg \in 1 .. Width /\ wbeg - wj > 1
  BY <1>1, <1>2 DEF WriterTypeOK, IsShortRun, Col
<1>4. b \in Byte /\ scan = img[wrow][wi]
  BY <1>3, ScanType
<1>5. WriterPlace = Place("run", wrow, wi, wj, wbeg - wj)
  BY <1>1 DEF WriterPlace
<1>6. \A d \in 0 .. (wbeg - wj) - 1 : scan[wj + d] = b
  <2> SUFFICES ASSUME NEW d \in 0 .. (wbeg - wj) - 1 PROVE scan[wj + d] = b
    OBVIOUS
  <2>1. CASE d = 0
    BY <2>1, <1>3 DEF Col
  <2>2. CASE d # 0
    <3>1. wj + d \in wj + 1 .. wbeg - 1
      BY <2>2, <1>3 DEF Col
    <3> QED
      BY <3>1, <1>1 DEF IsShortRun
  <2> QED
    BY <2>1, <2>2
<1>7. Fits(img, WriterPlace, b)
  BY <1>2, <1>3, <1>4, <1>5, <1>6 DEF Fits, PlaceSet, Kind, Place, WriterTypeOK, Col
<1>8. WriterTypeOK' /\ WriterLocal' /\ wpc' # "dead"
        /\ WriterPlace' = Onward(wrow, wi, wbeg)
  BY <1>1, <1>2, <1>3, AfterPrefixPlace DEF WriteShortValue
<1>9. WriterPlace' = Follow(WriterPlace, b)
  BY <1>3, <1>5, <1>8 DEF Follow, Place, Col
<1>10. putc(b) /\ img' = img
  BY DEF WriteShortValue
<1> QED
  BY <1>1, <1>4, <1>7, <1>8, <1>9, <1>10, EmitKeeps

LEMMA WriteNonRunInv ==
  ASSUME TypeOK, WriterKeeps, WriteNonRun, mark' = Append(mark, WriterPlace)
  PROVE  WriterKeeps' /\ Extends
<1> DEFINE b == IF wbeg - wj > MaxLit THEN MaxLit ELSE wbeg - wj
<1> USE FormatAssumption, WidthType
<1>1. wpc = "nonrun" /\ wj < wbeg /\ RunFound
  BY DEF WriterKeeps, WriterInv, WriterLocal, WriteNonRun
<1>2. WriterTypeOK
  BY DEF WriterKeeps
<1>3. b \in Byte /\ b >= 1 /\ b <= Half /\ wj + b <= wbeg /\ wj \in Col
  BY <1>1, <1>2 DEF WriterTypeOK, Byte, Col, MaxLit
<1>4. WriterPlace = Place("code", wrow, wi, wj, 0)
  BY <1>1 DEF WriterPlace
<1>5. Fits(img, WriterPlace, b)
  <2> HIDE DEF b
  <2>1. wj + b <= Width
    BY <1>2, <1>3 DEF WriterTypeOK, Col, Byte
  <2> QED
    BY <2>1, <1>2, <1>3, <1>4 DEF Fits, PlaceSet, Kind, Place, WriterTypeOK, Byte
<1>6. wleft' = b /\ putc(b) /\ img' = img
  BY DEF WriteNonRun
<1>7. WriterTypeOK' /\ WriterLocal' /\ wpc' # "dead"
  <2> HIDE DEF b
  <2> QED
    BY <1>1, <1>2, <1>3, <1>6 DEF WriteNonRun, WriterTypeOK, WriterLocal, RunFound, scan, MaxLit
<1>8. WriterPlace' = Follow(WriterPlace, b)
  <2>1. WriterPlace' = Place("lit", wrow, wi, wj, b)
    BY <1>6 DEF WriteNonRun, WriterPlace
  <2> HIDE DEF b
  <2> QED
    BY <2>1, <1>3, <1>4 DEF Follow, Place, Byte
<1> QED
  BY <1>1, <1>3, <1>5, <1>6, <1>7, <1>8, EmitKeeps

LEMMA WriteLiteralInv ==
  ASSUME TypeOK, WriterKeeps, WriteLiteral, mark' = Append(mark, WriterPlace)
  PROVE  WriterKeeps' /\ Extends
<1> DEFINE b == scan[wj]
<1> USE FormatAssumption, WidthType
<1>1. /\ wpc = "lit" /\ 1 <= wleft /\ wleft <= MaxLit /\ wj + wleft <= wbeg
      /\ RunFound
  BY DEF WriterKeeps, WriterInv, WriterLocal, WriteLiteral
<1>2. WriterTypeOK
  BY DEF WriterKeeps
<1>3. wj \in Col /\ wbeg \in 1 .. Width /\ wj + wleft <= Width
  BY <1>1, <1>2 DEF WriterTypeOK, Col
<1>4. b \in Byte /\ scan = img[wrow][wi]
  BY <1>3, ScanType
<1>5. WriterPlace = Place("lit", wrow, wi, wj, wleft)
  BY <1>1 DEF WriterPlace
<1>6. Fits(img, WriterPlace, b)
  BY <1>1, <1>2, <1>3, <1>4, <1>5 DEF Fits, PlaceSet, Kind, Place, WriterTypeOK
<1>7. putc(b) /\ img' = img /\ wcnt' = wcnt
  BY DEF WriteLiteral
<1>8. ASSUME wleft > 1 \/ (wleft = 1 /\ wj + 1 < wbeg)
      PROVE  WriterTypeOK' /\ WriterLocal' /\ wpc' # "dead"
               /\ WriterPlace' = Follow(WriterPlace, b)
  <2>1. /\ wj' = wj + 1 /\ UNCHANGED <<wrow, wi, wbeg, wcnt>>
        /\ wleft' = IF wleft > 1 THEN wleft - 1 ELSE 0
        /\ wpc' = IF wleft > 1 THEN "lit" ELSE "nonrun"
    BY <1>1, <1>8, <1>3 DEF WriteLiteral, Col
  <2>2. RunFound'
    BY <2>1, <1>1, <1>7 DEF RunFound, scan
  <2>3. WriterTypeOK' /\ wpc' # "dead"
    BY <2>1, <1>1, <1>2, <1>3 DEF WriterTypeOK, Col, MaxLit
  <2>4. WriterLocal'
    BY <2>1, <2>2, <1>1, <1>2, <1>3, <1>8 DEF WriterLocal, WriterTypeOK, Col, MaxLit
  <2>5. WriterPlace' = IF wleft > 1 THEN Place("lit", wrow, wi, wj + 1, wleft - 1)
                                    ELSE Place("code", wrow, wi, wj + 1, 0)
    BY <2>1 DEF WriterPlace
  <2>6. ~(wleft > 1) => wj + 1 < Width
    BY <1>3, <1>8 DEF Col
  <2>7. WriterPlace' = Follow(WriterPlace, b)
    <3> HIDE DEF b
    <3> QED
      BY <2>5, <2>6, <1>5 DEF Follow, Onward, Place
  <2> QED
    BY <2>3, <2>4, <2>7
<1>9. ASSUME wleft = 1, wj + 1 = wbeg
      PROVE  WriterTypeOK' /\ WriterLocal' /\ wpc' # "dead"
               /\ WriterPlace' = Follow(WriterPlace, b)
  <2>1. AfterPrefix
    BY <1>3, <1>9 DEF WriteLiteral, Col
  <2>2. WriterTypeOK' /\ WriterLocal' /\ wpc' # "dead"
          /\ WriterPlace' = Onward(wrow, wi, wbeg)
    BY <2>1, <1>1, <1>2, <1>3, <1>7, AfterPrefixPlace
  <2>3. Follow(WriterPlace, b) = Onward(wrow, wi, wbeg)
    BY <1>5, <1>9 DEF Follow, Place
  <2> QED
    BY <2>2, <2>3
<1>10. wleft > 1 \/ (wleft = 1 /\ wj + 1 < wbeg) \/ (wleft = 1 /\ wj + 1 = wbeg)
  BY <1>1, <1>2 DEF WriterTypeOK
<1> QED
  BY <1>1, <1>4, <1>6, <1>7, <1>8, <1>9, <1>10, EmitKeeps

LEMMA WriteRunInv ==
  ASSUME TypeOK, WriterKeeps, WriteRun, mark' = Append(mark, WriterPlace)
  PROVE  WriterKeeps' /\ Extends
<1> DEFINE b == Half + wcnt
<1> USE FormatAssumption, WidthType
<1>1. wpc = "run" /\ wj = wbeg /\ wbeg < Width /\ wcnt >= MinRun /\ RunFound
  BY DEF WriterKeeps, WriterInv, WriterLocal, WriteRun
<1>2. WriterTypeOK
  BY DEF WriterKeeps
<1>3. b \in Byte /\ wj \in Col /\ wj + wcnt <= Width /\ wcnt >= 1
  BY <1>1, <1>2 DEF WriterTypeOK, Byte, Col, MaxRun, RunFound
<1>4. WriterPlace = Place("code", wrow, wi, wj, 0)
  BY <1>1 DEF WriterPlace
<1>5. b > Half /\ b - Half = wcnt
  BY <1>2, <1>3 DEF WriterTypeOK
<1>6. Fits(img, WriterPlace, b)
  <2> HIDE DEF b
  <2>1. b >= 1 /\ wj + (b - Half) <= Width
    BY <1>3, <1>5 DEF Byte
  <2> QED
    BY <2>1, <1>2, <1>3, <1>4, <1>5 DEF Fits, PlaceSet, Kind, Place, WriterTypeOK
<1>7. WriterTypeOK' /\ WriterLocal' /\ wpc' # "dead"
  BY <1>1, <1>2 DEF WriteRun, WriterTypeOK, WriterLocal, RunFound, scan
<1>8. WriterPlace' = Follow(WriterPlace, b)
  <2>1. WriterPlace' = Place("run", wrow, wi, wj, b - Half)
    BY <1>5 DEF WriteRun, WriterPlace
  <2> HIDE DEF b
  <2> QED
    BY <2>1, <1>4, <1>5 DEF Follow, Place
<1>9. putc(b) /\ img' = img
  BY DEF WriteRun
<1> QED
  BY <1>1, <1>3, <1>6, <1>7, <1>8, <1>9, EmitKeeps

LEMMA WriteRunValueInv ==
  ASSUME TypeOK, WriterKeeps, WriteRunValue, mark' = Append(mark, WriterPlace)
  PROVE  WriterKeeps' /\ Extends
<1> DEFINE b == scan[wbeg]
<1> USE FormatAssumption, WidthType
<1>1. wpc = "runval" /\ wj = wbeg /\ wbeg < Width /\ wcnt >= MinRun /\ RunFound
  BY DEF WriterKeeps, WriterInv, WriterLocal, WriteRunValue
<1>2. WriterTypeOK
  BY DEF WriterKeeps
<1>3. wbeg \in Col /\ wcnt >= 1 /\ wj + wcnt \in 1 .. Width
  BY <1>1, <1>2 DEF WriterTypeOK, Col, RunFound, MaxRun
<1>4. b \in Byte /\ scan = img[wrow][wi]
  BY <1>3, ScanType
<1>5. WriterPlace = Place("run", wrow, wi, wj, wcnt)
  BY <1>1 DEF WriterPlace
<1>6. Fits(img, WriterPlace, b)
  BY <1>1, <1>2, <1>3, <1>4, <1>5
     DEF Fits, PlaceSet, Kind, Place, WriterTypeOK, RunFound, SameValues, MaxRun
<1>7. WriterTypeOK' /\ WriterLocal' /\ wpc' # "dead"
        /\ WriterPlace' = Onward(wrow, wi, wj + wcnt)
  BY <1>2, <1>3, NextSearchPlace DEF WriteRunValue
<1>8. WriterPlace' = Follow(WriterPlace, b)
  BY <1>5, <1>7 DEF Follow, Place
<1>9. putc(b) /\ img' = img
  BY DEF WriteRunValue
<1> QED
  BY <1>1, <1>4, <1>6, <1>7, <1>8, <1>9, EmitKeeps

(* A step of the writer that touches the stream appends one byte.          *)
LEMMA WriteInv ==
  ASSUME TypeOK, WriterKeeps, Write
  PROVE  WriterKeeps' /\ Extends /\ wpc # "dead"
<1>1. ASSUME NEW b, stream' = Append(stream, b) PROVE stream' # stream
  BY <1>1 DEF TypeOK, StreamOK
<1>2. CASE FindRun
  BY <1>2, FindRunInv DEF Write, FindRun
<1>3. CASE WriteMagic
  BY <1>1, <1>3, WriteMagicInv DEF Write, WriteMagic, putc
<1>4. CASE WriteShortRun
  BY <1>1, <1>4, WriteShortRunInv DEF Write, WriteShortRun, putc
<1>5. CASE WriteShortValue
  BY <1>1, <1>5, WriteShortValueInv DEF Write, WriteShortValue, putc
<1>6. CASE WriteNonRun
  BY <1>1, <1>6, WriteNonRunInv DEF Write, WriteNonRun, putc
<1>7. CASE WriteLiteral
  BY <1>1, <1>7, WriteLiteralInv DEF Write, WriteLiteral, putc
<1>8. CASE WriteRun
  BY <1>1, <1>8, WriteRunInv DEF Write, WriteRun, putc
<1>9. CASE WriteRunValue
  BY <1>1, <1>9, WriteRunValueInv DEF Write, WriteRunValue, putc
<1> QED
  BY <1>2, <1>3, <1>4, <1>5, <1>6, <1>7, <1>8, <1>9 DEF Write, WriteStep

-----------------------------------------------------------------------------
(* The reader.                                                             *)

(* What the writer does behind it leaves the reader where it is.           *)
LEMMA ReaderUndisturbed ==
  ASSUME ReaderTypeOK, ReaderInv, DeliveredIsWritten, Extends,
         UNCHANGED <<readerVars, img>>, wpc # "dead"
  PROVE  ReaderTypeOK' /\ ReaderInv' /\ DeliveredIsWritten'
<1>1. /\ rpc' = rpc /\ rpos' = rpos /\ hdr' = hdr /\ ri' = ri /\ rj' = rj
      /\ code' = code /\ buf' = buf /\ delivered' = delivered /\ img' = img
  BY DEF readerVars
<1>2. ReaderTypeOK'
  BY <1>1 DEF ReaderTypeOK, Extends
<1>3. Expected(mark', stream', rpos' + 1) = Expected(mark, stream, rpos + 1)
  BY <1>1 DEF ReaderTypeOK, Extends
<1>4. ReaderPlace' = ReaderPlace
  BY <1>1 DEF ReaderPlace
<1>5. ReaderInv'
  BY <1>1, <1>3, <1>4 DEF ReaderInv, Reading, Holds
<1>6. DeliveredIsWritten'
  BY <1>1 DEF DeliveredIsWritten
<1> QED
  BY <1>2, <1>5, <1>6

(* The byte at hand is what the reader takes it for, and the byte after it *)
(* is the one that has to follow.                                          *)
LEMMA NextByte ==
  ASSUME IInv, Reading, ByteReady
  PROVE  /\ getc \in Byte
         /\ Fits(img, ReaderPlace, getc)
         /\ rpos + 1 \in 1 .. Len(stream)
         /\ Expected(mark, stream, rpos + 2) = Follow(ReaderPlace, getc)
<1>1. rpos \in Nat /\ Len(stream) \in Nat /\ rpos + 1 \in 1 .. Len(stream)
  BY DEF IInv, TypeOK, ReaderTypeOK, StreamOK, ByteReady
<1>2. getc \in Byte
  BY <1>1 DEF IInv, TypeOK, StreamOK, getc
<1>3. mark[rpos + 1] = ReaderPlace
  BY <1>1 DEF IInv, ChainInv, ReaderInv, Reading
<1>4. Fits(img, ReaderPlace, getc)
  BY <1>1, <1>3 DEF IInv, BytesInv, getc
<1>5. Expected(mark, stream, rpos + 2) = Follow(ReaderPlace, getc)
  BY <1>1, <1>3 DEF Expected, getc
<1> QED
  BY <1>1, <1>2, <1>4, <1>5

(* Filled takes the reader to the place after the pixels before x; at the  *)
(* end of the last component it delivers the row, which is the row of the  *)
(* picture.                                                                *)
LEMMA FilledPlace ==
  ASSUME IInv, rpc \in {"runval", "lit", "code"}, NEW x \in 1 .. Width,
         NEW b \in Scanline(Byte \cup {Garbage}), Filled(x, b), Holds(b, x),
         rpos' \in 0 .. Len(stream), UNCHANGED <<img, stream>>
  PROVE  /\ ReaderTypeOK' /\ DeliveredIsWritten'
         /\ ReaderPlace' = Onward(Len(delivered), ri, x)
         /\ rpc' \in {"code", "magic", "done"}
         /\ rpc' = "done" => Len(delivered') = NRows
         /\ Reading' => Len(delivered') < NRows
         /\ rpc' = "magic" => ri' = 0 /\ rj' = 0 /\ hdr' = <<>>
         /\ rpc' = "code" => rj' < Width /\ Holds(buf, rj)'
<1> DEFINE L == Len(delivered)
           S == Scanline(Byte \cup {Garbage})
<1> USE FormatAssumption, WidthType
<1>1. ReaderTypeOK /\ L \in Nat /\ L < NRows /\ delivered \in Seq(S) /\ DeliveredIsWritten
  BY DEF IInv, TypeOK, ReaderTypeOK, ReaderInv, Reading
<1>2. rpc' \in {"code", "magic", "done"} /\ code' = 0 /\ buf' = b
  BY DEF Filled
<1>3. CASE x < Width
  <2>1. /\ rpc' = "code" /\ rj' = x /\ UNCHANGED <<ri, hdr, delivered>>
    BY <1>3 DEF Filled
  <2>2. ReaderTypeOK'
    BY <1>1, <1>2, <2>1 DEF ReaderTypeOK, MaxLit
  <2>3. ReaderPlace' = Onward(L, ri, x)
    BY <1>3, <2>1 DEF ReaderPlace, Onward
  <2>4. Holds(buf, rj)' /\ DeliveredIsWritten' /\ Len(delivered') < NRows
    BY <1>1, <1>2, <2>1 DEF Holds, DeliveredIsWritten
  <2> QED
    BY <1>2, <1>3, <2>1, <2>2, <2>3, <2>4
<1>4. CASE x = Width /\ ri < NComp - 1
  <2>1. /\ rpc' = "code" /\ rj' = 0 /\ ri' = ri + 1 /\ UNCHANGED <<hdr, delivered>>
    BY <1>4 DEF Filled
  <2>2. ReaderTypeOK'
    BY <1>1, <1>2, <1>4, <2>1 DEF ReaderTypeOK, Comp, MaxLit
  <2>3. ReaderPlace' = Onward(L, ri, x)
    BY <1>4, <2>1 DEF ReaderPlace, Onward
  <2>4. b[ri] = img[L][ri]
    <3>1. b[ri] \in [Col -> Byte \cup {Garbage}] /\ img[L][ri] \in [Col -> Value]
      BY <1>1 DEF IInv, TypeOK, PictureOK, Scanline, ReaderTypeOK, Row
    <3>2. \A y \in Col : b[ri][y] = img[L][ri][y]
      BY <1>4 DEF Holds, Col
    <3> QED
      BY <3>1, <3>2
  <2>5. Holds(buf, rj)'
    BY <1>1, <1>2, <2>1, <2>4 DEF Holds, Comp, Col, ReaderTypeOK
  <2>6. DeliveredIsWritten' /\ Len(delivered') < NRows /\ rj' < Width
    BY <1>1, <2>1 DEF DeliveredIsWritten
  <2> QED
    BY <1>2, <2>1, <2>2, <2>3, <2>5, <2>6
<1>5. CASE x = Width /\ ~(ri < NComp - 1)
  <2>1. /\ rj' = 0 /\ ri' = 0 /\ hdr' = <<>> /\ delivered' = Append(delivered, b)
        /\ rpc' = IF L + 1 < NRows THEN "magic" ELSE "done"
    BY <1>5 DEF Filled
  <2>2. delivered' \in Seq(S) /\ Len(delivered') = L + 1
          /\ delivered'[L + 1] = b /\ \A r \in 1 .. L : delivered'[r] = delivered[r]
    BY <1>1, <2>1
  <2>3. ReaderTypeOK'
    BY <1>1, <1>2, <2>1, <2>2 DEF ReaderTypeOK, Comp, MaxLit
  <2>4. ReaderPlace' = Onward(L, ri, x)
    BY <1>1, <1>5, <2>1, <2>2 DEF ReaderPlace, Onward, End
  <2>5. b = img[L]
    <3>1. b \in [Comp -> [Col -> Byte \cup {Garbage}]] /\ img[L] \in [Comp -> [Col -> Value]]
      BY <1>1 DEF IInv, TypeOK, PictureOK, Scanline, Row
    <3>2. ri \in Comp /\ ri = NComp - 1
      BY <1>1, <1>5 DEF ReaderTypeOK, Comp
    <3>3. b[ri] = img[L][ri]
      <4>1. \A y \in Col : b[ri][y] = img[L][ri][y]
        BY <1>5 DEF Holds, Col
      <4> QED
        BY <4>1, <3>1, <3>2
    <3>4. \A c \in Comp : b[c] = img[L][c]
      BY <3>2, <3>3 DEF Holds, Comp
    <3> QED
      BY <3>1, <3>4
  <2>6. DeliveredIsWritten'
    <3>1. L \in Nat /\ Len(delivered') = L + 1 /\ img' = img
      BY <1>1, <2>2
    <3>2. ASSUME NEW r \in 1 .. L + 1 PROVE delivered'[r] = img[r - 1]
      <4>1. CASE r = L + 1
        BY <2>2, <2>5, <3>1, <4>1
      <4>2. CASE r # L + 1
        <5>1. r \in 1 .. L
          BY <3>1, <4>2
        <5> QED
          BY <1>1, <2>2, <5>1 DEF DeliveredIsWritten
      <4> QED
        BY <4>1, <4>2
    <3> QED
      BY <3>1, <3>2 DEF DeliveredIsWritten
  <2>7. (Reading' => Len(delivered') < NRows) /\ (rpc' = "done" => Len(delivered') = NRows)
    BY <1>1, <2>1, <2>2 DEF Reading
  <2> QED
    BY <1>2, <2>1, <2>3, <2>4, <2>6, <2>7
<1> QED
  BY <1>3, <1>4, <1>5

(* What the steps of the reader have to show, besides leaving the writer   *)
(* alone.                                                                  *)
ReaderKeeps == ReaderTypeOK /\ ReaderInv /\ DeliveredIsWritten

LEMMA ReadMagicInv ==
  ASSUME IInv, ReadMagic, UNCHANGED <<writerVars, mark>>
  PROVE  ReaderKeeps'
<1> USE FormatAssumption, WidthType
<1> DEFINE m == Len(hdr)
<1>1. /\ rpc = "magic" /\ Reading /\ ByteReady
      /\ UNCHANGED <<img, stream, mark, buf, wpc>>
  BY DEF ReadMagic, Reading, writerVars
<1>20. ReaderTypeOK /\ ReaderInv /\ DeliveredIsWritten
  BY DEF IInv, TypeOK
<1>2. /\ ReaderTypeOK /\ ri = 0 /\ rj = 0 /\ Len(delivered) < NRows
      /\ \A k \in 1 .. m : hdr[k] = Header[k]
      /\ hdr \in Seq(Byte) /\ m \in 0 .. 3 /\ DeliveredIsWritten
  <2>1. hdr \in Seq(Byte) /\ Len(hdr) <= 3 /\ Len(hdr) \in Nat
    BY <1>20 DEF ReaderTypeOK
  <2>2. ri = 0 /\ rj = 0 /\ Len(delivered) < NRows /\ \A k \in 1 .. m : hdr[k] = Header[k]
    BY <1>1, <1>20 DEF ReaderInv
  <2>3. m \in 0 .. 3
    <3>1. \A n \in Nat : n <= 3 => n \in 0 .. 3
      OBVIOUS
    <3> QED
      BY <2>1, <3>1, Zenon
  <2> HIDE DEF m
  <2> QED
    BY <2>1, <2>2, <2>3, <1>20
<1>3. ReaderPlace = Place("magic", Len(delivered), 0, 0, m)
  BY <1>1 DEF ReaderPlace
<1>4. /\ getc \in Byte /\ getc = Header[m + 1]
      /\ rpos + 1 \in 1 .. Len(stream)
      /\ Expected(mark, stream, rpos + 2) = Follow(ReaderPlace, getc)
  BY <1>1, <1>3, NextByte DEF Fits, Place
<1>5. Header[1] = Magic /\ Header[2] = Magic /\ Header[3] = HighByte /\ Header[4] = LowByte
  BY DEF Header
<1>6. CASE m < 3
  <2>1. /\ rpos' = rpos + 1 /\ hdr' = Append(hdr, getc)
        /\ UNCHANGED <<rpc, ri, rj, code, delivered>>
    BY <1>2, <1>4, <1>5, <1>6 DEF ReadMagic
  <2>2. /\ hdr' \in Seq(Byte) /\ Len(hdr') = m + 1
        /\ \A k \in 1 .. m + 1 : hdr'[k] = Header[k]
    BY <1>2, <1>4, <2>1
  <2>3. ReaderTypeOK' /\ DeliveredIsWritten'
    BY <1>1, <1>2, <1>4, <1>6, <2>1, <2>2 DEF ReaderTypeOK, DeliveredIsWritten
  <2>4. ReaderPlace' = Place("magic", Len(delivered), 0, 0, m + 1)
    BY <1>1, <2>1, <2>2 DEF ReaderPlace
  <2>5. ReaderPlace' = Expected(mark', stream', rpos' + 1)
    BY <1>1, <1>2, <1>3, <1>4, <1>6, <2>1, <2>4 DEF Follow, Place, ReaderTypeOK
  <2>6. ReaderInv'
    BY <1>1, <1>2, <2>1, <2>2, <2>5 DEF ReaderInv, Reading
  <2> QED
    BY <2>3, <2>6 DEF ReaderKeeps
<1>7. CASE m = 3
  <2>0. 2 \in 1 .. m /\ 3 \in 1 .. m /\ m + 1 = 4 /\ hdr # <<>>
    BY <1>2, <1>7
  <2>1. hdr[2] = Magic /\ hdr[3] = HighByte /\ getc = LowByte
    BY <1>2, <1>4, <1>5, <2>0
  <2>8. ~(hdr[3] >= Half) /\ hdr[3] * 2 * Half + getc = Width
    BY <2>1, HeaderFacts
  <2>2. /\ rpos' = rpos + 1 /\ rpc' = "code"
        /\ UNCHANGED <<hdr, ri, rj, code, delivered>>
    BY <1>7, <2>0, <2>1, <2>8 DEF ReadMagic
  <2>3. ReaderTypeOK' /\ DeliveredIsWritten'
    BY <1>1, <1>2, <1>4, <2>2 DEF ReaderTypeOK, DeliveredIsWritten
  <2>4. ReaderPlace' = Place("code", Len(delivered), 0, 0, 0)
    BY <1>2, <2>2 DEF ReaderPlace
  <2>5. ReaderPlace' = Expected(mark', stream', rpos' + 1)
    BY <1>1, <1>2, <1>3, <1>4, <1>7, <2>2, <2>4 DEF Follow, Place, ReaderTypeOK
  <2>6. Holds(buf, rj)'
    BY <1>1, <1>2, <2>2 DEF Holds, Comp, Col
  <2>7. ReaderInv'
    BY <1>1, <1>2, <2>2, <2>5, <2>6 DEF ReaderInv, Reading
  <2> QED
    BY <2>3, <2>7 DEF ReaderKeeps
<1> QED
  BY <1>2, <1>6, <1>7

LEMMA ReadCodeInv ==
  ASSUME IInv, ReadCode, UNCHANGED <<writerVars, mark>>
  PROVE  ReaderKeeps'
<1> USE FormatAssumption, WidthType
<1> DEFINE b == getc
<1>1. /\ rpc = "code" /\ Reading /\ ByteReady /\ rpos' = rpos + 1
      /\ UNCHANGED <<img, stream, mark, wpc>>
  BY DEF ReadCode, Reading, writerVars
<1>2. /\ ReaderTypeOK /\ rj < Width /\ Holds(buf, rj) /\ Len(delivered) < NRows
      /\ DeliveredIsWritten
  BY <1>1 DEF IInv, TypeOK, ReaderInv
<1>3. ReaderPlace = Place("code", Len(delivered), ri, rj, 0)
  BY <1>1 DEF ReaderPlace
<1>4. /\ b \in Byte /\ b >= 1
      /\ (IF b > Half THEN rj + (b - Half) <= Width ELSE rj + b <= Width)
      /\ rpos + 1 \in 1 .. Len(stream)
      /\ Expected(mark, stream, rpos + 2) = Follow(ReaderPlace, b)
  BY <1>1, <1>3, NextByte DEF Fits, Place
<1>5. /\ UNCHANGED <<hdr, ri, rj, buf, delivered>>
      /\ code' = IF b > Half THEN b - Half ELSE b
      /\ rpc' = IF b > Half THEN "runval" ELSE "lit"
  <2>1. \/ b > Half /\ rpc' = "runval" /\ code' = b % Half
             /\ UNCHANGED <<hdr, ri, rj, buf, delivered>>
        \/ b <= Half /\ rj + b > Width
        \/ b <= Half /\ rpc' = (IF b = 0 THEN "code" ELSE "lit") /\ code' = b
             /\ UNCHANGED <<hdr, ri, rj, buf, delivered>>
    BY DEF ReadCode
  <2> HIDE DEF b
  <2>2. b \in Int /\ Half \in Int /\ rj \in Int /\ Width \in Int
    BY <1>2, <1>4, FormatAssumption, WidthType DEF Byte, ReaderTypeOK, FormatAssumption
  <2>3. CASE b > Half
    <3>1. b % Half = b - Half /\ ~(b <= Half)
      BY <1>4, <2>2, <2>3, CodeMask
    <3> QED
      BY <2>1, <2>3, <3>1
  <2>4. CASE ~(b > Half)
    <3>1. b # 0 /\ ~(rj + b > Width)
      BY <1>4, <2>2, <2>4
    <3> QED
      BY <2>1, <2>4, <3>1
  <2> QED
    BY <2>3, <2>4
<1> HIDE DEF b
<1>6. code' \in 1 .. MaxLit
  BY <1>4, <1>5 DEF Byte, MaxLit
<1>7. ReaderTypeOK' /\ DeliveredIsWritten'
  <2>1. rpos' \in 0 .. Len(stream') /\ rpc' \in {"runval", "lit"}
    BY <1>1, <1>4, <1>5
  <2>2. code' \in 0 .. MaxLit
    BY <1>6
  <2>3. ReaderTypeOK'
    BY <1>2, <1>5, <2>1, <2>2 DEF ReaderTypeOK
  <2>4. DeliveredIsWritten'
    BY <1>1, <1>2, <1>5 DEF DeliveredIsWritten
  <2> QED
    BY <2>3, <2>4
<1>8. ReaderPlace' = IF b > Half THEN Place("run", Len(delivered), ri, rj, b - Half)
                                 ELSE Place("lit", Len(delivered), ri, rj, b)
  BY <1>5 DEF ReaderPlace
<1>9. ReaderPlace' = Expected(mark', stream', rpos' + 1)
  <2>1. Follow(ReaderPlace, b) = ReaderPlace'
    BY <1>3, <1>8 DEF Follow, Place
  <2>2. rpos' + 1 = rpos + 2
    BY <1>1, <1>2 DEF ReaderTypeOK
  <2> QED
    BY <1>1, <1>4, <2>1, <2>2
<1>10. Holds(buf, rj)'
  BY <1>1, <1>2, <1>5 DEF Holds
<1>11. ReaderInv'
  BY <1>1, <1>2, <1>5, <1>6, <1>9, <1>10 DEF ReaderInv, Reading
<1> QED
  BY <1>7, <1>11 DEF ReaderKeeps

LEMMA ReadRunValueInv ==
  ASSUME IInv, ReadRunValue, UNCHANGED <<writerVars, mark>>
  PROVE  ReaderKeeps'
<1> USE FormatAssumption, WidthType
<1> DEFINE L == Len(delivered)
           v == getc
           b == Fill(ri, rj, code, v)
<1>1. /\ rpc = "runval" /\ Reading /\ ByteReady /\ rpos' = rpos + 1
      /\ UNCHANGED <<img, stream, mark, wpc>>
  BY DEF ReadRunValue, Reading, writerVars
<1>2. /\ ReaderTypeOK /\ rj < Width /\ Holds(buf, rj) /\ code >= 1
  BY <1>1 DEF IInv, TypeOK, ReaderInv
<1>3. ReaderPlace = Place("run", L, ri, rj, code)
  BY <1>1 DEF ReaderPlace
<1>4. /\ v \in Byte /\ rj + code <= Width
      /\ \A d \in 0 .. code - 1 : img[L][ri][rj + d] = v
      /\ rpos + 1 \in 1 .. Len(stream)
      /\ Expected(mark, stream, rpos + 2) = Follow(ReaderPlace, v)
  BY <1>1, <1>3, NextByte DEF Fits, Place
<1>5. Filled(rj + code, b)
  BY <1>2, <1>4 DEF ReadRunValue, ReaderTypeOK
<1> HIDE DEF v
<1>6. b \in Scanline(Byte \cup {Garbage})
  BY <1>2, <1>4 DEF Fill, Scanline, ReaderTypeOK
<1>7. Holds(b, rj + code)
  <2>1. \A c \in Comp : c < ri => b[c] = img[L][c]
    BY <1>2 DEF Fill, Holds, Comp, ReaderTypeOK, Scanline
  <2>2. ASSUME NEW y \in Col, y < rj + code PROVE b[ri][y] = img[L][ri][y]
    <3>1. b[ri][y] = IF rj <= y THEN v ELSE buf[ri][y]
      BY <1>2, <2>2 DEF Fill, ReaderTypeOK, Scanline
    <3>2. CASE rj <= y
      <4>1. y - rj \in 0 .. code - 1 /\ rj + (y - rj) = y
        BY <1>2, <2>2, <3>2 DEF ReaderTypeOK, Col
      <4> QED
        BY <3>1, <3>2, <4>1, <1>4
    <3>3. CASE ~(rj <= y)
      BY <3>1, <3>3, <1>2 DEF Holds, ReaderTypeOK, Col
    <3> QED
      BY <3>2, <3>3
  <2> HIDE DEF b
  <2> QED
    BY <2>1, <2>2 DEF Holds
<1> HIDE DEF b
<1>8. rj + code \in 1 .. Width /\ rpos' \in 0 .. Len(stream) /\ rpos' + 1 = rpos + 2
  BY <1>1, <1>2, <1>4 DEF ReaderTypeOK
<1>9. /\ ReaderTypeOK' /\ DeliveredIsWritten'
      /\ ReaderPlace' = Onward(L, ri, rj + code)
      /\ rpc' \in {"code", "magic", "done"}
      /\ rpc' = "done" => Len(delivered') = NRows
      /\ Reading' => Len(delivered') < NRows
      /\ rpc' = "magic" => ri' = 0 /\ rj' = 0 /\ hdr' = <<>>
      /\ rpc' = "code" => rj' < Width /\ Holds(buf, rj)'
  BY <1>1, <1>5, <1>6, <1>7, <1>8, FilledPlace
<1>10. ReaderPlace' = Expected(mark', stream', rpos' + 1)
  BY <1>1, <1>3, <1>4, <1>8, <1>9 DEF Follow, Place
<1>11. ReaderInv'
  BY <1>1, <1>9, <1>10 DEF ReaderInv
<1> QED
  BY <1>9, <1>11 DEF ReaderKeeps

LEMMA ReadLiteralInv ==
  ASSUME IInv, ReadLiteral, UNCHANGED <<writerVars, mark>>
  PROVE  ReaderKeeps'
<1> USE FormatAssumption, WidthType
<1> DEFINE L == Len(delivered)
           v == getc
           b == Fill(ri, rj, 1, v)
<1>1. /\ rpc = "lit" /\ Reading /\ ByteReady /\ rpos' = rpos + 1
      /\ UNCHANGED <<img, stream, mark, wpc>>
  BY DEF ReadLiteral, Reading, writerVars
<1>2. /\ ReaderTypeOK /\ rj < Width /\ Holds(buf, rj) /\ code >= 1
      /\ L < NRows /\ DeliveredIsWritten
  BY <1>1 DEF IInv, TypeOK, ReaderInv
<1>3. ReaderPlace = Place("lit", L, ri, rj, code)
  BY <1>1 DEF ReaderPlace
<1>4. /\ v \in Byte /\ rj + code <= Width
      /\ v = img[L][ri][rj]
      /\ rpos + 1 \in 1 .. Len(stream)
      /\ Expected(mark, stream, rpos + 2) = Follow(ReaderPlace, v)
  BY <1>1, <1>3, NextByte DEF Fits, Place
<1>5. IF code > 1
      THEN /\ buf' = b /\ rj' = rj + 1 /\ code' = code - 1
           /\ UNCHANGED <<rpc, hdr, ri, delivered>>
      ELSE Filled(rj + 1, b)
  BY DEF ReadLiteral
<1> HIDE DEF v
<1>6. b \in Scanline(Byte \cup {Garbage})
  BY <1>2, <1>4 DEF Fill, Scanline, ReaderTypeOK
<1>7. Holds(b, rj + 1)
  <2>1. \A c \in Comp : c < ri => b[c] = img[L][c]
    BY <1>2 DEF Fill, Holds, Comp, ReaderTypeOK, Scanline
  <2>2. ASSUME NEW y \in Col, y < rj + 1 PROVE b[ri][y] = img[L][ri][y]
    <3>1. b[ri][y] = IF rj <= y THEN v ELSE buf[ri][y]
      BY <1>2, <2>2 DEF Fill, ReaderTypeOK, Scanline
    <3>2. y < rj \/ y = rj
      BY <1>2, <2>2 DEF ReaderTypeOK, Col
    <3> QED
      BY <3>1, <3>2, <1>2, <1>4 DEF Holds, ReaderTypeOK, Col
  <2> HIDE DEF b
  <2> QED
    BY <2>1, <2>2 DEF Holds
<1> HIDE DEF b
<1>8. rj + 1 \in 1 .. Width /\ rpos' \in 0 .. Len(stream) /\ rpos' + 1 = rpos + 2
  BY <1>1, <1>2, <1>4 DEF ReaderTypeOK
<1>9. CASE code > 1
  <2>1. ReaderTypeOK' /\ DeliveredIsWritten'
    BY <1>1, <1>2, <1>4, <1>5, <1>6, <1>8, <1>9 DEF ReaderTypeOK, DeliveredIsWritten, MaxLit
  <2>2. ReaderPlace' = Place("lit", L, ri, rj + 1, code - 1)
    BY <1>1, <1>5, <1>9 DEF ReaderPlace
  <2>3. ReaderPlace' = Expected(mark', stream', rpos' + 1)
    BY <1>1, <1>3, <1>4, <1>8, <1>9, <2>2 DEF Follow, Place
  <2>4. Holds(buf, rj)' /\ rj' < Width /\ code' >= 1
    BY <1>1, <1>2, <1>4, <1>5, <1>7, <1>9 DEF Holds, ReaderTypeOK
  <2>5. ReaderInv'
    BY <1>1, <1>2, <1>5, <1>9, <2>3, <2>4 DEF ReaderInv, Reading
  <2> QED
    BY <2>1, <2>5 DEF ReaderKeeps
<1>10. CASE code = 1
  <2>1. /\ ReaderTypeOK' /\ DeliveredIsWritten'
        /\ ReaderPlace' = Onward(L, ri, rj + 1)
        /\ rpc' \in {"code", "magic", "done"}
        /\ rpc' = "done" => Len(delivered') = NRows
        /\ Reading' => Len(delivered') < NRows
        /\ rpc' = "magic" => ri' = 0 /\ rj' = 0 /\ hdr' = <<>>
        /\ rpc' = "code" => rj' < Width /\ Holds(buf, rj)'
    <3>1. Filled(rj + 1, b)
      BY <1>5, <1>10
    <3>2. rpc \in {"runval", "lit", "code"}
      BY <1>1
    <3> QED
      BY <1>1, <1>6, <1>7, <1>8, <3>1, <3>2, FilledPlace
  <2>2. ReaderPlace' = Expected(mark', stream', rpos' + 1)
    BY <1>1, <1>3, <1>4, <1>8, <1>10, <2>1 DEF Follow, Place
  <2>3. ReaderInv'
    BY <2>1, <2>2 DEF ReaderInv
  <2> QED
    BY <2>1, <2>3 DEF ReaderKeeps
<1> QED
  BY <1>2, <1>9, <1>10 DEF ReaderTypeOK
(* While bytes are expected there is a row to read, and the place is one   *)
(* at which no writer has come to its end.                                 *)
LEMMA ReadingIsNotEnd ==
  ASSUME Reading
  PROVE  ReaderPlace # End
BY DEF Reading, ReaderPlace, End, Place

(* A reader that finds no byte where the stream has ended has been left    *)
(* alone by a writer that stopped early.                                   *)
LEMMA EndOfFileInv ==
  ASSUME IInv, EndOfFile
  PROVE  ReaderKeeps'
<1>1. /\ Reading /\ ~ByteReady /\ rpc' = "failed" /\ wpc \in {"done", "dead"}
      /\ UNCHANGED <<img, stream, rpos, hdr, ri, rj, code, buf, delivered, wpc, mark>>
  BY DEF EndOfFile, ReadEOF, Reading, writerVars
<1>2. ReaderTypeOK /\ ReaderInv /\ DeliveredIsWritten
  BY DEF IInv, TypeOK
<1>3. rpos = Len(stream)
  BY <1>1, <1>2 DEF IInv, TypeOK, StreamOK, ReaderTypeOK, ByteReady
<1>4. wpc = "dead"
  <2>1. ReaderPlace = Expected(mark, stream, Len(stream) + 1)
    BY <1>1, <1>2, <1>3 DEF ReaderInv, Reading
  <2>2. wpc = "done" => WriterPlace = End
    BY DEF WriterPlace, End
  <2> QED
    BY <1>1, <2>1, <2>2, ReadingIsNotEnd DEF IInv, WriterInv
<1>5. ReaderTypeOK'
  BY <1>1, <1>2 DEF ReaderTypeOK
<1>6. ReaderInv'
  BY <1>1, <1>3, <1>4 DEF ReaderInv, Reading
<1>7. DeliveredIsWritten'
  BY <1>1, <1>2 DEF DeliveredIsWritten
<1> QED
  BY <1>5, <1>6, <1>7 DEF ReaderKeeps

(* A reader's step leaves what concerns the writer alone.                  *)
LEMMA WriterUndisturbed ==
  ASSUME IInv, UNCHANGED <<writerVars, img, stream, mark>>
  PROVE  WriterKeeps'
<1>1. /\ wpc' = wpc /\ wrow' = wrow /\ wi' = wi /\ wj' = wj /\ wbeg' = wbeg
      /\ wcnt' = wcnt /\ wleft' = wleft
      /\ img' = img /\ stream' = stream /\ mark' = mark
  BY DEF writerVars
<1>2. PictureOK' /\ StreamOK' /\ WriterTypeOK'
  BY <1>1 DEF IInv, TypeOK, PictureOK, StreamOK, WriterTypeOK
<1>3. BytesInv' /\ ChainInv'
  BY <1>1 DEF IInv, BytesInv, ChainInv
<1>4. scan' = scan
  BY <1>1 DEF scan
<1>5. WriterLocal'
  BY <1>1, <1>4 DEF IInv, WriterInv, WriterLocal, RunFound
<1>6. WriterPlace' = WriterPlace
  BY <1>1 DEF WriterPlace
<1>7. WriterInv'
  BY <1>1, <1>5, <1>6 DEF IInv, WriterInv
<1> QED
  BY <1>2, <1>3, <1>7 DEF WriterKeeps

(* A writer that stops has still something to write.                       *)
LEMMA StopInv ==
  ASSUME IInv, Stop
  PROVE  WriterKeeps' /\ Extends /\ wpc # "dead"
<1>1. /\ wpc \notin {"done", "dead"} /\ wpc' = "dead"
      /\ UNCHANGED <<img, stream, mark, wrow, wi, wj, wbeg, wcnt, wleft>>
  BY DEF Stop, WriterStops
<1>2. PictureOK' /\ StreamOK' /\ WriterTypeOK'
  BY <1>1 DEF IInv, TypeOK, PictureOK, StreamOK, WriterTypeOK
<1>3. BytesInv' /\ ChainInv'
  BY <1>1 DEF IInv, BytesInv, ChainInv
<1>4. WriterPlace # End
  BY <1>1 DEF WriterPlace, End, Place, IInv, TypeOK, WriterTypeOK
<1>5. WriterInv'
  BY <1>1, <1>4 DEF IInv, WriterInv, WriterLocal
<1>6. Extends
  BY <1>1 DEF Extends, IInv, TypeOK, StreamOK
<1> QED
  BY <1>1, <1>2, <1>3, <1>5, <1>6 DEF WriterKeeps

-----------------------------------------------------------------------------
(* IInv holds at first ...                                                 *)
LEMMA InitInv == Init => IInv
<1> SUFFICES ASSUME Init PROVE IInv
  OBVIOUS
<1> USE FormatAssumption, WidthType DEF Init, WriterInit, ReaderInit
<1>1. 0 \in Row /\ 0 \in Comp /\ 1 \in 1 .. MaxRun
  BY DEF Row, Comp, MaxRun
<1>2. PictureOK /\ StreamOK
  BY DEF StreamOK
<1>3. WriterTypeOK
  BY <1>1 DEF WriterTypeOK, MaxLit
<1>4. ReaderTypeOK
  BY <1>1 DEF ReaderTypeOK, Scanline, MaxLit
<1>5. BytesInv /\ ChainInv
  BY DEF BytesInv, ChainInv
<1>6. WriterPlace = Start /\ ReaderPlace = Start /\ Expected(mark, stream, 1) = Start
  BY DEF WriterPlace, ReaderPlace, Expected, Start
<1>7. WriterInv
  BY <1>6 DEF WriterInv, WriterLocal
<1>8. ReaderInv
  BY <1>6 DEF ReaderInv, Reading
<1>9. DeliveredIsWritten
  BY DEF DeliveredIsWritten
<1> QED
  BY <1>2, <1>3, <1>4, <1>5, <1>7, <1>8, <1>9 DEF IInv, TypeOK

(* ... and every step keeps it.                                            *)
LEMMA NextInv == IInv /\ [Next]_vars => IInv'
<1> SUFFICES ASSUME IInv, [Next]_vars PROVE IInv'
  OBVIOUS
<1>1. TypeOK /\ WriterKeeps /\ ReaderKeeps
  BY DEF IInv, TypeOK, WriterKeeps, ReaderKeeps
<1>2. WriterKeeps' /\ ReaderKeeps' => IInv'
  BY DEF IInv, TypeOK, WriterKeeps, ReaderKeeps
<1>3. ASSUME WriterKeeps', Extends, wpc # "dead", UNCHANGED <<readerVars, img>>
      PROVE  IInv'
  BY <1>1, <1>2, <1>3, ReaderUndisturbed DEF ReaderKeeps
<1>4. ASSUME ReaderKeeps', UNCHANGED <<writerVars, img, stream, mark>>
      PROVE  IInv'
  BY <1>2, <1>4, WriterUndisturbed
<1>5. CASE Write
  <2>1. UNCHANGED <<readerVars, img>>
    BY <1>5 DEF Write, WriteStep, WriteMagic, FindRun, WriteShortRun,
         WriteShortValue, WriteNonRun, WriteLiteral, WriteRun, WriteRunValue
  <2> QED
    BY <1>1, <1>3, <1>5, <2>1, WriteInv
<1>6. CASE Stop
  <2>1. UNCHANGED <<readerVars, img>>
    BY <1>6 DEF Stop, WriterStops
  <2> QED
    BY <1>3, <1>6, <2>1, StopInv
<1>7. CASE Read
  <2>1. UNCHANGED <<writerVars, img, stream, mark>>
    BY <1>7 DEF Read, ReadStep, ReadMagic, ReadCode, ReadRunValue, ReadLiteral
  <2>2. ReaderKeeps'
    BY <1>7, ReadMagicInv, ReadCodeInv, ReadRunValueInv, ReadLiteralInv DEF Read, ReadStep
  <2> QED
    BY <1>4, <2>1, <2>2
<1>8. CASE EndOfFile
  <2>1. UNCHANGED <<writerVars, img, stream, mark>>
    BY <1>8 DEF EndOfFile, ReadEOF
  <2> QED
    BY <1>4, <1>8, <2>1, EndOfFileInv
<1>9. CASE UNCHANGED vars
  <2>1. UNCHANGED <<writerVars, img, stream, mark>> /\ UNCHANGED readerVars
    BY <1>9 DEF vars, writerVars, readerVars
  <2>2. /\ rpc' = rpc /\ rpos' = rpos /\ hdr' = hdr /\ ri' = ri /\ rj' = rj
        /\ code' = code /\ buf' = buf /\ delivered' = delivered
        /\ img' = img /\ stream' = stream /\ mark' = mark /\ wpc' = wpc
    BY <2>1 DEF readerVars, writerVars
  <2>3. ReaderPlace' = ReaderPlace
    BY <2>2 DEF ReaderPlace
  <2>4. ReaderTypeOK' /\ DeliveredIsWritten'
    BY <1>1, <2>2 DEF ReaderKeeps, ReaderTypeOK, DeliveredIsWritten
  <2>5. ReaderInv'
    BY <1>1, <2>2, <2>3 DEF ReaderKeeps, ReaderInv, Reading, Holds
  <2> QED
    BY <1>4, <2>1, <2>4, <2>5 DEF ReaderKeeps
<1> QED
  BY <1>5, <1>6, <1>7, <1>8, <1>9 DEF Next, Finished

LEMMA Inductive == Spec => []IInv
  BY InitInv, NextInv, PTL DEF Spec

-----------------------------------------------------------------------------
(* The variables of fwritecolrs and freadcolrs keep their types: no index  *)
(* leaves the scanline and every count fits its byte.                      *)
THEOREM TypeCorrect == Spec => []TypeOK
<1>1. IInv => TypeOK
  BY DEF IInv
<1> QED
  BY <1>1, Inductive, PTL

(* Every row that freadcolrs returns is the row fwritecolrs was given.     *)
THEOREM Lossless == Spec => []DeliveredIsWritten
<1>1. IInv => DeliveredIsWritten
  BY DEF IInv
<1> QED
  BY <1>1, Inductive, PTL

(* freadcolrs takes every byte for what fwritecolrs wrote it as.           *)
THEOREM Framing == Spec => []ReadAsMeant
<1>1. IInv => ReadAsMeant
  <2> SUFFICES ASSUME IInv, rpc \in {"magic", "code", "runval", "lit"}, rpos < Len(stream)
               PROVE  mark[rpos + 1] = ReaderPlace
    BY DEF ReadAsMeant
  <2>1. rpos + 1 \in 1 .. Len(stream)
    BY DEF IInv, TypeOK, ReaderTypeOK, StreamOK
  <2> QED
    BY <2>1 DEF IInv, ChainInv, ReaderInv
<1> QED
  BY <1>1, Inductive, PTL

(* Only a stream that breaks off makes freadcolrs return an error, and     *)
(* none of what fwritecolrs encodes is taken for the old format.           *)
THEOREM OnlyCutsRefused == Spec => []RefusedOnlyIfCut
<1>1. IInv => RefusedOnlyIfCut
  BY DEF IInv, ReaderInv, RefusedOnlyIfCut
<1> QED
  BY <1>1, Inductive, PTL

(* A reader that has all rows has consumed the whole stream, and its       *)
(* writer has come to its end.                                             *)
THEOREM Complete == Spec => []NothingLeftOver
<1>1. IInv => NothingLeftOver
  <2> SUFFICES ASSUME IInv, rpc = "done"
               PROVE  Len(delivered) = NRows /\ wpc = "done" /\ rpos = Len(stream)
    BY DEF NothingLeftOver
  <2>1. rpos \in 0 .. Len(stream) /\ Len(stream) \in Nat
    BY DEF IInv, TypeOK, ReaderTypeOK, StreamOK
  <2>2. Len(delivered) = NRows /\ Expected(mark, stream, rpos + 1) = End
    BY DEF IInv, ReaderInv, ReaderPlace, End
  <2>3. rpos = Len(stream)
    <3> SUFFICES ASSUME rpos + 1 \in 1 .. Len(stream) PROVE FALSE
      BY <2>1
    <3>1. mark[rpos + 1] = End
      BY <2>2 DEF IInv, ChainInv
    <3>2. mark[rpos + 1] \in PlaceSet
      BY DEF IInv, BytesInv, Fits
    <3> QED
      BY <3>1, <3>2 DEF End, Place, PlaceSet, Kind
  <2>4. wpc = "done"
    <3>1. wpc # "dead" /\ WriterPlace = End
      BY <2>2, <2>3 DEF IInv, WriterInv
    <3> QED
      BY <3>1 DEF WriterPlace, End, Place, IInv, TypeOK, WriterTypeOK
  <2> QED
    BY <2>2, <2>3, <2>4
<1> QED
  BY <1>1, Inductive, PTL

(* The codec on a stream implements the transfer of rows.                  *)
THEOREM Refinement == Spec => RefinesTransfer
<1>1. Init => Transfer!Init
  BY DEF Init, PictureOK, ReaderInit, Transfer!Init
<1>2. IInv /\ IInv' /\ [Next]_vars => [Transfer!Next]_(Transfer!vars)
  <2> SUFFICES ASSUME IInv, IInv', [Next]_vars PROVE [Transfer!Next]_(Transfer!vars)
    OBVIOUS
  <2> DEFINE open == rpc \notin {"done", "failed", "old"}
  <2>1. ASSUME UNCHANGED <<img, delivered>>, open, open' \/ rpc' \in {"failed", "old"}
        PROVE  [Transfer!Next]_(Transfer!vars)
    BY <2>1 DEF Transfer!Next, Transfer!BreakOff, Transfer!vars
  <2>2. ASSUME UNCHANGED <<img, readerVars>> PROVE [Transfer!Next]_(Transfer!vars)
    BY <2>2 DEF Transfer!vars, readerVars
  <2>3. ASSUME NEW x, NEW b, Filled(x, b), open, UNCHANGED img
        PROVE  [Transfer!Next]_(Transfer!vars)
    <3>1. CASE UNCHANGED delivered /\ rpc' = "code"
      BY <2>1, <2>3, <3>1
    <3>2. CASE /\ delivered' = Append(delivered, b)
               /\ rpc' = IF Len(delivered) + 1 < NRows THEN "magic" ELSE "done"
      <4> DEFINE S == Scanline(Byte \cup {Garbage})
      <4>1. delivered \in Seq(S) /\ delivered' \in Seq(S)
        BY DEF IInv, TypeOK, ReaderTypeOK
      <4>2. Len(delivered') = Len(delivered) + 1 /\ Len(delivered) \in Nat
              /\ delivered'[Len(delivered) + 1] = b
        BY <3>2, <4>1
      <4>3. img' = img /\ Len(delivered) + 1 \in 1 .. Len(delivered')
        BY <2>3, <4>2
      <4>4. delivered'[Len(delivered) + 1] = img[Len(delivered) + 1 - 1]
        BY <4>3 DEF IInv, DeliveredIsWritten
      <4>5. b = img[Len(delivered)]
        BY <4>2, <4>4
      <4> QED
        BY <2>3, <3>2, <4>5 DEF Transfer!Next, Transfer!Deliver
    <3> QED
      BY <2>3, <3>1, <3>2 DEF Filled
  <2>4. CASE Write
    BY <2>2, <2>4 DEF Write, WriteStep, WriteMagic, FindRun, WriteShortRun,
         WriteShortValue, WriteNonRun, WriteLiteral, WriteRun, WriteRunValue
  <2>5. CASE Stop
    BY <2>2, <2>5 DEF Stop, WriterStops
  <2>6. CASE ReadMagic
    BY <2>1, <2>6 DEF ReadMagic, Reject
  <2>7. CASE ReadCode
    BY <2>1, <2>7 DEF ReadCode, Reject
  <2>8. CASE ReadRunValue
    BY <2>1, <2>3, <2>8 DEF ReadRunValue, Reject
  <2>9. CASE ReadLiteral
    BY <2>1, <2>3, <2>9 DEF ReadLiteral
  <2>10. CASE EndOfFile
    BY <2>1, <2>10 DEF EndOfFile, ReadEOF
  <2>11. CASE UNCHANGED vars
    BY <2>2, <2>11 DEF vars, readerVars
  <2> QED
    BY <2>4, <2>5, <2>6, <2>7, <2>8, <2>9, <2>10, <2>11 DEF Next, Read, ReadStep, Finished
<1> QED
  BY <1>1, <1>2, Inductive, PTL DEF Spec, RefinesTransfer, Transfer!Spec

-----------------------------------------------------------------------------
(* The price.  The bytes taken by component c of row r, as the marks m     *)
(* tell.                                                                   *)
BytesOf(m, r, c) == {k \in 1 .. Len(m) : m[k].k # "magic" /\ m[k].r = r /\ m[k].c = c}
Taken(m, r, c)   == Cardinality(BytesOf(m, r, c))

(* n bytes are no more than NeverExpands grants, without the division.     *)
Affordable(n) == Half * (n - Width - 1) < Width

(* Nothing of what comes behind component c0 of row r0 has been written.   *)
Ahead(m, r0, c0) ==
  \A r \in Row, c \in Comp : r > r0 \/ (r = r0 /\ c > c0) => Taken(m, r, c) = 0

(* n bytes are written of a component, for the pixels before j: the excess *)
(* n - j grows by one with each non-run, and shrinks with the run behind   *)
(* it.  Where a search begins it is at most j \div Half; a non-run that is *)
(* not full, a count without its pixels and a run without its value may    *)
(* stand above that.                                                       *)
PriceAt(pc, n, j, beg, left) ==
  /\ pc \in {"magic", "find", "short", "nonrun"} => Half * (n - j) <= j
  /\ pc = "shortval" => Half * (n - j - 1) <= j
  /\ pc = "lit" => IF j + left < beg THEN Half * (n - j) <= j + left
                   ELSE Half * (n - j - 1) < j + left
  /\ pc = "run" => Half * (n - j - 1) < j
  /\ pc = "runval" => Half * (n - j - 2) < j

(* What the writer puts in front of a run, or of the end of the scanline.  *)
Searched ==
  wpc \in {"short", "shortval", "nonrun", "lit"} => wcnt >= MinRun \/ wbeg = Width

PriceInv ==
  /\ \A r \in Row, c \in Comp : Affordable(Taken(mark, r, c))
  /\ wpc \notin {"done", "dead"} =>
       /\ Ahead(mark, wrow, wi)
       /\ PriceAt(wpc, Taken(mark, wrow, wi), wj, wbeg, wleft)
       /\ Searched

LEMMA Scale ==
  /\ Half \in Nat /\ Half > 2
  /\ \A e \in Int : Half * e \in Int /\ Half * (e - 1) = Half * e - Half
  /\ \A d, e \in Int : d <= e => Half * d <= Half * e
<1>1. Half \in Nat /\ Half > 2
  BY FormatAssumption DEF FormatAssumption
<1> QED
  BY <1>1

(* A byte counts for its component alone. *)
LEMMA TakenAppend ==
  ASSUME NEW m \in Seq(PlaceSet), NEW p \in PlaceSet, NEW r, NEW c
  PROVE  /\ Taken(m, r, c) \in Nat
         /\ Taken(Append(m, p), r, c) =
              IF p.k # "magic" /\ p.r = r /\ p.c = c THEN Taken(m, r, c) + 1
              ELSE Taken(m, r, c)
<1>1. PICK n \in Nat : n = Len(m)
  OBVIOUS
<1>2. PICK q : q = Append(m, p)
  OBVIOUS
<1>3. Len(q) = n + 1 /\ q[n + 1] = p /\ \A k \in 1 .. n : q[k] = m[k]
  BY <1>1, <1>2
<1>4. IsFiniteSet(BytesOf(m, r, c)) /\ BytesOf(m, r, c) \subseteq 1 .. n
  <2>1. IsFiniteSet(1 .. n)
    BY FS_Interval
  <2>2. BytesOf(m, r, c) \in SUBSET (1 .. n)
    BY <1>1 DEF BytesOf
  <2> QED
    BY <2>1, <2>2, FS_Subset
<1>5. Taken(m, r, c) \in Nat
  BY <1>4, FS_CardinalityType DEF Taken
<1>6. CASE p.k # "magic" /\ p.r = r /\ p.c = c
  <2>1. BytesOf(q, r, c) = BytesOf(m, r, c) \cup {n + 1}
    BY <1>1, <1>3, <1>6 DEF BytesOf
  <2>2. n + 1 \notin BytesOf(m, r, c)
    BY <1>4
  <2> QED
    <3>1. Cardinality(BytesOf(m, r, c) \cup {n + 1}) = Cardinality(BytesOf(m, r, c)) + 1
      BY <1>4, <2>2, FS_AddElement
    <3> QED
      BY <1>2, <1>5, <1>6, <2>1, <3>1 DEF Taken
<1>7. CASE ~(p.k # "magic" /\ p.r = r /\ p.c = c)
  <2>1. BytesOf(q, r, c) = BytesOf(m, r, c)
    BY <1>1, <1>3, <1>7 DEF BytesOf
  <2> QED
    BY <1>2, <1>5, <1>7, <2>1 DEF Taken
<1> QED
  BY <1>2, <1>5, <1>6, <1>7

LEMMA TakenInNat ==
  ASSUME NEW m \in Seq(PlaceSet), NEW r, NEW c
  PROVE  Taken(m, r, c) \in Nat
<1>1. IsFiniteSet(1 .. Len(m)) /\ BytesOf(m, r, c) \in SUBSET (1 .. Len(m))
  <2>1. Len(m) \in Int
    OBVIOUS
  <2> QED
    BY <2>1, FS_Interval DEF BytesOf
<1> QED
  BY <1>1, FS_Subset, FS_CardinalityType DEF Taken

(* The same as PriceAt, of the excess alone.                               *)
ExcessAt(pc, e, j, beg, left) ==
  /\ pc \in {"magic", "find", "short", "nonrun"} => Half * e <= j
  /\ pc = "shortval" => Half * (e - 1) <= j
  /\ pc = "lit" => IF j + left < beg THEN Half * e <= j + left
                   ELSE Half * (e - 1) < j + left
  /\ pc = "run" => Half * (e - 1) < j
  /\ pc = "runval" => Half * (e - 2) < j

LEMMA ExcessIs ==
  ASSUME NEW pc, NEW n \in Int, NEW j \in Int, NEW beg, NEW left, NEW e \in Int,
         n - j = e
  PROVE  PriceAt(pc, n, j, beg, left) <=> ExcessAt(pc, e, j, beg, left)
<1>1. n - j = e /\ n - j - 1 = e - 1 /\ n - j - 2 = e - 2
  OBVIOUS
<1> QED
  BY <1>1 DEF PriceAt, ExcessAt

(* Where the writer may stand. *)
StandsAt(pc, j, beg, left) ==
  /\ j \in 0 .. Width /\ beg \in 0 .. Width /\ left \in Int
  /\ pc \in {"magic", "find", "short", "shortval", "nonrun", "lit", "run", "runval"}
  /\ pc = "shortval" => j < beg
  /\ pc = "lit" => j + left <= beg
  /\ pc = "runval" => j < Width

LEMMA HereAffordable ==
  ASSUME NEW pc, NEW n \in Int, NEW j, NEW beg, NEW left,
         StandsAt(pc, j, beg, left), PriceAt(pc, n, j, beg, left)
  PROVE  Affordable(n)
<1>1. Width \in Nat /\ j \in 0 .. Width /\ beg \in 0 .. Width /\ left \in Int
  BY WidthType DEF StandsAt
<1>2. ASSUME NEW y \in Int, y < Width, Half * (n - j - 1) <= y PROVE Affordable(n)
  <2>1. n - Width - 1 <= n - j - 1 /\ n - Width - 1 \in Int /\ n - j - 1 \in Int
    BY <1>1
  <2>2. Half * (n - Width - 1) <= Half * (n - j - 1)
    BY <2>1, Scale
  <2>3. Half * (n - Width - 1) \in Int /\ Half * (n - j - 1) \in Int
    BY <2>1, Scale
  <2> QED
    BY <1>1, <1>2, <2>2, <2>3 DEF Affordable
<1>3. Half * (n - j) \in Int /\ Half * (n - j - 1) = Half * (n - j) - Half
        /\ Half * (n - j - 1) \in Int /\ Half \in Nat /\ Half > 2
  BY <1>1, Scale
<1>4. CASE pc \in {"magic", "find", "short", "nonrun"}
  <2>1. Half * (n - j) <= j
    BY <1>4 DEF PriceAt
  <2>2. Half * (n - j - 1) <= Width - 1
    BY <1>1, <1>3, <2>1
  <2> QED
    BY <1>1, <1>2, <2>2
<1>5. CASE pc = "shortval"
  <2>1. j < beg
    BY <1>1, <1>5 DEF StandsAt
  <2> QED
    BY <1>1, <1>2, <1>5, <2>1 DEF PriceAt
<1>6. CASE pc = "lit"
  <2>1. j + left <= beg
    BY <1>6 DEF StandsAt
  <2>2. Half * (n - j) <= j + left \/ Half * (n - j - 1) < j + left
    BY <1>6 DEF PriceAt
  <2>3. Half * (n - j - 1) <= Width - 1
    BY <1>1, <1>3, <2>1, <2>2
  <2> QED
    BY <1>1, <1>2, <2>3
<1>7. CASE pc = "run"
  <2>1. Half * (n - j - 1) <= Width - 1
    BY <1>1, <1>3, <1>7 DEF PriceAt
  <2> QED
    BY <1>1, <1>2, <2>1
<1>8. CASE pc = "runval"
  <2>1. j < Width /\ Half * (n - j - 2) < j
    BY <1>8 DEF StandsAt, PriceAt
  <2>2. n - Width - 1 <= n - j - 2 /\ n - Width - 1 \in Int /\ n - j - 2 \in Int
    BY <1>1, <2>1
  <2>3. Half * (n - Width - 1) <= Half * (n - j - 2)
    BY <2>2, Scale
  <2>4. Half * (n - Width - 1) \in Int /\ Half * (n - j - 2) \in Int
    BY <2>2, Scale
  <2> QED
    BY <1>1, <2>1, <2>3, <2>4 DEF Affordable
<1> QED
  BY <1>4, <1>5, <1>6, <1>7, <1>8 DEF StandsAt

(* What a step that writes a byte of the component has to show.            *)
Costs(n) ==
  /\ mark \in Seq(PlaceSet) /\ WriterPlace \in PlaceSet
  /\ WriterPlace.k # "magic" /\ WriterPlace.r = wrow /\ WriterPlace.c = wi
  /\ mark' = Append(mark, WriterPlace)
  /\ n = Taken(mark, wrow, wi)

LEMMA CostCounted ==
  ASSUME PriceInv, wpc \notin {"done", "dead"}, NEW n, Costs(n), Affordable(n + 1)
  PROVE  /\ n \in Nat /\ Taken(mark', wrow, wi) = n + 1
         /\ Ahead(mark', wrow, wi)
         /\ \A r \in Row, c \in Comp : Affordable(Taken(mark', r, c))
<1>1. \A r, c : Taken(mark', r, c) = IF r = wrow /\ c = wi THEN Taken(mark, r, c) + 1
                                     ELSE Taken(mark, r, c)
  BY TakenAppend DEF Costs
<1>2. n \in Nat
  BY TakenAppend DEF Costs
<1>3. Taken(mark', wrow, wi) = n + 1
  BY <1>1 DEF Costs
<1>4. Ahead(mark', wrow, wi)
  <2> SUFFICES ASSUME NEW r \in Row, NEW c \in Comp, r > wrow \/ (r = wrow /\ c > wi)
               PROVE  Taken(mark', r, c) = 0
    BY DEF Ahead
  <2>1. ~(r = wrow /\ c = wi)
    BY DEF Row, Comp
  <2>2. Taken(mark, r, c) = 0
    BY DEF PriceInv, Ahead
  <2> QED
    BY <1>1, <2>1, <2>2
<1>5. ASSUME NEW r \in Row, NEW c \in Comp PROVE Affordable(Taken(mark', r, c))
  <2>1. CASE r = wrow /\ c = wi
    BY <1>3, <2>1
  <2>2. CASE ~(r = wrow /\ c = wi)
    BY <1>1, <2>2 DEF PriceInv
  <2> QED
    BY <2>1, <2>2
<1> QED
  BY <1>2, <1>3, <1>4, <1>5

LEMMA CostStays ==
  ASSUME PriceInv, wpc \notin {"done", "dead"}, NEW n \in Nat, Costs(n),
         WriterTypeOK', WriterLocal', wpc' \notin {"done", "dead"},
         UNCHANGED <<wrow, wi>>, Searched',
         PriceAt(wpc', n + 1, wj', wbeg', wleft')
  PROVE  PriceInv'
<1>1. Affordable(n + 1)
  <2>1. StandsAt(wpc', wj', wbeg', wleft')
    <3>1. wj' \in 0 .. Width /\ wbeg' \in 0 .. Width /\ wleft' \in Int
      BY FormatAssumption DEF WriterTypeOK, MaxLit, FormatAssumption
    <3>2. wpc' \in {"magic", "find", "short", "shortval", "nonrun", "lit", "run", "runval"}
      BY DEF WriterTypeOK
    <3>3. wpc' = "shortval" => wj' < wbeg'
      <4>1. wpc' = "shortval" => 1 < wbeg' - wj'
        BY DEF WriterLocal, IsShortRun
      <4>2. \A x, y \in Int : 1 < y - x => x < y
        OBVIOUS
      <4>3. wj' \in Int /\ wbeg' \in Int
        BY <3>1
      <4> QED
        BY <4>1, <4>2, <4>3
    <3>4. /\ wpc' = "lit" => wj' + wleft' <= wbeg'
          /\ wpc' = "runval" => wj' = wbeg' /\ wbeg' < Width
      BY DEF WriterLocal
    <3> QED
      BY <3>1, <3>2, <3>3, <3>4 DEF StandsAt
  <2> QED
    BY <2>1, HereAffordable
<1>2. /\ Taken(mark', wrow, wi) = n + 1
      /\ Ahead(mark', wrow, wi)
      /\ \A r \in Row, c \in Comp : Affordable(Taken(mark', r, c))
  BY <1>1, CostCounted
<1> QED
  BY <1>2 DEF PriceInv

(* The search at x, where the next component may begin.                    *)
LEMMA CostMoves ==
  ASSUME PriceInv, WriterTypeOK, wpc \notin {"done", "dead"}, NEW n \in Nat, Costs(n),
         NEW x \in 1 .. Width, NextSearch(x),
         Half * (n + 1 - x) <= x \/ (x = Width /\ Half * (n - x) < x)
  PROVE  PriceInv'
<1>1. Width \in Nat \ {0} /\ wrow \in Row /\ wi \in Comp
      /\ Row \subseteq Nat /\ Comp \subseteq Nat
  BY WidthType DEF WriterTypeOK, Row, Comp
<1>2. CASE x < Width
  <2>1. /\ wpc' = "find" /\ wj' = x /\ wbeg' = x
        /\ wrow' = wrow /\ wi' = wi /\ wleft' = wleft
    BY <1>2 DEF NextSearch
  <2>2. PriceAt("find", n + 1, x, x, wleft)
    BY <1>2 DEF PriceAt
  <2>3. StandsAt("find", x, x, wleft)
    BY <1>1, FormatAssumption DEF StandsAt, WriterTypeOK, MaxLit, FormatAssumption
  <2>4. Affordable(n + 1)
    BY <2>2, <2>3, HereAffordable
  <2>5. /\ Taken(mark', wrow, wi) = n + 1
        /\ Ahead(mark', wrow, wi)
        /\ \A r \in Row, c \in Comp : Affordable(Taken(mark', r, c))
    BY <2>4, CostCounted
  <2> QED
    BY <2>1, <2>2, <2>5 DEF PriceInv, Searched, PriceAt
<1>3. CASE x = Width
  <2>1. Affordable(n + 1)
    <3>1. Half * (n + 1 - x) \in Int /\ Half * (n - x) = Half * (n + 1 - x) - Half
            /\ Half \in Nat
      <4>1. n + 1 - x \in Int /\ (n + 1 - x) - 1 = n - x
        BY <1>1, <1>3
      <4> QED
        BY <4>1, Scale
    <3>2. Half * (n - x) < x
      BY <1>1, <1>3, <3>1
    <3>3. n - x = n + 1 - Width - 1
      BY <1>1, <1>3
    <3> QED
      BY <1>3, <3>2, <3>3 DEF Affordable
  <2>2. /\ Ahead(mark', wrow, wi)
        /\ \A r \in Row, c \in Comp : Affordable(Taken(mark', r, c))
    BY <2>1, CostCounted
  <2>3. /\ wj' = 0
        /\ \/ wrow' = wrow /\ wi' = wi + 1 /\ wi' \in Comp /\ wpc' = "find"
           \/ wrow' = wrow + 1 /\ wi' = 0 /\ wrow' \in Row /\ wpc' = "magic"
           \/ wpc' = "done"
    BY <1>1, <1>3, FormatAssumption DEF NextSearch, Row, Comp, FormatAssumption
  <2>4. CASE wpc' = "done"
    BY <2>2, <2>4 DEF PriceInv
  <2>5. CASE wpc' \in {"find", "magic"}
    <3>1. wrow' \in Row /\ wi' \in Comp /\ (wrow' > wrow \/ (wrow' = wrow /\ wi' > wi))
            /\ (wrow' = wrow \/ wi' = 0)
      BY <1>1, <2>3, <2>5, FormatAssumption DEF Comp, FormatAssumption
    <3>2. Taken(mark', wrow', wi') = 0
      BY <2>2, <3>1 DEF Ahead
    <3>3. Ahead(mark', wrow', wi')
      <4> SUFFICES ASSUME NEW r \in Row, NEW c \in Comp,
                          r > wrow' \/ (r = wrow' /\ c > wi')
                   PROVE  Taken(mark', r, c) = 0
        BY DEF Ahead
      <4>1. r > wrow \/ (r = wrow /\ c > wi)
        BY <1>1, <3>1
      <4> QED
        BY <2>2, <4>1 DEF Ahead
    <3>4. PriceAt(wpc', 0, 0, wbeg', wleft')
      <4>1. Half * (0 - 0) <= 0
        BY Scale
      <4> QED
        BY <2>5, <4>1 DEF PriceAt
    <3>5. Searched'
      BY <2>5 DEF Searched
    <3> QED
      BY <2>2, <2>3, <3>2, <3>3, <3>4, <3>5 DEF PriceInv
  <2> QED
    BY <2>3, <2>4, <2>5
<1> QED
  BY <1>1, <1>2, <1>3

(* The run behind the pixels before beg, or the end of the scanline.       *)
LEMMA CostPrefix ==
  ASSUME PriceInv, WriterTypeOK, wpc \in {"shortval", "lit"}, NEW n \in Nat, Costs(n),
         wbeg \in 1 .. Width, AfterPrefix, Half * (n - wbeg) < wbeg,
         WriterTypeOK', WriterLocal'
  PROVE  PriceInv'
<1>1. CASE wcnt >= MinRun
  <2>1. wpc' = "run" /\ wj' = wbeg /\ UNCHANGED <<wrow, wi, wbeg, wleft>>
    BY <1>1 DEF AfterPrefix
  <2>2. n + 1 - wbeg - 1 = n - wbeg
    OBVIOUS
  <2>3. PriceAt("run", n + 1, wbeg, wbeg, wleft)
    BY <2>2 DEF PriceAt
  <2>4. PriceAt(wpc', n + 1, wj', wbeg', wleft')
    BY <2>1, <2>3
  <2>5. Searched'
    BY <2>1 DEF Searched
  <2> QED
    BY <2>1, <2>4, <2>5, CostStays
<1>2. CASE ~(wcnt >= MinRun)
  <2>1. wbeg = Width
    BY <1>2 DEF PriceInv, Searched
  <2>2. NextSearch(wbeg)
    BY <1>2 DEF AfterPrefix
  <2> QED
    BY <2>1, <2>2, CostMoves
<1> QED
  BY <1>1, <1>2

LEMMA ByteCosts ==
  ASSUME WriterTypeOK, ChainInv, ChainInv', mark' = Append(mark, WriterPlace),
         wpc \in {"short", "shortval", "nonrun", "lit", "run", "runval"}
  PROVE  \E n \in Nat : Costs(n)
<1>1. mark \in Seq(PlaceSet) /\ mark' \in Seq(PlaceSet)
  BY DEF ChainInv
<1>2. WriterPlace \in PlaceSet
  <2>1. Len(mark) \in Nat /\ Len(mark') = Len(mark) + 1
          /\ mark'[Len(mark) + 1] = WriterPlace
    BY <1>1
  <2>2. Len(mark) + 1 \in 1 .. Len(mark')
    BY <2>1
  <2> QED
    BY <1>1, <2>1, <2>2
<1>3. WriterPlace.k # "magic" /\ WriterPlace.r = wrow /\ WriterPlace.c = wi
  BY DEF WriterPlace, Place
<1>4. Taken(mark, wrow, wi) \in Nat
  BY <1>1, <1>2, TakenAppend
<1> QED
  BY <1>1, <1>2, <1>3, <1>4 DEF Costs

(* Each step of the writer keeps the price.                                *)
LEMMA PriceFindRun ==
  ASSUME PriceInv, WriterTypeOK, mark \in Seq(PlaceSet), FindRun, mark' = mark
  PROVE  PriceInv'
<1>1. PICK n : n = RunLength(scan, wbeg)
  OBVIOUS
<1>2. /\ wpc = "find" /\ UNCHANGED <<mark, wrow, wi, wj, wleft>>
      /\ wcnt' = n
      /\ wbeg' = IF n >= MinRun THEN wbeg ELSE wbeg + n
      /\ wpc' = IF n >= MinRun \/ wbeg' = Width THEN AfterSearch(wbeg') ELSE "find"
  BY <1>1 DEF FindRun
<1>3. wpc' \in {"find", "short", "nonrun", "run"}
  BY <1>2 DEF AfterSearch
<1>4. Searched'
  BY <1>2 DEF Searched, AfterSearch
<1>5. PICK p : p = Taken(mark, wrow, wi)
  OBVIOUS
<1>6. Half * (p - wj) <= wj
  BY <1>2, <1>5 DEF PriceInv, PriceAt
<1>7. CASE wpc' \in {"find", "short", "nonrun"}
  <2>1. PriceAt(wpc', p, wj', wbeg', wleft')
    BY <1>2, <1>6, <1>7 DEF PriceAt
  <2> QED
    BY <1>2, <1>4, <1>5, <2>1 DEF PriceInv
<1>8. CASE wpc' = "run"
  <2>1. p \in Int /\ wj \in Int /\ Half \in Nat /\ Half > 2
    BY <1>5, Scale, TakenInNat DEF WriterTypeOK
  <2>2. Half * (p - wj - 1) = Half * (p - wj) - Half /\ Half * (p - wj) \in Int
    <3>1. p - wj \in Int
      BY <2>1
    <3> QED
      BY <3>1, Scale
  <2>3. Half * (p - wj - 1) < wj
    BY <1>6, <2>1, <2>2
  <2>4. PriceAt(wpc', p, wj', wbeg', wleft')
    BY <1>2, <1>8, <2>3 DEF PriceAt
  <2> QED
    BY <1>2, <1>4, <1>5, <2>4 DEF PriceInv
<1> QED
  BY <1>3, <1>7, <1>8

LEMMA PriceShortRun ==
  ASSUME PriceInv, WriterTypeOK, WriteShortRun, NEW n \in Nat, Costs(n),
         WriterTypeOK', WriterLocal'
  PROVE  PriceInv'
<1>1. /\ wpc = "short" /\ wpc' = "shortval"
      /\ UNCHANGED <<wrow, wi, wj, wbeg, wcnt, wleft>>
  BY DEF WriteShortRun
<1>2. Half * (n - wj) <= wj
  BY <1>1 DEF PriceInv, PriceAt, Costs
<1>3. PICK e \in Int : e = n - wj /\ n + 1 - wj = e + 1 /\ (e + 1) - 1 = e
  BY DEF WriterTypeOK
<1>4. PriceAt(wpc', n + 1, wj', wbeg', wleft')
  <2>1. ExcessAt("shortval", e + 1, wj, wbeg, wleft)
    BY <1>2, <1>3 DEF ExcessAt
  <2>2. PriceAt("shortval", n + 1, wj, wbeg, wleft)
    BY <1>3, <2>1, ExcessIs DEF WriterTypeOK
  <2> QED
    BY <1>1, <2>2
<1>5. Searched'
  BY <1>1 DEF PriceInv, Searched
<1> QED
  BY <1>1, <1>4, <1>5, CostStays

LEMMA PriceShortValue ==
  ASSUME PriceInv, WriterTypeOK, WriterLocal, WriteShortValue, NEW n \in Nat, Costs(n),
         WriterTypeOK', WriterLocal'
  PROVE  PriceInv'
<1>1. wpc = "shortval" /\ AfterPrefix
  BY DEF WriteShortValue
<1>2. wj \in Int /\ wbeg \in 1 .. Width /\ wj <= wbeg - 2 /\ 0 <= wj
  <2>1. 1 < wbeg - wj
    BY <1>1 DEF WriterLocal, IsShortRun
  <2> QED
    BY <2>1, WidthType DEF WriterTypeOK
<1>3. Half * (n - wj - 1) <= wj
  BY <1>1 DEF PriceInv, PriceAt, Costs
<1>4. Half * (n - wbeg) < wbeg
  <2>1. n - wbeg \in Int /\ n - wj - 1 \in Int /\ n - wbeg <= n - wj - 1
    BY <1>2
  <2>2. Half * (n - wbeg) <= Half * (n - wj - 1)
          /\ Half * (n - wbeg) \in Int /\ Half * (n - wj - 1) \in Int
    BY <2>1, Scale
  <2> QED
    BY <1>2, <1>3, <2>2
<1> QED
  BY <1>1, <1>2, <1>4, CostPrefix

LEMMA PriceNonRun ==
  ASSUME PriceInv, WriterTypeOK, WriterLocal, WriteNonRun, NEW n \in Nat, Costs(n),
         WriterTypeOK', WriterLocal'
  PROVE  PriceInv'
<1>1. /\ wpc = "nonrun" /\ wpc' = "lit" /\ wj < wbeg
      /\ wleft' = IF wbeg - wj > MaxLit THEN MaxLit ELSE wbeg - wj
      /\ UNCHANGED <<wrow, wi, wj, wbeg, wcnt>>
  BY DEF WriteNonRun, WriterLocal
<1>2. wj \in Nat /\ wbeg \in Nat
  BY DEF WriterTypeOK
<1>3. Half * (n - wj) <= wj
  BY <1>1 DEF PriceInv, PriceAt, Costs
<1>4. PICK e \in Int : e = n - wj /\ n + 1 - wj = e + 1 /\ (e + 1) - 1 = e
  BY <1>2
<1>5. PICK h \in Int : h = Half * e /\ Half * (e + 1) = h + Half /\ h <= wj
  <2>1. Half * e \in Int /\ Half * ((e + 1) - 1) = Half * (e + 1) - Half
          /\ Half * (e + 1) \in Int /\ Half \in Int
    BY <1>4, Scale
  <2> QED
    BY <1>3, <1>4, <2>1
<1>6. PriceAt(wpc', n + 1, wj', wbeg', wleft')
  <2>1. Half \in Nat
    BY Scale
  <2>2. ExcessAt("lit", e + 1, wj, wbeg, wleft')
    <3>1. CASE wbeg - wj > Half
      <4>1. wleft' = Half /\ Half * (e + 1) <= wj + Half
        BY <1>1, <1>2, <1>5, <2>1, <3>1 DEF MaxLit
      <4>2. wj + Half < wbeg
        BY <1>2, <2>1, <3>1
      <4> QED
        BY <4>1, <4>2 DEF ExcessAt
    <3>2. CASE ~(wbeg - wj > Half)
      <4>1. wj + wleft' = wbeg /\ ~(wj + wleft' < wbeg)
        BY <1>1, <1>2, <2>1, <3>2 DEF MaxLit
      <4>2. Half * ((e + 1) - 1) < wbeg
        BY <1>1, <1>2, <1>4, <1>5
      <4> QED
        BY <4>1, <4>2 DEF ExcessAt
    <3> QED
      BY <3>1, <3>2
  <2>3. PriceAt("lit", n + 1, wj, wbeg, wleft')
    BY <1>2, <1>4, <2>2, ExcessIs
  <2> QED
    BY <1>1, <2>3
<1>7. Searched'
  BY <1>1 DEF PriceInv, Searched
<1> QED
  BY <1>1, <1>6, <1>7, CostStays

LEMMA PriceLiteral ==
  ASSUME PriceInv, WriterTypeOK, WriterLocal, WriteLiteral, NEW n \in Nat, Costs(n),
         WriterTypeOK', WriterLocal'
  PROVE  PriceInv'
<1>1. wpc = "lit" /\ wj \in Nat /\ wbeg \in 0 .. Width /\ wleft \in Nat /\ wcnt' = wcnt
  BY DEF WriteLiteral, WriterTypeOK, MaxLit
<1>2. IF wj + wleft < wbeg THEN Half * (n - wj) <= wj + wleft
      ELSE Half * (n - wj - 1) < wj + wleft
  BY <1>1 DEF PriceInv, PriceAt, Costs
<1>3. PICK e \in Int : e = n - wj /\ n + 1 - (wj + 1) = e /\ n - wj - 1 = e - 1
  BY <1>1
<1>4. CASE wleft > 1 /\ wj' = wj + 1 /\ wleft' = wleft - 1
           /\ UNCHANGED <<wpc, wrow, wi, wbeg>>
  <2>1. (wj + 1) + (wleft - 1) = wj + wleft
    BY <1>1
  <2>2. PriceAt("lit", n + 1, wj + 1, wbeg, wleft - 1)
    <3>1. ExcessAt("lit", e, wj + 1, wbeg, wleft - 1)
      BY <1>2, <1>3, <2>1 DEF ExcessAt
    <3> QED
      BY <1>1, <1>3, <3>1, ExcessIs
  <2>3. PriceAt(wpc', n + 1, wj', wbeg', wleft')
    BY <1>1, <1>4, <2>2
  <2>4. Searched'
    BY <1>1, <1>4 DEF PriceInv, Searched
  <2> QED
    BY <1>1, <1>4, <2>3, <2>4, CostStays
<1>5. CASE wleft = 1 /\ wj + 1 < wbeg /\ wj' = wj + 1 /\ wpc' = "nonrun"
           /\ UNCHANGED <<wrow, wi, wbeg>>
  <2>1. Half * (n - wj) <= wj + 1
    BY <1>2, <1>5
  <2>2. PriceAt(wpc', n + 1, wj', wbeg', wleft')
    <3>1. ExcessAt("nonrun", e, wj + 1, wbeg, wleft')
      BY <1>3, <2>1 DEF ExcessAt
    <3>2. PriceAt("nonrun", n + 1, wj + 1, wbeg, wleft')
      BY <1>1, <1>3, <3>1, ExcessIs
    <3> QED
      BY <1>5, <3>2
  <2>3. Searched'
    BY <1>1, <1>5 DEF PriceInv, Searched
  <2> QED
    BY <1>1, <1>5, <2>2, <2>3, CostStays
<1>6. CASE wleft = 1 /\ wj + 1 = wbeg /\ AfterPrefix
  <2>1. Half * (n - wj - 1) < wj + 1
    BY <1>1, <1>2, <1>6
  <2>2. n - wj - 1 = n - wbeg /\ wbeg \in 1 .. Width
    BY <1>1, <1>6
  <2>3. Half * (n - wbeg) < wbeg
    BY <1>6, <2>1, <2>2
  <2> QED
    BY <1>1, <1>6, <2>2, <2>3, CostPrefix
<1> QED
  BY <1>4, <1>5, <1>6 DEF WriteLiteral

LEMMA PriceRun ==
  ASSUME PriceInv, WriterTypeOK, WriteRun, NEW n \in Nat, Costs(n),
         WriterTypeOK', WriterLocal'
  PROVE  PriceInv'
<1>1. wpc = "run" /\ wpc' = "runval" /\ UNCHANGED <<wrow, wi, wj, wbeg, wcnt, wleft>>
  BY DEF WriteRun
<1>2. Half * (n - wj - 1) < wj
  BY <1>1 DEF PriceInv, PriceAt, Costs
<1>3. PICK e \in Int : e = n - wj /\ n + 1 - wj = e + 1 /\ (e + 1) - 2 = e - 1
                       /\ n - wj - 1 = e - 1
  BY DEF WriterTypeOK
<1>4. PriceAt(wpc', n + 1, wj', wbeg', wleft')
  <2>1. ExcessAt("runval", e + 1, wj, wbeg, wleft)
    BY <1>2, <1>3 DEF ExcessAt
  <2>2. PriceAt("runval", n + 1, wj, wbeg, wleft)
    BY <1>3, <2>1, ExcessIs DEF WriterTypeOK
  <2> QED
    BY <1>1, <2>2
<1>5. Searched'
  BY <1>1 DEF Searched
<1> QED
  BY <1>1, <1>4, <1>5, CostStays

(* The value of a run pays for the excess of the non-run before it: this   *)
(* takes three pixels.                                                     *)
LEMMA PriceRunValue ==
  ASSUME MinRun >= 3, PriceInv, WriterTypeOK, WriterLocal, WriteRunValue,
         NEW n \in Nat, Costs(n)
  PROVE  PriceInv'
<1>1. /\ wpc = "runval" /\ NextSearch(wj + wcnt)
      /\ wj \in Nat /\ wcnt \in Nat /\ wcnt >= MinRun /\ MinRun \in Nat
      /\ wj + wcnt <= Width
  BY FormatAssumption
     DEF WriteRunValue, WriterLocal, RunFound, WriterTypeOK, FormatAssumption, MaxRun
<1>2. Half * (n - wj - 2) < wj
  BY <1>1 DEF PriceInv, PriceAt, Costs
<1>3. PICK x \in Nat : x = wj + wcnt
  BY <1>1
<1>4. x \in 1 .. Width /\ wj < x /\ wj + 3 <= x
  BY <1>1, <1>3, WidthType
<1>5. Half * (n + 1 - x) <= x
  <2>1. n + 1 - x \in Int /\ n - wj - 2 \in Int /\ n + 1 - x <= n - wj - 2
    BY <1>1, <1>4
  <2>2. Half * (n + 1 - x) <= Half * (n - wj - 2)
          /\ Half * (n + 1 - x) \in Int /\ Half * (n - wj - 2) \in Int
    BY <2>1, Scale
  <2> QED
    BY <1>1, <1>2, <1>4, <2>2
<1> QED
  BY <1>1, <1>3, <1>4, <1>5, CostMoves

LEMMA PriceWrite ==
  ASSUME MinRun >= 3, IInv, IInv', PriceInv, Write
  PROVE  PriceInv'
<1>1. /\ WriterTypeOK /\ WriterLocal /\ ChainInv /\ mark \in Seq(PlaceSet)
      /\ WriterTypeOK' /\ WriterLocal' /\ ChainInv'
  BY DEF IInv, TypeOK, WriterInv, ChainInv
<1>2. ASSUME NEW b, stream' = Append(stream, b) PROVE stream' # stream
  BY <1>2 DEF IInv, TypeOK, StreamOK
<1>3. CASE FindRun
  BY <1>1, <1>3, PriceFindRun DEF Write, FindRun
<1>4. CASE WriteMagic
  <2>1. mark' = Append(mark, WriterPlace) /\ mark' \in Seq(PlaceSet)
    BY <1>1, <1>2, <1>4 DEF Write, WriteMagic, putc, ChainInv
  <2>2. /\ wpc = "magic" /\ wpc' \in {"magic", "find"} /\ WriterPlace.k = "magic"
        /\ UNCHANGED <<wrow, wi, wj, wbeg>>
    BY <1>4 DEF WriteMagic, WriterPlace, Place
  <2>3. WriterPlace \in PlaceSet
    <3>1. Len(mark) \in Nat /\ Len(mark') = Len(mark) + 1
            /\ mark'[Len(mark) + 1] = WriterPlace
      BY <1>1, <2>1
    <3>2. Len(mark) + 1 \in 1 .. Len(mark')
      BY <3>1
    <3> QED
      BY <2>1, <3>1, <3>2
  <2>4. \A r, c : Taken(mark', r, c) = Taken(mark, r, c)
    BY <1>1, <2>1, <2>2, <2>3, TakenAppend
  <2>5. PICK p : p = Taken(mark, wrow, wi)
    OBVIOUS
  <2>6. PriceAt(wpc', p, wj', wbeg', wleft')
    BY <2>2, <2>5 DEF PriceInv, PriceAt
  <2>7. Ahead(mark', wrow', wi')
    BY <2>2, <2>4 DEF PriceInv, Ahead
  <2>8. Searched'
    BY <2>2 DEF Searched
  <2> QED
    BY <2>2, <2>4, <2>5, <2>6, <2>7, <2>8 DEF PriceInv
<1>5. ASSUME mark' = Append(mark, WriterPlace),
             wpc \in {"short", "shortval", "nonrun", "lit", "run", "runval"}
      PROVE  \E n \in Nat : Costs(n)
  BY <1>1, <1>5, ByteCosts
<1>6. CASE WriteShortRun
  <2>1. PICK n \in Nat : Costs(n)
    BY <1>2, <1>5, <1>6 DEF Write, WriteShortRun, putc
  <2> QED
    BY <1>1, <1>6, <2>1, PriceShortRun
<1>7. CASE WriteShortValue
  <2>1. PICK n \in Nat : Costs(n)
    BY <1>2, <1>5, <1>7 DEF Write, WriteShortValue, putc
  <2> QED
    BY <1>1, <1>7, <2>1, PriceShortValue
<1>8. CASE WriteNonRun
  <2>1. PICK n \in Nat : Costs(n)
    BY <1>2, <1>5, <1>8 DEF Write, WriteNonRun, putc
  <2> QED
    BY <1>1, <1>8, <2>1, PriceNonRun
<1>9. CASE WriteLiteral
  <2>1. PICK n \in Nat : Costs(n)
    BY <1>2, <1>5, <1>9 DEF Write, WriteLiteral, putc
  <2> QED
    BY <1>1, <1>9, <2>1, PriceLiteral
<1>10. CASE WriteRun
  <2>1. PICK n \in Nat : Costs(n)
    BY <1>2, <1>5, <1>10 DEF Write, WriteRun, putc
  <2> QED
    BY <1>1, <1>10, <2>1, PriceRun
<1>11. CASE WriteRunValue
  <2>1. PICK n \in Nat : Costs(n)
    BY <1>2, <1>5, <1>11 DEF Write, WriteRunValue, putc
  <2> QED
    BY <1>1, <1>11, <2>1, PriceRunValue
<1> QED
  BY <1>3, <1>4, <1>6, <1>7, <1>8, <1>9, <1>10, <1>11 DEF Write, WriteStep

LEMMA PriceNext ==
  ASSUME MinRun >= 3
  PROVE  IInv /\ IInv' /\ PriceInv /\ [Next]_vars => PriceInv'
<1> SUFFICES ASSUME IInv, IInv', PriceInv, [Next]_vars PROVE PriceInv'
  OBVIOUS
<1>1. CASE Write
  BY <1>1, PriceWrite
<1>2. CASE Stop
  BY <1>2 DEF Stop, WriterStops, PriceInv
<1>3. ASSUME UNCHANGED <<writerVars, mark>> PROVE PriceInv'
  <2>1. UNCHANGED <<wpc, wrow, wi, wj, wbeg, wcnt, wleft, mark>>
    BY <1>3 DEF writerVars
  <2>2. Searched' <=> Searched
    BY <2>1 DEF Searched
  <2> QED
    BY <2>1, <2>2 DEF PriceInv
<1>4. CASE Read \/ EndOfFile \/ UNCHANGED vars
  BY <1>3, <1>4 DEF Read, EndOfFile, vars, writerVars
<1> QED
  BY <1>1, <1>2, <1>4 DEF Next, Finished

LEMMA PriceInit == Init => PriceInv
<1> SUFFICES ASSUME Init PROVE PriceInv
  OBVIOUS
<1>1. \A r, c : Taken(mark, r, c) = 0
  <2>1. \A r, c : BytesOf(mark, r, c) = {}
    BY DEF Init, BytesOf
  <2> QED
    BY <2>1, FS_EmptySet DEF Taken
<1>2. Affordable(0)
  <2>1. PICK e \in Int : e = 0 - Width - 1 /\ e <= 0
    BY WidthType
  <2>2. Half * e <= Half * 0 /\ Half * 0 = 0 /\ Half * e \in Int
    BY <2>1, Scale
  <2> QED
    BY <2>1, <2>2, WidthType DEF Affordable
<1>3. wpc = "magic" /\ wj = 0
  BY DEF Init, WriterInit
<1>4. PriceAt("magic", 0, 0, wbeg, wleft)
  <2>1. Half * (0 - 0) <= 0
    BY Scale
  <2> QED
    BY <2>1 DEF PriceAt
<1> QED
  BY <1>1, <1>2, <1>3, <1>4 DEF PriceInv, Ahead, Searched

(* fwritecolrs never takes more for a component than its pixels and one    *)
(* byte for every full or last non-run.  The code has MINRUN 4, and 3 is   *)
(* what this needs: with 2, pixels of the form x y y x y y ... take four   *)
(* bytes for three.                                                        *)
THEOREM PriceBounded ==
  ASSUME MinRun >= 3
  PROVE  Spec => []NeverExpands
<1>1. IInv /\ PriceInv => NeverExpands
  <2> SUFFICES ASSUME IInv, PriceInv, NEW r \in Row, NEW c \in Comp
               PROVE  Taken(mark, r, c) <= Width + (Width + Half - 1) \div Half
    BY DEF NeverExpands, Taken, BytesOf
  <2>1. PICK n \in Nat : n = Taken(mark, r, c)
    BY TakenInNat DEF IInv, ChainInv
  <2>2. PICK a \in Nat : a = Width + Half - 1
    BY WidthType, Scale
  <2>3. PICK q \in Nat : q = a \div Half
    <3>1. \A x \in Nat, y \in Nat \ {0} : x \div y \in Nat
      OBVIOUS
    <3>2. Half \in Nat \ {0}
      BY Scale
    <3> QED
      BY <3>1, <3>2
  <2>4. a < Half * (q + 1)
    <3>1. \A x \in Nat, y \in Nat \ {0} : x < y * ((x \div y) + 1)
      OBVIOUS
    <3>2. Half \in Nat \ {0}
      BY Scale
    <3> QED
      BY <2>3, <3>1, <3>2
  <2>5. Half * (n - Width - 1) < Width
    BY <2>1 DEF PriceInv, Affordable
  <2>6. n <= Width + q
    <3> SUFFICES ASSUME n > Width + q PROVE FALSE
      BY WidthType
    <3>1. q <= n - Width - 1 /\ n - Width - 1 \in Int
      BY WidthType
    <3>2. Half * q <= Half * (n - Width - 1) /\ Half * q \in Int
            /\ Half * (n - Width - 1) \in Int
      BY <3>1, Scale
    <3>3. Half * (q + 1) = Half * q + Half /\ Half * (q + 1) \in Int
      <4>1. q + 1 \in Int /\ (q + 1) - 1 = q
        OBVIOUS
      <4>2. Half * ((q + 1) - 1) = Half * (q + 1) - Half /\ Half * (q + 1) \in Int
              /\ Half \in Int
        BY <4>1, Scale
      <4> QED
        BY <3>2, <4>1, <4>2
    <3> QED
      BY <2>2, <2>4, <2>5, <3>2, <3>3, WidthType, Scale
  <2> QED
    BY <2>1, <2>2, <2>3, <2>6
<1> QED
  BY <1>1, Inductive, PriceInit, PriceNext, PTL DEF Spec

-----------------------------------------------------------------------------
(***************************************************************************)
(* Any file: freadcolrs as RleForeign has it, on a row of bytes that no    *)
(* writer of this format need have made.                                   *)
(***************************************************************************)

(* A recursion along a list of places, each of which leads to a later one: *)
(* there is a solution with the type of its steps, and no other.           *)
LeadsOn(n, W, a) ==
  W \in SUBSET (1 .. n) /\ a \in [W -> 1 .. n] /\ \A k \in W : a[k] > k

Unwinds(n, W, a, f, base, E) ==
  E = [k \in 1 .. n |-> IF k \in W THEN f[k][E[a[k]]] ELSE base]

SameStep(n, W, a, E, F) ==
  \A k \in 1 .. n : (k \in W => E[a[k]] = F[a[k]]) => E[k] = F[k]

LEMMA UnwoundSame ==
  ASSUME NEW n \in Nat, NEW W, NEW a, LeadsOn(n, W, a),
         NEW E, NEW F, SameStep(n, W, a, E, F)
  PROVE  \A k \in 1 .. n : E[k] = F[k]
<1>1. PICK T : T = {m \in 0 .. n : \A k \in 1 .. n : k > n - m => E[k] = F[k]}
  OBVIOUS
<1>2. 0 \in T
  BY <1>1
<1>3. ASSUME NEW m \in 0 .. n - 1, m \in T PROVE m + 1 \in T
  <2>1. SUFFICES ASSUME NEW k \in 1 .. n, k > n - (m + 1) PROVE E[k] = F[k]
    <3>1. m + 1 \in 0 .. n
      OBVIOUS
    <3> QED
      BY <1>1, <3>1
  <2>2. CASE k > n - m
    BY <1>1, <1>3, <2>2
  <2>3. CASE k = n - m /\ k \in W
    <3>1. a[k] \in 1 .. n /\ a[k] > n - m
      BY <2>3 DEF LeadsOn
    <3>2. E[a[k]] = F[a[k]]
      BY <1>1, <1>3, <3>1
    <3> QED
      BY <2>3, <3>2 DEF SameStep
  <2>4. CASE k = n - m /\ k \notin W
    BY <2>4 DEF SameStep
  <2> QED
    BY <2>1, <2>2, <2>3, <2>4
<1>4. n \in T
  BY <1>2, <1>3, FromZero
<1> QED
  BY <1>1, <1>4

LEMMA Unwound ==
  ASSUME NEW n \in Nat, NEW S, NEW base \in S, NEW W, NEW a, LeadsOn(n, W, a),
         NEW f \in [W -> [S -> S]]
  PROVE  \E E \in [1 .. n -> S] : Unwinds(n, W, a, f, base, E)
<1> DEFINE Solves(m, g) ==
             /\ g \in [1 .. n -> S]
             /\ \A k \in 1 .. n : k > n - m =>
                  g[k] = IF k \in W THEN f[k][g[a[k]]] ELSE base
<1>1. PICK T : T = {m \in 0 .. n : \E g : Solves(m, g)}
  OBVIOUS
<1>2. 0 \in T
  <2>1. Solves(0, [k \in 1 .. n |-> base])
    OBVIOUS
  <2> HIDE DEF Solves
  <2> QED
    BY <1>1, <2>1
<1>3. ASSUME NEW m \in 0 .. n - 1, m \in T PROVE m + 1 \in T
  <2>1. PICK g : Solves(m, g)
    BY <1>1, <1>3
  <2>2. PICK j \in 1 .. n : j = n - m
    OBVIOUS
  <2>3. PICK v \in S : v = IF j \in W THEN f[j][g[a[j]]] ELSE base
    <3>1. ASSUME j \in W PROVE f[j][g[a[j]]] \in S
      BY <2>1, <3>1 DEF LeadsOn
    <3> QED
      BY <3>1
  <2>4. PICK h : h = [k \in 1 .. n |-> IF k = j THEN v ELSE g[k]]
    OBVIOUS
  <2>5. h \in [1 .. n -> S]
    BY <2>1, <2>4
  <2>6. ASSUME NEW k \in 1 .. n, k > n - (m + 1)
        PROVE  h[k] = IF k \in W THEN f[k][h[a[k]]] ELSE base
    <3>1. ASSUME k \in W PROVE a[k] \in 1 .. n /\ a[k] # j /\ h[a[k]] = g[a[k]]
      <4>1. a[k] \in 1 .. n /\ a[k] > k
        BY <3>1 DEF LeadsOn
      <4>2. a[k] # j
        BY <2>2, <2>6, <4>1
      <4> QED
        BY <2>4, <4>1, <4>2
    <3>2. CASE k = j
      BY <2>3, <2>4, <3>1, <3>2
    <3>3. CASE k # j
      <4>1. k > n - m
        BY <2>2, <2>6, <3>3
      <4>2. g[k] = IF k \in W THEN f[k][g[a[k]]] ELSE base
        BY <2>1, <4>1
      <4> QED
        BY <2>4, <3>1, <3>3, <4>2
    <3> QED
      BY <3>2, <3>3
  <2>7. Solves(m + 1, h)
    BY <2>5, <2>6
  <2>8. m + 1 \in 0 .. n
    OBVIOUS
  <2> HIDE DEF Solves
  <2> QED
    BY <1>1, <2>7, <2>8
<1>4. n \in T
  BY <1>2, <1>3, FromZero
<1>5. PICK g : Solves(n, g)
  BY <1>1, <1>4
<1>6. g = [k \in 1 .. n |-> IF k \in W THEN f[k][g[a[k]]] ELSE base]
  BY <1>5
<1> QED
  BY <1>5, <1>6 DEF Unwinds

(* The bytes after the header, and the reference definitions over them as  *)
(* the recursive functions they are.                                       *)
IsExpansion(s, E) ==
  E = [k \in 1 .. Len(s) + 1 |->
         IF Whole(s, k) THEN Values(s, k) \o E[After(s, k)]
         ELSE <<>>]
IsEnds(s, P) ==
  P = [k \in 1 .. Len(s) + 1 |->
         IF Whole(s, k)
         THEN {0} \cup {Len(Values(s, k)) + n : n \in P[After(s, k)]}
         ELSE {0}]

Expanded(s) == CHOOSE E : IsExpansion(s, E)
Ends(s)     == CHOOSE P : IsEnds(s, P)

WholePlaces(s) == {k \in 1 .. Len(s) : Whole(s, k)}

(* A packet all of whose bytes are there.                                  *)
LEMMA WholePacket ==
  ASSUME NEW s \in Seq(Byte), NEW k \in 1 .. Len(s) + 1, Whole(s, k)
  PROVE  /\ k \in 1 .. Len(s) /\ s[k] \in Byte
         /\ After(s, k) \in 1 .. Len(s) + 1 /\ After(s, k) > k
         /\ Values(s, k) \in Seq(Byte)
         /\ Len(Values(s, k)) = IF s[k] > Half THEN s[k] - Half ELSE s[k]
         /\ \A d \in 1 .. Len(Values(s, k)) :
              Values(s, k)[d] = IF s[k] > Half THEN s[k + 1] ELSE s[k + d]
<1>1. k \in 1 .. Len(s) /\ s[k] \in Byte /\ s[k] \in Nat /\ Half \in Nat /\ k \in Nat
  BY FormatAssumption DEF Whole, Byte
<1>2. CASE s[k] > Half
  <2>1. k + 1 \in 1 .. Len(s) /\ s[k + 1] \in Byte /\ s[k] - Half \in Nat
    BY <1>1, <1>2 DEF Whole
  <2>2. Values(s, k) = [d \in 1 .. s[k] - Half |-> s[k + 1]]
    BY <1>2 DEF Values
  <2>3. After(s, k) = k + 2
    BY <1>1, <1>2 DEF After
  <2>4. PICK n \in Nat, v \in Byte : n = s[k] - Half /\ v = s[k + 1]
    BY <2>1
  <2>5. [d \in 1 .. n |-> v] \in Seq(Byte) /\ Len([d \in 1 .. n |-> v]) = n
    OBVIOUS
  <2> QED
    BY <1>1, <1>2, <2>1, <2>2, <2>3, <2>4, <2>5
<1>3. CASE ~(s[k] > Half)
  <2>1. k + s[k] <= Len(s)
    BY <1>1, <1>3 DEF Whole
  <2>2. Values(s, k) = SubSeq(s, k + 1, k + s[k])
    BY <1>3 DEF Values
  <2>3. After(s, k) = k + 1 + s[k]
    BY <1>1, <1>3 DEF After
  <2>4. PICK n \in Nat : n = s[k]
    BY <1>1
  <2>5. /\ SubSeq(s, k + 1, k + n) \in Seq(Byte)
        /\ Len(SubSeq(s, k + 1, k + n)) = n
        /\ \A d \in 1 .. n : SubSeq(s, k + 1, k + n)[d] = s[k + d]
    <3>1. k + 1 \in 1 .. Len(s) + 1 /\ k + n \in k .. Len(s) /\ Len(s) \in Nat
      BY <1>1, <2>1, <2>4
    <3>2. \A i \in k + 1 .. k + n : s[i] \in Byte
      BY <1>1, <3>1
    <3>3. (k + n) - (k + 1) + 1 = n /\ \A d \in 1 .. n : (k + 1) + d - 1 = k + d
      BY <1>1
    <3>4. SubSeq(s, k + 1, k + n) = [d \in 1 .. n |-> s[k + d]]
      BY <1>1, <3>3
    <3>5. \A d \in 1 .. n : s[k + d] \in Byte
      BY <1>1, <3>1, <3>2
    <3>6. [d \in 1 .. n |-> s[k + d]] \in Seq(Byte) /\ Len([d \in 1 .. n |-> s[k + d]]) = n
      BY <3>5
    <3> QED
      BY <3>4, <3>6
  <2>6. PICK v : v = Values(s, k) /\ v = SubSeq(s, k + 1, k + n)
    BY <2>2, <2>4
  <2>7. v \in Seq(Byte) /\ Len(v) = n /\ \A d \in 1 .. n : v[d] = s[k + d]
    BY <2>5, <2>6
  <2>8. k + 1 + n \in 1 .. Len(s) + 1 /\ k + 1 + n > k
    BY <1>1, <2>1, <2>4
  <2>9. After(s, k) = k + 1 + n
    BY <2>3, <2>4
  <2> QED
    BY <1>1, <1>3, <2>4, <2>6, <2>7, <2>8, <2>9
<1> QED
  BY <1>2, <1>3

LEMMA ExpandedIs ==
  ASSUME NEW s \in Seq(Byte)
  PROVE  /\ IsExpansion(s, Expanded(s))
         /\ \A k \in 1 .. Len(s) + 1 : Expanded(s)[k] \in Seq(Byte)
         /\ Expansion(s) = Expanded(s)[1]
<1>1. PICK n \in Nat : n = Len(s) + 1
  OBVIOUS
<1>2. PICK W : W = {k \in 1 .. n : Whole(s, k)}
  OBVIOUS
<1>3. PICK a : a = [k \in W |-> After(s, k)]
  OBVIOUS
<1>4. PICK S : S = Seq(Byte)
  OBVIOUS
<1>5. PICK f : f = [k \in W |-> [v \in S |-> Values(s, k) \o v]]
  OBVIOUS
<1>6. PICK base : base = <<>>
  OBVIOUS
<1>7. LeadsOn(n, W, a)
  BY <1>1, <1>2, <1>3, WholePacket DEF LeadsOn
<1>8. f \in [W -> [S -> S]] /\ base \in S
  <2>1. ASSUME NEW k \in W PROVE [v \in S |-> Values(s, k) \o v] \in [S -> S]
    <3>1. Values(s, k) \in Seq(Byte)
      BY <1>1, <1>2, WholePacket
    <3>2. PICK u \in Seq(Byte) : u = Values(s, k)
      BY <3>1
    <3>3. \A v \in Seq(Byte) : u \o v \in Seq(Byte)
      OBVIOUS
    <3> QED
      BY <1>4, <3>2, <3>3
  <2>2. base \in S
    BY <1>4, <1>6
  <2> QED
    BY <1>5, <2>1, <2>2
<1>9. PICK F \in [1 .. n -> S] : Unwinds(n, W, a, f, base, F)
  BY <1>7, <1>8, Unwound
<1>10. ASSUME NEW k \in 1 .. n
       PROVE  F[k] = IF Whole(s, k)
                     THEN Values(s, k) \o F[After(s, k)] ELSE <<>>
  <2>1. F[k] = IF k \in W THEN f[k][F[a[k]]] ELSE base
    BY <1>9 DEF Unwinds
  <2>2. ASSUME k \in W PROVE f[k][F[a[k]]] = Values(s, k) \o F[After(s, k)]
    <3>1. a[k] \in 1 .. n /\ F[a[k]] \in S
      BY <1>7, <1>9, <2>2 DEF LeadsOn
    <3>2. f[k] = [v \in S |-> Values(s, k) \o v]
      BY <1>5, <2>2
    <3> QED
      BY <1>3, <2>2, <3>1, <3>2
  <2> QED
    BY <1>2, <1>6, <2>1, <2>2
<1>11. IsExpansion(s, F)
  BY <1>1, <1>9, <1>10 DEF IsExpansion
<1>12. IsExpansion(s, Expanded(s))
  BY <1>11 DEF Expanded
<1>13. \A k \in 1 .. n : Expanded(s)[k] = F[k]
  <2>1. PICK E : E = Expanded(s)
    OBVIOUS
  <2>2. \A k \in 1 .. n : E[k] = IF Whole(s, k)
                     THEN Values(s, k) \o E[After(s, k)] ELSE <<>>
    BY <1>1, <1>12, <2>1 DEF IsExpansion
  <2>3. SameStep(n, W, a, E, F)
    BY <1>2, <1>3, <1>10, <2>2 DEF SameStep
  <2>4. \A k \in 1 .. n : E[k] = F[k]
    BY <1>7, <2>3, UnwoundSame
  <2> QED
    BY <2>1, <2>4
<1>14. Expansion(s) = Expanded(s)[1]
  BY DEF Expansion, Expanded, IsExpansion
<1> QED
  BY <1>1, <1>4, <1>9, <1>12, <1>13, <1>14

LEMMA EndsAre ==
  ASSUME NEW s \in Seq(Byte)
  PROVE  /\ IsEnds(s, Ends(s))
         /\ \A k \in 1 .. Len(s) + 1 : Ends(s)[k] \in SUBSET Nat
         /\ PacketEnds(s) = Ends(s)[1]
<1>1. PICK n \in Nat : n = Len(s) + 1
  OBVIOUS
<1>2. PICK W : W = {k \in 1 .. n : Whole(s, k)}
  OBVIOUS
<1>3. PICK a : a = [k \in W |-> After(s, k)]
  OBVIOUS
<1>4. PICK S : S = SUBSET Nat
  OBVIOUS
<1>5. PICK f : f = [k \in W |-> [v \in S |-> {0} \cup {Len(Values(s, k)) + i : i \in v}]]
  OBVIOUS
<1>6. PICK base : base = {0}
  OBVIOUS
<1>7. LeadsOn(n, W, a)
  BY <1>1, <1>2, <1>3, WholePacket DEF LeadsOn
<1>8. f \in [W -> [S -> S]] /\ base \in S
  <2>1. ASSUME NEW k \in W
        PROVE  [v \in S |-> {0} \cup {Len(Values(s, k)) + i : i \in v}] \in [S -> S]
    <3>1. Values(s, k) \in Seq(Byte)
      BY <1>1, <1>2, WholePacket
    <3>2. PICK u \in Nat : u = Len(Values(s, k))
      BY <3>1
    <3>3. \A v \in S : {0} \cup {u + i : i \in v} \in S
      BY <1>4
    <3> QED
      BY <3>2, <3>3
  <2>2. base \in S
    BY <1>4, <1>6
  <2> QED
    BY <1>5, <2>1, <2>2
<1>9. PICK F \in [1 .. n -> S] : Unwinds(n, W, a, f, base, F)
  BY <1>7, <1>8, Unwound
<1>10. ASSUME NEW k \in 1 .. n
       PROVE  F[k] = IF Whole(s, k)
                     THEN {0} \cup {Len(Values(s, k)) + i : i \in F[After(s, k)]}
                     ELSE {0}
  <2>1. F[k] = IF k \in W THEN f[k][F[a[k]]] ELSE base
    BY <1>9 DEF Unwinds
  <2>2. ASSUME k \in W
        PROVE  f[k][F[a[k]]] = {0} \cup {Len(Values(s, k)) + i : i \in F[After(s, k)]}
    <3>1. a[k] \in 1 .. n /\ F[a[k]] \in S
      BY <1>7, <1>9, <2>2 DEF LeadsOn
    <3>2. f[k] = [v \in S |-> {0} \cup {Len(Values(s, k)) + i : i \in v}]
      BY <1>5, <2>2
    <3> QED
      BY <1>3, <2>2, <3>1, <3>2
  <2> QED
    BY <1>2, <1>6, <2>1, <2>2
<1>11. IsEnds(s, F)
  BY <1>1, <1>9, <1>10 DEF IsEnds
<1>12. IsEnds(s, Ends(s))
  BY <1>11 DEF Ends
<1>13. \A k \in 1 .. n : Ends(s)[k] = F[k]
  <2>1. PICK E : E = Ends(s)
    OBVIOUS
  <2>2. \A k \in 1 .. n : E[k] = IF Whole(s, k)
                     THEN {0} \cup {Len(Values(s, k)) + i : i \in E[After(s, k)]}
                     ELSE {0}
    BY <1>1, <1>12, <2>1 DEF IsEnds
  <2>3. SameStep(n, W, a, E, F)
    BY <1>2, <1>3, <1>10, <2>2 DEF SameStep
  <2>4. \A k \in 1 .. n : E[k] = F[k]
    BY <1>7, <2>3, UnwoundSame
  <2> QED
    BY <2>1, <2>4
<1>14. PacketEnds(s) = Ends(s)[1]
  BY DEF PacketEnds, Ends, IsEnds
<1> QED
  BY <1>1, <1>4, <1>9, <1>12, <1>13, <1>14

(* The reader has the first j values of component i: the packets before    *)
(* byte k of s stand for them, b holds them, and the places where packets  *)
(* end are known as far as this.                                           *)
ReadTo(s, k, i, j, b) ==
  /\ k \in 1 .. Len(s) + 1
  /\ Len(Expanded(s)[1]) = i * Width + j + Len(Expanded(s)[k])
  /\ \A d \in 1 .. Len(Expanded(s)[k]) :
       Expanded(s)[1][i * Width + j + d] = Expanded(s)[k][d]
  /\ \A c \in Comp, x \in Col :
       c < i \/ (c = i /\ x < j) => b[c][x] = Expanded(s)[1][c * Width + x + 1]
  /\ \A m \in Nat : i * Width + j + m \in Ends(s)[1] <=> m \in Ends(s)[k]
  /\ \A c \in 1 .. i : c * Width \in Ends(s)[1]

LEMMA ReadToNone ==
  ASSUME NEW s \in Seq(Byte), NEW b
  PROVE  ReadTo(s, 1, 0, 0, b)
<1>1. 1 \in 1 .. Len(s) + 1 /\ 0 * Width = 0 /\ Width \in Nat
  BY WidthType
<1>2. PICK e \in Seq(Byte) : e = Expanded(s)[1]
  BY <1>1, ExpandedIs
<1>3. Len(e) = 0 * Width + 0 + Len(e) /\ \A d \in 1 .. Len(e) : 0 * Width + 0 + d = d
  BY <1>1
<1>4. \A c \in Comp, x \in Col : ~(c < 0 \/ (c = 0 /\ x < 0))
  BY FormatAssumption DEF Comp, Col
<1>5. \A m \in Nat : 0 * Width + 0 + m = m
  BY <1>1
<1>6. 1 .. 0 = {}
  OBVIOUS
<1> QED
  BY <1>1, <1>2, <1>3, <1>4, <1>5, <1>6 DEF ReadTo

LEMMA EmptyEnd ==
  ASSUME NEW s \in Seq(Byte), NEW k \in 1 .. Len(s) + 1
  PROVE  0 \in Ends(s)[k]
<1>1. PICK P : P = Ends(s)
  OBVIOUS
<1>2. P[k] = IF Whole(s, k)
             THEN {0} \cup {Len(Values(s, k)) + n : n \in P[After(s, k)]}
             ELSE {0}
  BY <1>1, EndsAre DEF IsEnds
<1> QED
  BY <1>1, <1>2

(* b2 is b but for the n pixels from j of component i, which are v.        *)
Stored(b, b2, i, j, n, v) ==
  /\ \A c \in Comp, x \in Col : ~(c = i /\ j <= x /\ x < j + n) => b2[c][x] = b[c][x]
  /\ \A d \in 1 .. n : b2[i][j + d - 1] = v[d]

(* One packet more. *)
LEMMA ReadToPacket ==
  ASSUME NEW s \in Seq(Byte), NEW k, NEW i \in Comp, NEW j \in Nat, NEW b, NEW b2,
         ReadTo(s, k, i, j, b), Whole(s, k),
         NEW n \in Nat, n = Len(Values(s, k)), j + n <= Width,
         Stored(b, b2, i, j, n, Values(s, k))
  PROVE  ReadTo(s, After(s, k), i, j + n, b2)
<1>1. PICK q : q = After(s, k)
  OBVIOUS
<1>2. PICK v \in Seq(Byte) : v = Values(s, k) /\ Len(v) = n
  BY WholePacket DEF ReadTo
<1>3. k \in 1 .. Len(s) + 1 /\ q \in 1 .. Len(s) + 1 /\ 1 \in 1 .. Len(s) + 1
  BY <1>1, WholePacket DEF ReadTo
<1>4. PICK e \in Seq(Byte), f \in Seq(Byte), g \in Seq(Byte) :
        e = Expanded(s)[1] /\ f = Expanded(s)[k] /\ g = Expanded(s)[q]
  BY <1>3, ExpandedIs
<1>5. f = v \o g
  BY <1>1, <1>2, <1>3, <1>4, ExpandedIs DEF IsExpansion
<1>6. /\ Len(e) \in Nat /\ Len(f) \in Nat /\ Len(g) \in Nat
      /\ Len(f) = n + Len(g) /\ \A d \in 1 .. n : f[d] = v[d]
      /\ \A d \in 1 .. Len(g) : f[n + d] = g[d]
  BY <1>2, <1>5
<1>7. PICK B \in Nat : B = i * Width
  BY WidthType, FormatAssumption DEF Comp
<1>8. Len(e) = B + j + Len(f) /\ \A d \in 1 .. Len(f) : e[B + j + d] = f[d]
  BY <1>4, <1>7 DEF ReadTo
<1>9. Len(e) = B + (j + n) + Len(g)
  BY <1>6, <1>8
<1>10. ASSUME NEW d \in 1 .. Len(g) PROVE e[B + (j + n) + d] = g[d]
  <2>1. n + d \in 1 .. Len(f) /\ B + (j + n) + d = B + j + (n + d)
    <3>1. PICK l \in Nat : l = Len(g) /\ Len(f) = n + l
      BY <1>6
    <3>2. d \in Nat /\ d \in 1 .. l
      BY <3>1
    <3> QED
      BY <3>1, <3>2
  <2> QED
    BY <1>6, <1>8, <2>1
<1>11. ASSUME NEW c \in Comp, NEW x \in Col, c < i \/ (c = i /\ x < j + n)
       PROVE  b2[c][x] = e[c * Width + x + 1]
  <2>1. CASE c = i /\ j <= x
    <3>1. PICK d \in 1 .. n : d = x - j + 1
      BY <1>11, <2>1 DEF Col, Comp
    <3>2. j + d - 1 = x /\ d \in 1 .. Len(f) /\ c * Width + x + 1 = B + j + d
      BY <1>6, <1>7, <2>1, <3>1, WidthType DEF Col
    <3>3. b2[i][j + d - 1] = v[d]
      BY <1>2, <3>1 DEF Stored
    <3>4. e[B + j + d] = v[d]
      BY <1>6, <1>8, <3>1, <3>2
    <3> QED
      BY <2>1, <3>2, <3>3, <3>4
  <2>2. CASE ~(c = i /\ j <= x)
    <3>1. c < i \/ (c = i /\ x < j)
      BY <1>11, <2>2, WidthType DEF Col, Comp
    <3>2. b[c][x] = e[c * Width + x + 1]
      BY <1>4, <3>1 DEF ReadTo
    <3> QED
      BY <2>2, <3>2 DEF Stored
  <2> QED
    BY <2>1, <2>2
<1>12. ASSUME NEW m \in Nat PROVE B + (j + n) + m \in Ends(s)[1] <=> m \in Ends(s)[q]
  <2>1. PICK h \in Nat : h = n + m
    OBVIOUS
  <2>2. B + j + h \in Ends(s)[1] <=> h \in Ends(s)[k]
    BY <1>7 DEF ReadTo
  <2>3. Ends(s)[k] = {0} \cup {n + l : l \in Ends(s)[q]}
    BY <1>1, <1>2, <1>3, EndsAre DEF IsEnds
  <2>4. Ends(s)[q] \in SUBSET Nat
    BY <1>3, EndsAre
  <2>5. 0 \in Ends(s)[q]
    BY <1>3, EmptyEnd
  <2>6. h \in Ends(s)[k] <=> m \in Ends(s)[q]
    BY <2>1, <2>3, <2>4, <2>5
  <2>7. B + (j + n) + m = B + j + h
    BY <2>1
  <2> QED
    BY <2>2, <2>6, <2>7
<1>13. \A c \in 1 .. i : c * Width \in Ends(s)[1]
  BY DEF ReadTo
<1> QED
  BY <1>1, <1>3, <1>4, <1>7, <1>9, <1>10, <1>11, <1>12, <1>13 DEF ReadTo

(* The component is complete: the next one begins. *)
LEMMA ReadToEnd ==
  ASSUME NEW s \in Seq(Byte), NEW k, NEW i \in Comp, NEW b, ReadTo(s, k, i, Width, b)
  PROVE  ReadTo(s, k, i + 1, 0, b)
<1>1. i \in Nat /\ Width \in Nat /\ i * Width \in Nat
  BY WidthType, FormatAssumption DEF Comp
<1>2. PICK B \in Nat, C \in Nat : B = i * Width /\ C = (i + 1) * Width /\ C + 0 = B + Width
  BY <1>1
<1>3. k \in 1 .. Len(s) + 1
  BY DEF ReadTo
<1>4. \A c \in Comp, x \in Col : c < i + 1 \/ (c = i + 1 /\ x < 0) => c < i \/ (c = i /\ x < Width)
  BY <1>1 DEF Comp, Col
<1>5. C \in Ends(s)[1]
  <2>1. 0 \in Ends(s)[k] /\ 0 \in Nat
    BY <1>3, EmptyEnd
  <2>2. i * Width + Width + 0 \in Ends(s)[1]
    BY <2>1 DEF ReadTo
  <2> QED
    BY <1>2, <2>2
<1>6. \A c \in 1 .. i + 1 : c * Width \in Ends(s)[1]
  <2>1. \A c \in 1 .. i + 1 : c \in 1 .. i \/ c = i + 1
    BY <1>1
  <2> QED
    BY <1>2, <1>5, <2>1 DEF ReadTo
<1> QED
  BY <1>2, <1>4, <1>6 DEF ReadTo

(* The next packet does not fit: the row does not end its components where *)
(* packets end.                                                            *)
LEMMA ReadToOverrun ==
  ASSUME NEW s \in Seq(Byte), NEW k, NEW i \in Comp, NEW j \in Nat, NEW b,
         ReadTo(s, k, i, j, b), j < Width,
         Whole(s, k) => j + Len(Values(s, k)) > Width
  PROVE  ~ \A c \in 1 .. NComp : c * Width \in Ends(s)[1]
<1>1. i + 1 \in 1 .. NComp /\ i \in Nat /\ Width \in Nat
  BY WidthType, FormatAssumption DEF Comp
<1>2. PICK m \in Nat : m = Width - j /\ m > 0
  BY <1>1
<1>3. PICK B \in Nat : B = i * Width
  BY <1>1
<1>4. (i + 1) * Width = B + j + m
  BY <1>1, <1>2, <1>3
<1>5. k \in 1 .. Len(s) + 1
  BY DEF ReadTo
<1>6. m \notin Ends(s)[k]
  <2>1. PICK P : P = Ends(s)
    OBVIOUS
  <2>2. P[k] = IF Whole(s, k)
             THEN {0} \cup {Len(Values(s, k)) + n : n \in P[After(s, k)]}
             ELSE {0}
    BY <1>5, <2>1, EndsAre DEF IsEnds
  <2>3. CASE Whole(s, k)
    <3>1. PICK n \in Nat : n = Len(Values(s, k)) /\ n > m
      <4>1. Len(Values(s, k)) \in Nat
        BY <1>5, <2>3, WholePacket
      <4> QED
        BY <1>1, <1>2, <2>3, <4>1
    <3>2. P[After(s, k)] \in SUBSET Nat
      BY <1>5, <2>1, <2>3, WholePacket, EndsAre
    <3> QED
      BY <1>2, <2>1, <2>2, <2>3, <3>1, <3>2
  <2>4. CASE ~Whole(s, k)
    BY <1>2, <2>1, <2>2, <2>4
  <2> QED
    BY <2>3, <2>4
<1>7. B + j + m \notin Ends(s)[1]
  BY <1>3, <1>6 DEF ReadTo
<1> QED
  BY <1>1, <1>4, <1>7

-----------------------------------------------------------------------------
(* Where the reader stands when it has p bytes of s, the bytes after the   *)
(* header: before a packet, before the value of a run, or in a non-run, of *)
(* which it has stored m values.                                           *)
AtPacket(s, p, i, j, b) == j < Width /\ ReadTo(s, p + 1, i, j, b)

AtRunValue(s, p, i, j, n, b) ==
  /\ j < Width /\ p \in 1 .. Len(s)
  /\ s[p] > Half /\ n = s[p] - Half
  /\ ReadTo(s, p, i, j, b)

InNonRun(s, p, i, j, n, m, b) ==
  /\ p - m \in 1 .. Len(s)
  /\ s[p - m] = m + n /\ s[p - m] <= Half
  /\ ReadTo(s, p - m, i, j - m, b)
  /\ \A d \in 1 .. m : b[i][j - m + d - 1] = s[p - m + d]

AtLiteral(s, p, i, j, n, b) ==
  /\ n >= 1 /\ j + n <= Width
  /\ \E m \in 0 .. j : InNonRun(s, p, i, j, n, m, b)

EndsInPlace(s) == \A c \in 1 .. NComp : c * Width \in Ends(s)[1]

Pixels(s) == [c \in Comp |-> [x \in Col |-> Expanded(s)[1][c * Width + x + 1]]]

NotEncodable ==
  \/ stream[1] # Magic
  \/ Len(stream) >= 4 /\ (stream[2] # Magic \/ stream[3] >= Half)

StillReading == {"magic", "code", "runval", "lit"}

(* The inductive invariant. *)
ForeignType ==
  /\ stream \in Seq(Byte)
  /\ rpc \in StillReading \cup {"done", "failed", "old"}
  /\ rpos \in 0 .. Len(stream)
  /\ ri \in Comp /\ rj \in Nat /\ code \in Nat
  /\ buf \in Scanline(Byte \cup {Garbage})
  /\ rpc \in StillReading => delivered = <<>>

HeaderSoFar ==
  /\ ri = 0 /\ rj = 0
  /\ hdr \in Seq(Byte) /\ Len(hdr) = rpos /\ rpos <= 3
  /\ \A m \in 1 .. rpos : hdr[m] = stream[m]
  /\ rpos > 0 => stream[1] = Magic

ForeignPlace ==
  /\ rpc = "magic" => HeaderSoFar
  /\ rpc \in {"code", "runval", "lit"} => EncodedRow /\ rpos >= 4
  /\ rpc = "code" => AtPacket(Payload, rpos - 4, ri, rj, buf)
  /\ rpc = "runval" => AtRunValue(Payload, rpos - 4, ri, rj, code, buf)
  /\ rpc = "lit" => AtLiteral(Payload, rpos - 4, ri, rj, code, buf)

Verdict ==
  /\ rpc = "done" => /\ EncodedRow /\ EndsInPlace(Payload)
                     /\ delivered = <<Pixels(Payload)>>
  /\ rpc \in {"failed", "old"} => ~(EncodedRow /\ EndsInPlace(Payload))
  /\ rpc = "old" => NotEncodable

ForeignInv == ForeignType /\ ForeignPlace /\ Verdict

-----------------------------------------------------------------------------
LEMMA EncodedRowIs ==
  ASSUME stream \in Seq(Byte)
  PROVE  EncodedRow <=>
           /\ Len(stream) >= 4 /\ stream[1] = Magic /\ stream[2] = Magic
           /\ stream[3] = HighByte /\ stream[4] = LowByte
<1>1. CASE Len(stream) >= 4
  <2>1. PICK h : h = SubSeq(stream, 1, 4)
    OBVIOUS
  <2>2. h \in Seq(Byte) /\ Len(h) = 4 /\ \A m \in 1 .. 4 : h[m] = stream[m]
    BY <1>1, <2>1
  <2>3. Header = <<Magic, Magic, HighByte, LowByte>>
    BY DEF Header, Magic, HighByte, LowByte, Magic, HighByte, LowByte
  <2>4. h = <<Magic, Magic, HighByte, LowByte>> <=>
          h[1] = Magic /\ h[2] = Magic /\ h[3] = HighByte /\ h[4] = LowByte
    BY <2>2
  <2> QED
    BY <1>1, <2>1, <2>2, <2>3, <2>4 DEF EncodedRow
<1>2. CASE ~(Len(stream) >= 4)
  BY <1>2 DEF EncodedRow
<1> QED
  BY <1>1, <1>2

LEMMA PayloadIs ==
  ASSUME stream \in Seq(Byte), Len(stream) >= 4
  PROVE  /\ Payload \in Seq(Byte) /\ Len(Payload) = Len(stream) - 4
         /\ \A p \in 1 .. Len(stream) - 4 : Payload[p] = stream[p + 4]
<1>1. PICK n \in Nat : n = Len(stream) /\ n >= 4
  OBVIOUS
<1>2. Payload = SubSeq(stream, 5, n)
  BY <1>1 DEF Payload
<1>3. SubSeq(stream, 5, n) = [d \in 1 .. n - 4 |-> stream[d + 4]]
  <2>1. n - 5 + 1 = n - 4 /\ \A d \in 1 .. n - 4 : 5 + d - 1 = d + 4
    BY <1>1
  <2> QED
    BY <1>1, <2>1
<1>4. PICK m \in Nat : m = n - 4
  BY <1>1
<1>5. \A d \in 1 .. m : stream[d + 4] \in Byte
  BY <1>1, <1>4
<1>6. [d \in 1 .. m |-> stream[d + 4]] \in Seq(Byte) /\ Len([d \in 1 .. m |-> stream[d + 4]]) = m
  BY <1>5
<1> QED
  BY <1>1, <1>2, <1>3, <1>4, <1>6

(* What the reader does when it has stored the values of a packet.         *)
LEMMA ForeignFilled ==
  ASSUME NRows = 1, NEW s \in Seq(Byte), NEW k \in Nat, ri \in Comp, delivered = <<>>,
         NEW x \in Nat, x <= Width, NEW b \in Scanline(Byte \cup {Garbage}),
         ReadTo(s, k, ri, x, b), Filled(x, b)
  PROVE  /\ buf' = b /\ ri' \in Comp /\ rj' \in Nat /\ code' = 0
         /\ \/ rpc' = "code" /\ delivered' = <<>> /\ AtPacket(s, k - 1, ri', rj', b)
            \/ rpc' = "done" /\ EndsInPlace(s) /\ delivered' = <<Pixels(s)>>
<1>1. Width \in Nat \ {0} /\ NComp \in Nat \ {0}
  BY WidthType, FormatAssumption
<1>2. buf' = b /\ code' = 0
  BY DEF Filled
<1>3. CASE x < Width
  <2>1. rpc' = "code" /\ rj' = x /\ ri' = ri /\ delivered' = delivered
    BY <1>3 DEF Filled
  <2>2. k - 1 + 1 = k
    OBVIOUS
  <2> QED
    BY <1>2, <1>3, <2>1, <2>2 DEF AtPacket
<1>4. CASE x = Width
  <2>1. rj' = 0 /\ ReadTo(s, k, ri + 1, 0, b)
    BY <1>1, <1>4, ReadToEnd DEF Filled
  <2>2. CASE ri < NComp - 1
    <3>1. rpc' = "code" /\ ri' = ri + 1 /\ delivered' = delivered
      BY <1>1, <1>4, <2>2 DEF Filled
    <3>2. ri + 1 \in Comp /\ k - 1 + 1 = k
      BY <1>1, <2>2 DEF Comp
    <3> QED
      BY <1>1, <1>2, <2>1, <3>1, <3>2 DEF AtPacket
  <2>3. CASE ~(ri < NComp - 1)
    <3>1. rpc' = "done" /\ ri' = 0 /\ delivered' = Append(delivered, b)
      BY <1>1, <1>4, <2>3 DEF Filled
    <3>2. ri + 1 = NComp /\ 0 \in Comp
      BY <1>1, <2>3 DEF Comp
    <3>3. EndsInPlace(s)
      BY <2>1, <3>2 DEF ReadTo, EndsInPlace
    <3>4. b = Pixels(s)
      <4>1. \A c \in Comp : c < NComp
        BY <1>1 DEF Comp
      <4>2. \A c \in Comp, y \in Col : b[c][y] = Expanded(s)[1][c * Width + y + 1]
        BY <2>1, <3>2, <4>1 DEF ReadTo
      <4> QED
        BY <4>2 DEF Pixels, Scanline
    <3> QED
      BY <1>2, <2>1, <3>1, <3>2, <3>3, <3>4
  <2> QED
    BY <2>2, <2>3
<1> QED
  BY <1>1, <1>3, <1>4

-----------------------------------------------------------------------------
(* Each action of the reader keeps the invariant. *)
LEMMA ByteOf ==
  ASSUME stream \in Seq(Byte), rpos \in 0 .. Len(stream), ByteReady
  PROVE  /\ getc \in Byte /\ getc = stream[rpos + 1]
         /\ rpos + 1 \in 0 .. Len(stream)
<1>1. rpos + 1 \in 1 .. Len(stream)
  BY DEF ByteReady
<1> QED
  BY <1>1 DEF getc

LEMMA SameQuotient ==
  ASSUME NEW q \in Nat, NEW h \in Nat, NEW l \in Nat, NEW z \in Nat, NEW b \in Nat,
         l < q, b < q, z * q + b = h * q + l
  PROVE  z = h /\ b = l
<1>1. PICK u \in Nat, v \in Nat : u = z * q /\ v = h * q
  OBVIOUS
<1>2. CASE z > h
  <2>1. u >= v + q
    <3>1. z >= h + 1
      BY <1>2
    <3>2. (h + 1) * q = h * q + q /\ z * q >= (h + 1) * q
      BY <3>1
    <3> QED
      BY <1>1, <3>2
  <2> QED
    BY <1>1, <2>1
<1>3. CASE z < h
  <2>1. v >= u + q
    <3>1. h >= z + 1
      BY <1>3
    <3>2. (z + 1) * q = z * q + q /\ h * q >= (z + 1) * q
      BY <3>1
    <3> QED
      BY <1>1, <3>2
  <2> QED
    BY <1>1, <2>1
<1> QED
  BY <1>1, <1>2, <1>3

LEMMA ForeignMagic ==
  ASSUME ForeignInv, ReadMagic
  PROVE  ForeignInv'
<1>1. /\ rpc = "magic" /\ ForeignType /\ HeaderSoFar /\ delivered = <<>>
      /\ Half \in Nat /\ Half > 0
  BY FormatAssumption DEF ForeignInv, ForeignPlace, ForeignType, StillReading, ReadMagic
<1>2. stream' = stream /\ buf' = buf /\ Payload' = Payload
  BY DEF ReadMagic, Payload
<1>3. PICK b \in Byte : b = getc /\ b = stream[rpos + 1] /\ rpos + 1 \in 0 .. Len(stream)
  BY <1>1, ByteOf DEF ForeignType, ReadMagic
<1>4. b \in Nat /\ b < 2 * Half /\ rpos \in Nat /\ Len(stream) \in Nat
  BY <1>1, <1>3, FormatAssumption DEF Byte, ForeignType
<1>5. CASE hdr = <<>> /\ b # Magic
  <2>1. rpos = 0 /\ stream[1] # Magic
    BY <1>1, <1>3, <1>5 DEF HeaderSoFar
  <2>2. rpc' = "old" /\ UNCHANGED <<rpos, hdr, ri, rj, code, delivered>>
    BY <1>3, <1>5 DEF ReadMagic, Magic, Magic
  <2>3. ~EncodedRow /\ NotEncodable
    BY <1>1, <2>1, EncodedRowIs DEF ForeignType, NotEncodable
  <2>4. (~EncodedRow)' /\ NotEncodable'
    BY <1>2, <2>3 DEF EncodedRow, Header, NotEncodable
  <2>5. ForeignType'
    BY <1>1, <1>2, <2>2 DEF ForeignType, StillReading
  <2> QED
    BY <2>2, <2>4, <2>5 DEF ForeignInv, ForeignPlace, Verdict
<1>6. CASE ~(hdr = <<>> /\ b # Magic)
  <2>1. rpos' = rpos + 1
    BY <1>3, <1>6 DEF ReadMagic, Magic, Magic
  <2>2. CASE Len(hdr) < 3
    <3>1. hdr' = Append(hdr, b) /\ UNCHANGED <<rpc, ri, rj, code, delivered>>
      BY <1>3, <1>6, <2>2 DEF ReadMagic, Magic, Magic
    <3>2. hdr' \in Seq(Byte) /\ Len(hdr') = rpos + 1 /\ rpos + 1 <= 3
      BY <1>1, <2>2, <3>1 DEF HeaderSoFar
    <3>3. \A m \in 1 .. rpos + 1 : hdr'[m] = stream[m]
      BY <1>1, <1>3, <1>4, <3>1 DEF HeaderSoFar
    <3>4. stream[1] = Magic
      <4>1. rpos = 0 => hdr = <<>>
        BY <1>1 DEF HeaderSoFar
      <4> QED
        BY <1>1, <1>3, <1>4, <1>6, <4>1 DEF HeaderSoFar
    <3>5. HeaderSoFar'
      BY <1>1, <1>2, <2>1, <3>1, <3>2, <3>3, <3>4 DEF HeaderSoFar
    <3>6. ForeignType'
      BY <1>1, <1>2, <1>3, <2>1, <3>1 DEF ForeignType
    <3> QED
      BY <1>1, <3>1, <3>5, <3>6 DEF ForeignInv, ForeignPlace, Verdict
  <2>3. CASE ~(Len(hdr) < 3)
    <3>1. Len(hdr) = 3 /\ rpos = 3 /\ Len(stream) >= 4
      BY <1>1, <1>3, <1>4, <2>3 DEF HeaderSoFar
    <3>2. stream[1] = Magic /\ hdr[2] = stream[2] /\ hdr[3] = stream[3] /\ stream[4] = b
      BY <1>1, <1>3, <3>1 DEF HeaderSoFar
    <3>3. PICK y \in Nat, z \in Nat : y = stream[2] /\ z = stream[3]
      BY <1>1, <3>1, FormatAssumption DEF ForeignType, Byte
    <3>4. EncodedRow <=> y = Magic /\ z = HighByte /\ b = LowByte
      BY <1>1, <3>1, <3>2, <3>3, EncodedRowIs DEF ForeignType
    <3>5. CASE y # Magic \/ z >= Half
      <4>1. rpc' = "old" /\ UNCHANGED <<hdr, ri, rj, code, delivered>>
        BY <1>3, <1>6, <2>3, <3>2, <3>3, <3>5
        DEF ReadMagic, Magic, Magic
      <4>2. ~EncodedRow /\ NotEncodable
        BY <1>1, <3>1, <3>3, <3>4, <3>5, HeaderFacts DEF NotEncodable
      <4>3. (~EncodedRow)' /\ NotEncodable'
        BY <1>2, <4>2 DEF EncodedRow, Header, NotEncodable
      <4>4. ForeignType'
        BY <1>1, <1>2, <1>3, <2>1, <4>1 DEF ForeignType, StillReading
      <4> QED
        BY <4>1, <4>3, <4>4 DEF ForeignInv, ForeignPlace, Verdict
    <3>6. CASE ~(y # Magic \/ z >= Half) /\ z * 2 * Half + b # Width
      <4>1. rpc' = "failed" /\ UNCHANGED <<hdr, ri, rj, code, delivered>>
        BY <1>3, <1>6, <2>3, <3>2, <3>3, <3>6
        DEF ReadMagic, Magic, Magic, Reject
      <4>2. ~EncodedRow
        BY <3>4, <3>6, HeaderFacts
      <4>3. (~EncodedRow)'
        BY <1>2, <4>2 DEF EncodedRow, Header
      <4>4. ForeignType'
        BY <1>1, <1>2, <1>3, <2>1, <4>1 DEF ForeignType, StillReading
      <4> QED
        BY <4>1, <4>3, <4>4 DEF ForeignInv, ForeignPlace, Verdict
    <3>7. CASE ~(y # Magic \/ z >= Half) /\ z * 2 * Half + b = Width
      <4>1. rpc' = "code" /\ UNCHANGED <<hdr, ri, rj, code, delivered>>
        BY <1>3, <1>6, <2>3, <3>2, <3>3, <3>7
        DEF ReadMagic, Magic, Magic
      <4>2. z = HighByte /\ b = LowByte
        <5>1. PICK h \in Nat, l \in Nat : h = HighByte /\ l = LowByte /\ l < 2 * Half
          BY HeaderFacts, FormatAssumption DEF Byte
        <5>2. h * 2 * Half + l = Width
          BY <5>1, HeaderFacts
        <5>3. z * (2 * Half) + b = h * (2 * Half) + l
          BY <3>7, <5>2, <1>1, <1>4, <5>1
        <5>4. PICK q \in Nat : q = 2 * Half
          BY <1>1
        <5> QED
          BY <1>4, <5>1, <5>3, <5>4, SameQuotient
      <4>3. EncodedRow
        BY <3>4, <3>7, <4>2
      <4>4. EncodedRow'
        BY <1>2, <4>3 DEF EncodedRow, Header
      <4>5. Payload \in Seq(Byte)
        BY <1>1, <3>1, PayloadIs DEF ForeignType
      <4>6. ReadTo(Payload, 1, 0, 0, buf)
        BY <4>5, ReadToNone
      <4>7. AtPacket(Payload, 0, 0, 0, buf)
        BY <4>6, WidthType DEF AtPacket
      <4>8. rpos' - 4 = 0 /\ rpos' >= 4 /\ ri' = 0 /\ rj' = 0
        BY <1>1, <2>1, <3>1, <4>1 DEF HeaderSoFar
      <4>9. AtPacket(Payload', rpos' - 4, ri', rj', buf')
        BY <1>2, <4>7, <4>8
      <4>10. ForeignType'
        BY <1>1, <1>2, <1>3, <2>1, <4>1 DEF ForeignType, StillReading
      <4> QED
        BY <4>1, <4>4, <4>8, <4>9, <4>10 DEF ForeignInv, ForeignPlace, Verdict
    <3> QED
      BY <3>5, <3>6, <3>7
  <2> QED
    BY <2>2, <2>3
<1> QED
  BY <1>5, <1>6

LEMMA PayloadNext ==
  ASSUME ForeignType, EncodedRow, rpos >= 4
  PROVE  /\ Payload \in Seq(Byte) /\ rpos - 4 \in 0 .. Len(Payload)
         /\ Len(Payload) = Len(stream) - 4
         /\ ByteReady =>
              /\ rpos + 1 \in 0 .. Len(stream) /\ (rpos + 1) - 4 = (rpos - 4) + 1
              /\ (rpos - 4) + 1 \in 1 .. Len(Payload)
              /\ getc \in Byte /\ getc = Payload[(rpos - 4) + 1]
         /\ ~ByteReady => rpos - 4 = Len(Payload)
<1>1. PICK n \in Nat : n = Len(stream) /\ rpos \in 0 .. n /\ n >= 4
  BY DEF ForeignType
<1>2. Payload \in Seq(Byte) /\ Len(Payload) = n - 4
      /\ \A p \in 1 .. n - 4 : Payload[p] = stream[p + 4]
  BY <1>1, PayloadIs DEF ForeignType
<1>3. ASSUME ByteReady
      PROVE  /\ getc \in Byte /\ getc = stream[rpos + 1]
             /\ rpos + 1 \in 0 .. n
  BY <1>1, <1>3, ByteOf DEF ForeignType
<1>4. ASSUME ByteReady PROVE (rpos - 4) + 1 \in 1 .. n - 4 /\ ((rpos - 4) + 1) + 4 = rpos + 1
  BY <1>1, <1>3, <1>4
<1>5. ~ByteReady => rpos - 4 = n - 4
  BY <1>1 DEF ByteReady
<1> QED
  BY <1>1, <1>2, <1>3, <1>4, <1>5

FilledFrom(b, b2, c, x, n, v) ==
  \A d \in Comp, y \in Col :
    b2[d][y] = IF d = c /\ x <= y /\ y < x + n THEN v ELSE b[d][y]

LEMMA FillIs ==
  ASSUME buf \in Scanline(Byte \cup {Garbage}), NEW c \in Comp, NEW x \in Nat, NEW n \in Nat,
         NEW v \in Byte
  PROVE  /\ Fill(c, x, n, v) \in Scanline(Byte \cup {Garbage})
         /\ FilledFrom(buf, Fill(c, x, n, v), c, x, n, v)
<1>1. PICK row : row = [y \in Col |-> IF x <= y /\ y < x + n THEN v ELSE buf[c][y]]
  OBVIOUS
<1>2. row \in [Col -> Byte \cup {Garbage}]
  BY <1>1 DEF Scanline
<1>3. Fill(c, x, n, v) = [buf EXCEPT ![c] = row]
  BY <1>1 DEF Fill, Col, Col
<1> QED
  BY <1>1, <1>2, <1>3 DEF Scanline, FilledFrom

(* Only the values taken are looked at. *)
LEMMA ReadToUndisturbed ==
  ASSUME NEW s, NEW k, NEW i, NEW j, NEW b, NEW b2, ReadTo(s, k, i, j, b),
         \A c \in Comp, x \in Col : c < i \/ (c = i /\ x < j) => b2[c][x] = b[c][x]
  PROVE  ReadTo(s, k, i, j, b2)
<1>1. \A c \in Comp, x \in Col :
       c < i \/ (c = i /\ x < j) => b2[c][x] = Expanded(s)[1][c * Width + x + 1]
  BY DEF ReadTo
<1> QED
  BY <1>1 DEF ReadTo

LEMMA ForeignCode ==
  ASSUME ForeignInv, ReadCode
  PROVE  ForeignInv'
<1>1. PICK s : s = Payload
  OBVIOUS
<1>2. PICK p : p = rpos - 4
  OBVIOUS
<1>3. /\ rpc = "code" /\ ForeignType /\ EncodedRow /\ rpos >= 4 /\ delivered = <<>>
      /\ AtPacket(s, p, ri, rj, buf) /\ ByteReady /\ rpos \in Nat
      /\ Half \in Nat /\ Half > 0 /\ Width \in Nat /\ rj \in Nat /\ ri \in Comp
  BY <1>1, <1>2, FormatAssumption
  DEF ForeignInv, ForeignPlace, ForeignType, StillReading, ReadCode
<1>4. stream' = stream /\ buf' = buf /\ Payload' = s
  BY <1>1 DEF ReadCode, Reject, Payload
<1>5. /\ s \in Seq(Byte) /\ p \in Nat /\ rpos + 1 \in 0 .. Len(stream) /\ (rpos + 1) - 4 = p + 1
      /\ p + 1 \in 1 .. Len(s) /\ getc \in Byte /\ getc = s[p + 1]
  BY <1>1, <1>2, <1>3, PayloadNext
<1>6. PICK b \in Byte : b = getc /\ b = s[p + 1] /\ b \in Nat
  BY <1>5, FormatAssumption DEF Byte
<1>7. rj < Width /\ ReadTo(s, p + 1, ri, rj, buf)
  BY <1>3 DEF AtPacket
<1>8. rpos' = rpos + 1
  BY DEF ReadCode
<1>9. EncodedRow' /\ rpos' >= 4 /\ rpos' - 4 = p + 1
  BY <1>3, <1>4, <1>5, <1>8 DEF EncodedRow, Header
<1>10. CASE b > Half
  <2>1. rpc' = "runval" /\ code' = b % Half /\ ri' = ri /\ rj' = rj /\ delivered' = delivered
    BY <1>3, <1>6, <1>10 DEF ReadCode
  <2>2. b % Half = b - Half /\ b - Half \in Nat
    BY <1>3, <1>6, <1>10, CodeMask
  <2>3. AtRunValue(s, p + 1, ri, rj, b - Half, buf)
    BY <1>5, <1>6, <1>7, <1>10 DEF AtRunValue
  <2>4. AtRunValue(Payload', rpos' - 4, ri', rj', code', buf')
    BY <1>4, <1>9, <2>1, <2>2, <2>3
  <2>5. ForeignType'
    BY <1>3, <1>4, <1>5, <1>8, <2>1, <2>2 DEF ForeignType, StillReading
  <2> QED
    BY <1>9, <2>1, <2>4, <2>5 DEF ForeignInv, ForeignPlace, Verdict
<1>11. CASE b <= Half /\ rj + b > Width
  <2>1. rpc' = "failed" /\ UNCHANGED <<hdr, ri, rj, code, delivered>>
    BY <1>3, <1>6, <1>11 DEF ReadCode, Reject
  <2>2. Whole(s, p + 1) => Len(Values(s, p + 1)) = b
    <3>1. p + 1 \in 1 .. Len(s) + 1 /\ ~(s[p + 1] > Half)
      BY <1>3, <1>5, <1>6, <1>11
    <3> QED
      BY <1>5, <1>6, <3>1, WholePacket
  <2>3. ~EndsInPlace(s)
    BY <1>3, <1>5, <1>7, <1>11, <2>2, ReadToOverrun DEF EndsInPlace
  <2>4. ForeignType'
    BY <1>3, <1>4, <1>5, <1>8, <2>1 DEF ForeignType, StillReading
  <2>5. ~EndsInPlace(Payload')
    BY <1>4, <2>3
  <2>6. ~(EndsInPlace(Payload)')
    BY <2>5 DEF EndsInPlace, Ends, IsEnds
  <2> QED
    BY <2>1, <2>4, <2>6 DEF ForeignInv, ForeignPlace, Verdict
<1>12. CASE b <= Half /\ rj + b <= Width /\ b = 0
  <2>1. rpc' = "code" /\ code' = 0 /\ ri' = ri /\ rj' = rj /\ delivered' = delivered
    BY <1>3, <1>6, <1>12 DEF ReadCode
  <2>2. p + 1 \in 1 .. Len(s) + 1 /\ ~(s[p + 1] > Half) /\ Whole(s, p + 1)
    BY <1>3, <1>5, <1>6, <1>12 DEF Whole
  <2>3. Len(Values(s, p + 1)) = 0
    BY <1>5, <1>6, <1>12, <2>2, WholePacket
  <2>4. After(s, p + 1) = (p + 1) + 1
    BY <1>5, <1>6, <1>12, <2>2 DEF After
  <2>5. ReadTo(s, (p + 1) + 1, ri, rj + 0, buf)
    <3>1. 0 = Len(Values(s, p + 1)) /\ 0 \in Nat /\ rj + 0 <= Width
      BY <1>3, <1>7, <2>3
    <3>2. Stored(buf, buf, ri, rj, 0, Values(s, p + 1))
      BY DEF Stored
    <3> QED
      BY <1>3, <1>5, <1>7, <2>2, <2>4, <3>1, <3>2, ReadToPacket
  <2>6. AtPacket(s, p + 1, ri, rj, buf)
    BY <1>3, <1>7, <2>5 DEF AtPacket
  <2>7. AtPacket(Payload', rpos' - 4, ri', rj', buf')
    BY <1>4, <1>9, <2>1, <2>6
  <2>8. ForeignType'
    BY <1>3, <1>4, <1>5, <1>8, <2>1 DEF ForeignType, StillReading
  <2> QED
    BY <1>9, <2>1, <2>7, <2>8 DEF ForeignInv, ForeignPlace, Verdict
<1>13. CASE b <= Half /\ rj + b <= Width /\ b # 0
  <2>1. rpc' = "lit" /\ code' = b /\ ri' = ri /\ rj' = rj /\ delivered' = delivered
    BY <1>3, <1>6, <1>13 DEF ReadCode
  <2>2. (p + 1) - 0 = p + 1 /\ 0 + b = b /\ rj - 0 = rj /\ 0 \in 0 .. rj /\ 1 .. 0 = {}
    BY <1>3, <1>5, <1>6
  <2>3. InNonRun(s, p + 1, ri, rj, b, 0, buf)
    BY <1>5, <1>6, <1>7, <1>13, <2>2 DEF InNonRun
  <2>4. AtLiteral(s, p + 1, ri, rj, b, buf)
    BY <1>6, <1>13, <2>2, <2>3 DEF AtLiteral
  <2>5. AtLiteral(Payload', rpos' - 4, ri', rj', code', buf')
    BY <1>4, <1>9, <2>1, <2>4
  <2>6. ForeignType'
    BY <1>3, <1>4, <1>5, <1>6, <1>8, <2>1 DEF ForeignType, StillReading
  <2> QED
    BY <1>9, <2>1, <2>5, <2>6 DEF ForeignInv, ForeignPlace, Verdict
<1> QED
  BY <1>3, <1>6, <1>10, <1>11, <1>12, <1>13

(* A packet stored brings the reader to the next one or to the end.        *)
LEMMA ForeignOnward ==
  ASSUME ForeignType, NEW s, Payload' = s, stream' = stream, NEW p \in Nat,
         rpos' \in 0 .. Len(stream), rpos' >= 4, rpos' - 4 = p + 1, EncodedRow',
         NEW b \in Scanline(Byte \cup {Garbage}),
         buf' = b, ri' \in Comp, rj' \in Nat, code' = 0,
         \/ rpc' = "code" /\ delivered' = <<>> /\ AtPacket(s, (p + 2) - 1, ri', rj', b)
         \/ rpc' = "done" /\ EndsInPlace(s) /\ delivered' = <<Pixels(s)>>
  PROVE  ForeignInv'
<1>1. ForeignType'
  BY DEF ForeignType, StillReading
<1>2. (p + 2) - 1 = p + 1
  OBVIOUS
<1>3. CASE rpc' = "code" /\ delivered' = <<>> /\ AtPacket(s, (p + 2) - 1, ri', rj', b)
  <2>1. AtPacket(Payload', rpos' - 4, ri', rj', buf')
    BY <1>2, <1>3
  <2> QED
    BY <1>1, <1>3, <2>1 DEF ForeignInv, ForeignPlace, Verdict
<1>4. CASE rpc' = "done" /\ EndsInPlace(s) /\ delivered' = <<Pixels(s)>>
  <2>1. EndsInPlace(Payload') /\ delivered' = <<Pixels(Payload')>>
    BY <1>4
  <2>2. EndsInPlace(Payload)' /\ delivered' = <<Pixels(Payload)>>'
    BY <2>1 DEF EndsInPlace, Ends, IsEnds, Pixels, Expanded, IsExpansion
  <2> QED
    BY <1>1, <1>4, <2>2 DEF ForeignInv, ForeignPlace, Verdict
<1> QED
  BY <1>3, <1>4

LEMMA ForeignRunValue ==
  ASSUME NRows = 1, ForeignInv, ReadRunValue
  PROVE  ForeignInv'
<1>1. PICK s : s = Payload
  OBVIOUS
<1>2. PICK p : p = rpos - 4
  OBVIOUS
<1>3. /\ rpc = "runval" /\ ForeignType /\ EncodedRow /\ rpos >= 4 /\ delivered = <<>>
      /\ AtRunValue(s, p, ri, rj, code, buf) /\ ByteReady /\ rpos \in Nat
      /\ Half \in Nat /\ Width \in Nat /\ rj \in Nat /\ ri \in Comp /\ code \in Nat
      /\ buf \in Scanline(Byte \cup {Garbage})
  BY <1>1, <1>2, FormatAssumption, WidthType
  DEF ForeignInv, ForeignPlace, ForeignType, StillReading, ReadRunValue
<1>4. stream' = stream /\ Payload' = s /\ rpos' = rpos + 1
  BY <1>1 DEF ReadRunValue, Payload
<1>5. /\ s \in Seq(Byte) /\ p \in Nat /\ rpos + 1 \in 0 .. Len(stream) /\ (rpos + 1) - 4 = p + 1
      /\ p + 1 \in 1 .. Len(s) /\ getc \in Byte /\ getc = s[p + 1]
  BY <1>1, <1>2, <1>3, PayloadNext
<1>6. PICK b \in Byte : b = getc /\ b = s[p + 1]
  BY <1>5
<1>7. /\ rj < Width /\ p \in 1 .. Len(s) /\ s[p] > Half /\ code = s[p] - Half
      /\ ReadTo(s, p, ri, rj, buf)
  BY <1>3 DEF AtRunValue
<1>8. p \in 1 .. Len(s) + 1 /\ Whole(s, p)
  BY <1>5, <1>7 DEF Whole
<1>9. /\ Len(Values(s, p)) = code /\ After(s, p) = p + 2
      /\ \A d \in 1 .. code : Values(s, p)[d] = b
  <2>1. After(s, p) = p + 1 + 1
    BY <1>7 DEF After
  <2> QED
    BY <1>5, <1>6, <1>7, <1>8, <2>1, WholePacket
<1>10. EncodedRow' /\ rpos' >= 4 /\ rpos' - 4 = p + 1
  BY <1>3, <1>4, <1>5 DEF EncodedRow, Header
<1>11. CASE rj + code > Width
  <2>1. rpc' = "failed" /\ buf' = buf /\ UNCHANGED <<hdr, ri, rj, code, delivered>>
    BY <1>3, <1>11 DEF ReadRunValue, Reject
  <2>2. ~EndsInPlace(s)
    BY <1>3, <1>5, <1>7, <1>9, <1>11, ReadToOverrun DEF EndsInPlace
  <2>3. ForeignType'
    BY <1>3, <1>4, <1>5, <2>1 DEF ForeignType, StillReading
  <2>4. ~EndsInPlace(Payload')
    BY <1>4, <2>2
  <2>5. ~(EndsInPlace(Payload)')
    BY <2>4 DEF EndsInPlace, Ends, IsEnds
  <2> QED
    BY <2>1, <2>3, <2>5 DEF ForeignInv, ForeignPlace, Verdict
<1>12. CASE ~(rj + code > Width)
  <2>1. PICK c2 : c2 = Fill(ri, rj, code, b)
    OBVIOUS
  <2>2. Filled(rj + code, c2)
    BY <1>6, <1>12, <2>1 DEF ReadRunValue
  <2>3. /\ c2 \in Scanline(Byte \cup {Garbage})
        /\ FilledFrom(buf, c2, ri, rj, code, b)
    BY <1>3, <2>1, FillIs
  <2>4. rj + code \in Nat /\ rj + code <= Width
    BY <1>3, <1>12
  <2>5. \A c \in Comp, x \in Col : ~(c = ri /\ rj <= x /\ x < rj + code) => c2[c][x] = buf[c][x]
    BY <2>3 DEF FilledFrom
  <2>6. \A d \in 1 .. code : c2[ri][rj + d - 1] = Values(s, p)[d]
    <3> SUFFICES ASSUME NEW d \in 1 .. code PROVE c2[ri][rj + d - 1] = b
      BY <1>9
    <3>1. PICK y \in Col : y = rj + d - 1
      BY <1>3, <2>4 DEF Col
    <3>2. rj <= y /\ y < rj + code
      BY <1>3, <3>1
    <3> QED
      BY <1>3, <2>3, <3>1, <3>2 DEF FilledFrom
  <2>7. ReadTo(s, p + 2, ri, rj + code, c2)
    <3>1. Stored(buf, c2, ri, rj, code, Values(s, p))
      BY <2>5, <2>6 DEF Stored
    <3>2. ReadTo(s, After(s, p), ri, rj + code, c2)
      BY <1>3, <1>5, <1>7, <1>8, <1>9, <2>4, <3>1, ReadToPacket
    <3> QED
      BY <1>9, <3>2
  <2>8. /\ buf' = c2 /\ ri' \in Comp /\ rj' \in Nat /\ code' = 0
        /\ \/ rpc' = "code" /\ delivered' = <<>> /\ AtPacket(s, (p + 2) - 1, ri', rj', c2)
           \/ rpc' = "done" /\ EndsInPlace(s) /\ delivered' = <<Pixels(s)>>
    <3>1. p + 2 \in Nat
      BY <1>5
    <3> QED
      BY <1>3, <1>5, <2>2, <2>3, <2>4, <2>7, <3>1, ForeignFilled
  <2>9. ForeignInv'
    BY <1>3, <1>4, <1>5, <1>10, <2>3, <2>8, ForeignOnward
  <2> QED
    BY <2>9
<1> QED
  BY <1>11, <1>12

LEMMA ForeignLiteral ==
  ASSUME NRows = 1, ForeignInv, ReadLiteral
  PROVE  ForeignInv'
<1>1. PICK s : s = Payload
  OBVIOUS
<1>2. PICK p : p = rpos - 4
  OBVIOUS
<1>3. /\ rpc = "lit" /\ ForeignType /\ EncodedRow /\ rpos >= 4 /\ delivered = <<>>
      /\ AtLiteral(s, p, ri, rj, code, buf) /\ ByteReady /\ rpos \in Nat
      /\ Half \in Nat /\ Width \in Nat /\ rj \in Nat /\ ri \in Comp /\ code \in Nat
      /\ buf \in Scanline(Byte \cup {Garbage})
  BY <1>1, <1>2, FormatAssumption, WidthType
  DEF ForeignInv, ForeignPlace, ForeignType, StillReading, ReadLiteral
<1>4. stream' = stream /\ Payload' = s /\ rpos' = rpos + 1
  BY <1>1 DEF ReadLiteral, Payload
<1>5. /\ s \in Seq(Byte) /\ p \in Nat /\ rpos + 1 \in 0 .. Len(stream) /\ (rpos + 1) - 4 = p + 1
      /\ p + 1 \in 1 .. Len(s) /\ getc \in Byte /\ getc = s[p + 1]
  BY <1>1, <1>2, <1>3, PayloadNext
<1>6. PICK b \in Byte : b = getc /\ b = s[p + 1]
  BY <1>5
<1>7. PICK m \in 0 .. rj : InNonRun(s, p, ri, rj, code, m, buf)
  BY <1>3 DEF AtLiteral
<1>8. code >= 1 /\ rj + code <= Width /\ m \in Nat /\ m <= rj
  BY <1>3, <1>7 DEF AtLiteral
<1>9. PICK k \in Nat, j0 \in Nat : k = p - m /\ j0 = rj - m
  BY <1>3, <1>5, <1>7, <1>8 DEF InNonRun
<1>10. /\ k \in 1 .. Len(s) /\ s[k] = m + code /\ s[k] <= Half
       /\ ReadTo(s, k, ri, j0, buf)
       /\ \A d \in 1 .. m : buf[ri][j0 + d - 1] = s[k + d]
  BY <1>7, <1>9 DEF InNonRun
<1>11. k + m = p /\ j0 + m = rj
  BY <1>3, <1>5, <1>8, <1>9
<1>12. EncodedRow' /\ rpos' >= 4 /\ rpos' - 4 = p + 1
  BY <1>3, <1>4, <1>5 DEF EncodedRow, Header
<1>13. PICK c2 : c2 = Fill(ri, rj, 1, b)
  OBVIOUS
<1>14. /\ c2 \in Scanline(Byte \cup {Garbage})
       /\ FilledFrom(buf, c2, ri, rj, 1, b)
  <2>1. 1 \in Nat
    OBVIOUS
  <2> QED
    BY <1>3, <1>13, <2>1, FillIs
<1>15. /\ c2[ri][rj] = b
       /\ \A d \in Comp, y \in Col : ~(d = ri /\ y = rj) => c2[d][y] = buf[d][y]
  <2>1. rj \in Col
    BY <1>3, <1>8 DEF Col
  <2>2. \A y \in Col : rj <= y /\ y < rj + 1 <=> y = rj
    BY <1>3 DEF Col
  <2> QED
    BY <1>3, <1>14, <2>1, <2>2 DEF FilledFrom
<1>16. \A d \in 1 .. m + 1 : c2[ri][j0 + d - 1] = s[k + d]
  <2> SUFFICES ASSUME NEW d \in 1 .. m + 1 PROVE c2[ri][j0 + d - 1] = s[k + d]
    OBVIOUS
  <2>1. CASE d = m + 1
    <3>1. j0 + d - 1 = rj /\ k + d = p + 1
      BY <1>8, <1>9, <1>11, <2>1
    <3> QED
      BY <1>6, <1>15, <3>1
  <2>2. CASE d # m + 1
    <3>1. d \in 1 .. m
      BY <1>8, <2>2
    <3>2. PICK y \in Col : y = j0 + d - 1 /\ y # rj
      BY <1>3, <1>8, <1>11, <3>1 DEF Col
    <3> QED
      BY <1>3, <1>10, <1>15, <3>1, <3>2
  <2> QED
    BY <2>1, <2>2
<1>17. CASE code > 1
  <2>1. /\ buf' = c2 /\ rj' = rj + 1 /\ code' = code - 1
        /\ UNCHANGED <<rpc, hdr, ri, delivered>>
    BY <1>6, <1>13, <1>17 DEF ReadLiteral
  <2>2. ReadTo(s, k, ri, j0, c2)
    <3>1. \A c \in Comp, x \in Col : c < ri \/ (c = ri /\ x < j0) => ~(c = ri /\ x = rj)
      BY <1>3, <1>8, <1>9, <1>11 DEF Comp, Col
    <3>2. \A c \in Comp, x \in Col : c < ri \/ (c = ri /\ x < j0) => c2[c][x] = buf[c][x]
      BY <1>15, <3>1
    <3> QED
      BY <1>10, <3>2, ReadToUndisturbed
  <2>3. /\ (p + 1) - (m + 1) = k /\ (rj + 1) - (m + 1) = j0 /\ (m + 1) + (code - 1) = m + code
        /\ m + 1 \in 0 .. rj + 1 /\ code - 1 >= 1 /\ (rj + 1) + (code - 1) <= Width
        /\ code - 1 \in Nat /\ rj + 1 \in Nat
    BY <1>3, <1>5, <1>8, <1>9, <1>11, <1>17
  <2>4. InNonRun(s, p + 1, ri, rj + 1, code - 1, m + 1, c2)
    BY <1>10, <1>16, <2>2, <2>3 DEF InNonRun
  <2>5. AtLiteral(s, p + 1, ri, rj + 1, code - 1, c2)
    BY <2>3, <2>4 DEF AtLiteral
  <2>6. AtLiteral(Payload', rpos' - 4, ri', rj', code', buf')
    BY <1>4, <1>12, <2>1, <2>5
  <2>7. ForeignType'
    BY <1>3, <1>4, <1>5, <1>14, <2>1, <2>3 DEF ForeignType, StillReading
  <2> QED
    BY <1>3, <1>12, <2>1, <2>6, <2>7 DEF ForeignInv, ForeignPlace, Verdict
<1>18. CASE code = 1
  <2>1. Filled(rj + 1, c2)
    BY <1>3, <1>6, <1>13, <1>18 DEF ReadLiteral
  <2>2. PICK n \in Nat : n = m + 1
    BY <1>8
  <2>3. s[k] = n /\ ~(s[k] > Half) /\ k + n = p + 1 /\ j0 + n = rj + 1 /\ rj + 1 <= Width
    BY <1>3, <1>5, <1>8, <1>9, <1>10, <1>11, <1>18, <2>2
  <2>4. k \in 1 .. Len(s) + 1 /\ Whole(s, k)
    BY <1>5, <1>10, <2>3 DEF Whole
  <2>5. /\ Len(Values(s, k)) = n /\ After(s, k) = p + 2
        /\ \A d \in 1 .. n : Values(s, k)[d] = s[k + d]
    <3>1. After(s, k) = k + 1 + n
      BY <2>3 DEF After
    <3>2. k + 1 + n = p + 2
      BY <1>5, <1>9, <2>2, <2>3
    <3>3. PICK v : v = Values(s, k)
      OBVIOUS
    <3>4. /\ Len(v) = IF s[k] > Half THEN s[k] - Half ELSE s[k]
          /\ \A d \in 1 .. Len(v) : v[d] = IF s[k] > Half THEN s[k + 1] ELSE s[k + d]
      BY <1>5, <2>4, <3>3, WholePacket
    <3>5. Len(v) = n /\ \A d \in 1 .. n : v[d] = s[k + d]
      BY <2>3, <3>4
    <3> QED
      BY <3>1, <3>2, <3>3, <3>5
  <2>6. \A c \in Comp, x \in Col : ~(c = ri /\ j0 <= x /\ x < j0 + n) => c2[c][x] = buf[c][x]
    <3>1. j0 <= rj /\ rj < j0 + n
      BY <1>3, <1>8, <1>9, <1>11, <2>2
    <3> QED
      BY <1>15, <3>1
  <2>7. \A d \in 1 .. n : c2[ri][j0 + d - 1] = Values(s, k)[d]
    BY <1>16, <2>2, <2>5
  <2>8. ReadTo(s, p + 2, ri, rj + 1, c2)
    <3>1. j0 + n <= Width /\ n = Len(Values(s, k))
      BY <2>3, <2>5
    <3>2. Stored(buf, c2, ri, j0, n, Values(s, k))
      BY <2>6, <2>7 DEF Stored
    <3>3. ReadTo(s, After(s, k), ri, j0 + n, c2)
      BY <1>3, <1>5, <1>10, <2>4, <3>1, <3>2, ReadToPacket
    <3> QED
      BY <2>3, <2>5, <3>3
  <2>9. /\ buf' = c2 /\ ri' \in Comp /\ rj' \in Nat /\ code' = 0
        /\ \/ rpc' = "code" /\ delivered' = <<>> /\ AtPacket(s, (p + 2) - 1, ri', rj', c2)
           \/ rpc' = "done" /\ EndsInPlace(s) /\ delivered' = <<Pixels(s)>>
    <3>1. p + 2 \in Nat /\ rj + 1 \in Nat
      BY <1>3, <1>5
    <3> QED
      BY <1>3, <1>5, <1>14, <2>1, <2>3, <2>8, <3>1, ForeignFilled
  <2> QED
    BY <1>3, <1>4, <1>5, <1>12, <1>14, <2>9, ForeignOnward
<1> QED
  BY <1>3, <1>8, <1>17, <1>18

LEMMA ForeignEOF ==
  ASSUME ForeignInv, ReadEOF
  PROVE  ForeignInv'
<1>1. PICK s : s = Payload
  OBVIOUS
<1>2. PICK p : p = rpos - 4
  OBVIOUS
<1>3. /\ rpc \in StillReading /\ ForeignType /\ ~ByteReady
      /\ Half \in Nat /\ Width \in Nat /\ rj \in Nat /\ ri \in Comp /\ code \in Nat
      /\ rpos \in Nat
  BY FormatAssumption, WidthType DEF ForeignInv, ForeignType, StillReading, ReadEOF
<1>4. rpc' = "failed" /\ UNCHANGED <<stream, rpos, hdr, ri, rj, code, buf, delivered>>
  BY DEF ReadEOF
<1>5. ForeignType'
  BY <1>3, <1>4 DEF ForeignType, StillReading
<1>6. ~(EncodedRow /\ EndsInPlace(s))
  <2> SUFFICES ASSUME EncodedRow, EndsInPlace(s) PROVE FALSE
    OBVIOUS
  <2>1. CASE rpc = "magic"
    <3>1. rpos <= 3 /\ Len(stream) \in Nat /\ rpos = Len(stream)
      BY <1>3, <2>1
      DEF ForeignInv, ForeignPlace, ForeignType, HeaderSoFar, ByteReady
    <3> QED
      BY <3>1 DEF EncodedRow
  <2>2. CASE rpc # "magic"
    <3>1. rpos >= 4 /\ rpc \in {"code", "runval", "lit"}
      BY <1>3, <2>2 DEF ForeignInv, ForeignPlace, StillReading
    <3>2. s \in Seq(Byte) /\ p \in Nat /\ p = Len(s)
      BY <1>1, <1>2, <1>3, <3>1, PayloadNext
    <3>3. CASE rpc = "code"
      <4>1. rj < Width /\ ReadTo(s, p + 1, ri, rj, buf)
        BY <1>1, <1>2, <3>3 DEF ForeignInv, ForeignPlace, AtPacket
      <4>2. ~Whole(s, p + 1)
        BY <3>2 DEF Whole
      <4> QED
        BY <1>3, <3>2, <4>1, <4>2, ReadToOverrun DEF EndsInPlace
    <3>4. CASE rpc = "runval"
      <4>1. rj < Width /\ s[p] > Half /\ ReadTo(s, p, ri, rj, buf)
        BY <1>1, <1>2, <3>4 DEF ForeignInv, ForeignPlace, AtRunValue
      <4>2. ~Whole(s, p)
        BY <3>2, <4>1 DEF Whole
      <4> QED
        BY <1>3, <3>2, <4>1, <4>2, ReadToOverrun DEF EndsInPlace
    <3>5. CASE rpc = "lit"
      <4>1. AtLiteral(s, p, ri, rj, code, buf)
        BY <1>1, <1>2, <3>5 DEF ForeignInv, ForeignPlace
      <4>2. PICK m \in 0 .. rj : InNonRun(s, p, ri, rj, code, m, buf)
        BY <4>1 DEF AtLiteral
      <4>3. code >= 1 /\ rj + code <= Width /\ m \in Nat /\ m <= rj
        BY <1>3, <4>1, <4>2 DEF AtLiteral
      <4>4. PICK k \in Nat, j0 \in Nat : k = p - m /\ j0 = rj - m
        BY <1>3, <3>2, <4>2, <4>3 DEF InNonRun
      <4>5. s[k] = m + code /\ s[k] <= Half /\ ReadTo(s, k, ri, j0, buf)
        BY <4>2, <4>4 DEF InNonRun
      <4>6. j0 < Width /\ ~(k + s[k] <= Len(s)) /\ ~(s[k] > Half)
        BY <1>3, <3>2, <4>3, <4>4, <4>5
      <4>7. ~Whole(s, k)
        BY <4>6 DEF Whole
      <4> QED
        BY <1>3, <3>2, <4>5, <4>6, <4>7, ReadToOverrun DEF EndsInPlace
    <3> QED
      BY <3>1, <3>3, <3>4, <3>5
  <2> QED
    BY <2>1, <2>2
<1>7. EncodedRow' = EncodedRow /\ Payload' = s
  BY <1>1, <1>4 DEF EncodedRow, Header, Payload
<1>8. ~(EncodedRow' /\ EndsInPlace(Payload'))
  BY <1>6, <1>7
<1>9. ~(EncodedRow /\ EndsInPlace(Payload))'
  BY <1>8 DEF EndsInPlace, Ends, IsEnds
<1> QED
  BY <1>4, <1>5, <1>9 DEF ForeignInv, ForeignPlace, Verdict

LEMMA ForeignStarts ==
  ASSUME ForeignInit
  PROVE  ForeignInv
<1>1. stream \in Seq(Byte)
  <2>1. PICK h \in Headers, n \in 0 .. MaxPayload : \E p \in [1 .. n -> PayloadByte] : stream = h \o p
    BY DEF ForeignInit
  <2>2. PICK p \in [1 .. n -> PayloadByte] : stream = h \o p
    BY <2>1
  <2>3. n \in Nat /\ h \in Seq(Byte) /\ PayloadByte \subseteq Byte
    BY ForeignAssumption DEF ForeignAssumption
  <2>4. p \in Seq(Byte)
    BY <2>2, <2>3
  <2> QED
    BY <2>2, <2>3, <2>4
<1>2. /\ rpc = "magic" /\ rpos = 0 /\ hdr = <<>> /\ ri = 0 /\ rj = 0 /\ code = 0
      /\ buf = [c \in Comp |-> [x \in Col |-> Garbage]] /\ delivered = <<>>
  BY DEF ForeignInit, ReaderInit, Comp, Col, Comp, Col
<1>3. 0 \in Comp /\ 0 \in Nat /\ 0 \in 0 .. Len(stream)
  BY <1>1, FormatAssumption DEF Comp
<1>4. ForeignType
  BY <1>1, <1>2, <1>3 DEF ForeignType, StillReading, Scanline
<1>5. HeaderSoFar
  BY <1>2 DEF HeaderSoFar
<1> QED
  BY <1>2, <1>4, <1>5 DEF ForeignInv, ForeignPlace, Verdict

LEMMA ForeignSteps ==
  ASSUME NRows = 1
  PROVE  ForeignInv /\ [ForeignNext]_fvars => ForeignInv'
<1> SUFFICES ASSUME ForeignInv, [ForeignNext]_(fvars) PROVE ForeignInv'
  OBVIOUS
<1>1. CASE ReadMagic
  BY <1>1, ForeignMagic
<1>2. CASE ReadCode
  BY <1>2, ForeignCode
<1>3. CASE ReadRunValue
  BY <1>3, ForeignRunValue
<1>4. CASE ReadLiteral
  BY <1>4, ForeignLiteral
<1>5. CASE ReadEOF
  BY <1>5, ForeignEOF
<1>6. CASE UNCHANGED fvars
  <2>1. UNCHANGED <<stream, rpc, rpos, hdr, ri, rj, code, buf, delivered>>
    BY <1>6 DEF fvars, readerVars
  <2>2. Payload' = Payload /\ EncodedRow' = EncodedRow
    BY <2>1 DEF EncodedRow, Header, Payload
  <2>3. ForeignType' /\ (HeaderSoFar' <=> HeaderSoFar) /\ (NotEncodable' <=> NotEncodable)
    BY <2>1 DEF ForeignInv, ForeignType, HeaderSoFar, NotEncodable
  <2>4. ForeignPlace'
    BY <2>1, <2>2, <2>3 DEF ForeignInv, ForeignPlace
  <2>5. /\ EndsInPlace(Payload)' <=> EndsInPlace(Payload)
        /\ Pixels(Payload)' = Pixels(Payload)
    BY <2>2 DEF EndsInPlace, Ends, IsEnds, Pixels, Expanded, IsExpansion
  <2>6. Verdict'
    BY <2>1, <2>2, <2>3, <2>5 DEF ForeignInv, Verdict
  <2> QED
    BY <2>3, <2>4, <2>6 DEF ForeignInv
<1> QED
  BY <1>1, <1>2, <1>3, <1>4, <1>5, <1>6 DEF ForeignNext

LEMMA ForeignInductive == ASSUME NRows = 1 PROVE ForeignSpec => []ForeignInv
<1>1. ForeignInit => ForeignInv
  BY ForeignStarts
<1> QED
  BY <1>1, ForeignSteps, PTL DEF ForeignSpec

(* RleForeign: on any bytes that begin with a permitted header, whatever   *)
(* their number, freadcolrs accepts exactly the rows whose components end  *)
(* where packets end, and returns the values that the packets stand for.   *)
THEOREM ForeignAcceptance ==
  ASSUME NRows = 1
  PROVE  ForeignSpec => []AcceptsTheWellFormed
<1>1. ForeignInv => AcceptsTheWellFormed
  <2> SUFFICES ASSUME ForeignInv PROVE AcceptsTheWellFormed
    OBVIOUS
  <2>1. EncodedRow => Payload \in Seq(Byte)
    BY PayloadIs DEF ForeignInv, ForeignType, EncodedRow
  <2>2. WellFormed <=> EncodedRow /\ EndsInPlace(Payload)
    <3>1. CASE EncodedRow
      <4>1. PacketEnds(Payload) = Ends(Payload)[1]
        BY <2>1, <3>1, EndsAre
      <4> QED
        BY <3>1, <4>1 DEF WellFormed, EndsInPlace, Payload
    <3>2. CASE ~EncodedRow
      BY <3>2 DEF WellFormed
    <3> QED
      BY <3>1, <3>2
  <2>3. rpc = "old" => NotEncodable
    BY DEF ForeignInv, Verdict
  <2>4. rpc \in {"failed", "old"} => ~WellFormed
    BY <2>2 DEF ForeignInv, Verdict
  <2>5. ASSUME rpc = "done"
        PROVE  /\ WellFormed
               /\ delivered = << [c \in Comp |-> [x \in Col |->
                                   Expansion(Payload)[c * Width + x + 1]]] >>
    <3>1. EncodedRow /\ EndsInPlace(Payload) /\ delivered = <<Pixels(Payload)>>
      BY <2>5 DEF ForeignInv, Verdict
    <3>2. Expansion(Payload) = Expanded(Payload)[1]
      BY <2>1, <3>1, ExpandedIs
    <3>3. Comp = Comp /\ Col = Col
      BY DEF Comp, Col, Comp, Col
    <3> QED
      BY <2>2, <3>1, <3>2, <3>3 DEF Pixels
  <2> QED
    BY <2>3, <2>4, <2>5
    DEF AcceptsTheWellFormed, NotEncodable, Magic, Magic, Payload
<1> QED
  BY <1>1, ForeignInductive, PTL

(* RleForeign: no packet of any file, run or not, is stored beyond the end *)
(* of the component it began in: freadcolrs is at the end of a packet      *)
(* whenever it takes a code or ends a row, and holds the values up to it.  *)
THEOREM ForeignStaysInRow ==
  ASSUME NRows = 1
  PROVE  ForeignSpec => []StaysInRow
<1>1. ForeignInv => StaysInRow
  <2> SUFFICES ASSUME ForeignInv PROVE StaysInRow
    OBVIOUS
  <2>1. PICK s : s = Payload
    OBVIOUS
  <2>2. ASSUME EncodedRow
        PROVE  /\ s \in Seq(Byte) /\ PacketEnds(s) = Ends(s)[1]
               /\ Expansion(s) = Expanded(s)[1]
    <3>1. s \in Seq(Byte)
      BY <2>1, <2>2, PayloadIs DEF ForeignInv, ForeignType, EncodedRow
    <3> QED
      BY <3>1, EndsAre, ExpandedIs
  <2>3. rpc = "lit" => rj + code <= Width
    BY DEF ForeignInv, ForeignPlace, AtLiteral
  <2>4. ASSUME rpc = "code"
        PROVE  /\ rj < Width
               /\ ri * Width + rj \in PacketEnds(Payload)
               /\ \A c \in Comp, x \in Col : c < ri \/ (c = ri /\ x < rj) =>
                    buf[c][x] = Expansion(Payload)[c * Width + x + 1]
    <3>1. PICK k : k = rpos - 4 + 1
      OBVIOUS
    <3>2. EncodedRow /\ rj < Width /\ ReadTo(s, k, ri, rj, buf)
      BY <2>1, <2>4, <3>1 DEF ForeignInv, ForeignPlace, AtPacket
    <3>3. ri * Width + rj + 0 \in Ends(s)[1] <=> 0 \in Ends(s)[k]
      BY <3>2 DEF ReadTo
    <3>4. 0 \in Ends(s)[k]
      BY <2>2, <3>2, EmptyEnd DEF ReadTo
    <3>5. ri * Width + rj + 0 = ri * Width + rj
      BY WidthType, FormatAssumption DEF ForeignInv, ForeignType, Comp
    <3>6. \A c \in Comp, x \in Col : c < ri \/ (c = ri /\ x < rj) =>
            buf[c][x] = Expanded(s)[1][c * Width + x + 1]
      BY <3>2 DEF ReadTo
    <3> QED
      BY <2>1, <2>2, <3>2, <3>3, <3>4, <3>5, <3>6
  <2>5. ASSUME rpc = "done" PROVE NComp * Width \in PacketEnds(Payload)
    <3>1. EncodedRow /\ EndsInPlace(s)
      BY <2>1, <2>5 DEF ForeignInv, Verdict
    <3>2. NComp \in 1 .. NComp
      BY FormatAssumption DEF FormatAssumption
    <3> QED
      BY <2>1, <2>2, <3>1, <3>2 DEF EndsInPlace
  <2> QED
    BY <2>3, <2>4, <2>5 DEF StaysInRow
<1> QED
  BY <1>1, ForeignInductive, PTL
=============================================================================
