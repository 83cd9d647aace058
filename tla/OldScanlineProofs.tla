-------------------------- MODULE OldScanlineProofs --------------------------
(***************************************************************************)
(* What OldScanline promises, for every width, picture and split of the    *)
(* runs.  Nothing in the stream says how many pixels it stands for so far; *)
(* the proof gives every position of it its place in the picture, and      *)
(* shows that the writer made the token behind a position from the place   *)
(* there, and that the reader is at the place of the position it has read  *)
(* up to.  The places are not a variable: the invariant says that there    *)
(* are some.                                                               *)
(***************************************************************************)
EXTENDS OldScanline, NatLemmas, SequenceTheorems

(* A place: a row, the pixels of it that are done, and the digits of a     *)
(* count since the last pixel.                                             *)
At(r, x, s) == [row |-> r, x |-> x, shift |-> s]
Place       == [row : 0 .. NRows, x : Col, shift : Nat]
After(r, x, s) == IF x < len THEN At(r, x, s) ELSE At(r + 1, 0, 0)

(* A token t takes the stream from place p to place q. *)
PixelMove(p, t, q) ==
  t = img[p.row][p.x] /\ q = After(p.row, p.x + 1, 0)
MarkerMove(p, t, q) ==
  \E n \in Byte : LET x == p.x + n * Weight[p.shift]
                  IN  /\ t = Marker(n) /\ p.x > 0 /\ x <= len
                      /\ \A y \in p.x .. x - 1 : img[p.row][y] = img[p.row][p.x - 1]
                      /\ q = After(p.row, x, p.shift + 1)
Moves(p, t, q) == p.row < NRows /\ (PixelMove(p, t, q) \/ MarkerMove(p, t, q))

WriterPlace == IF wpc = "done" THEN At(NRows, 0, 0) ELSE At(wrow, wx, wshift)
ReaderPlace == At(Len(delivered), Len(line), rshift)

(* at gives every position of the stream its place. *)
Marks(at) ==
  /\ at \in [0 .. Len(stream) -> Place]
  /\ at[0] = At(0, 0, 0) /\ at[Len(stream)] = WriterPlace
  /\ \A i \in 0 .. Len(stream) - 1 : Moves(at[i], stream[i + 1], at[i + 1])
  /\ rpc \in {"type", "old"} => at[rpos] = ReaderPlace

WriterTypeOK ==
  /\ len \in Widths /\ img \in [Row -> [Col -> PixelOf(len)]]
  /\ stream \in Seq(COLR)
  /\ wpc \in {"row", "done", "dead"} /\ wrow \in Row /\ wx \in Col /\ wshift \in Nat

ReaderTypeOK ==
  /\ rpc \in {"type", "old", "done", "failed", "encoded"}
  /\ rpos \in 0 .. Len(stream)
  /\ line \in Seq(COLR) /\ rshift \in Nat
  /\ delivered \in Seq([Col -> Pixel])

ReaderInv ==
  /\ rpc \in {"type", "old"} => Len(delivered) < NRows
  /\ rpc = "type" => line = <<>> /\ rshift = 0

(* The inductive invariant.                                                *)
OldInv == /\ WriterTypeOK /\ ReaderTypeOK /\ ReaderInv
          /\ RowsAsWritten /\ LineIsPrefix
          /\ \E at : Marks(at)

-----------------------------------------------------------------------------
(* A digit counts so many pixels.                                          *)
LEMMA WeightType == Weight \in [Nat -> Nat \ {0}]
<1>1. 2 * Half \in Nat \ {0}
  BY OldAssumption DEF OldAssumption
<1>2. \E f : f = [s \in Nat |-> IF s = 0 THEN 1 ELSE 2 * Half * f[s - 1]]
  BY <1>1, PowersExist
<1>3. Weight = [s \in Nat |-> IF s = 0 THEN 1 ELSE 2 * Half * Weight[s - 1]]
  BY <1>2 DEF Weight
<1> QED
  BY <1>1, <1>3, PowersType

(* A pixel of the picture is no marker, and where rows are told apart by   *)
(* their first pixel it is no header.                                      *)
LEMMA PixelFacts ==
  ASSUME WriterTypeOK, NEW r \in Row, NEW x \in Col
  PROVE  /\ img[r][x] \in Pixel /\ img[r][x] \in COLR /\ ~IsMarker(img[r][x])
         /\ Encodable(len) /\ img[r][x].RED = 2 => img[r][x].GRN # 2 \/ img[r][x].BLU >= Half
<1> DEFINE p == img[r][x]
<1>1. p \in PixelOf(len)
  BY DEF WriterTypeOK
<1>2. p \in Pixel /\ Normalised(p, IF Encodable(len) THEN Half ELSE Half - 1)
  BY <1>1 DEF PixelOf
<1>3. p \in COLR
  BY <1>2, OldAssumption DEF OldAssumption
<1> HIDE DEF p
<1>4. ~IsMarker(p) /\ (Encodable(len) /\ p.RED = 2 => p.GRN # 2 \/ p.BLU >= Half)
  BY <1>2, <1>3, OldAssumption DEF OldAssumption, Normalised, IsMarker, COLR, Byte
<1> QED
  BY <1>2, <1>3, <1>4 DEF p

LEMMA WidthType == ASSUME WriterTypeOK PROVE len \in Nat \ {0} /\ NRows \in Nat \ {0}
BY OldAssumption DEF OldAssumption, WriterTypeOK

-----------------------------------------------------------------------------
(* The writer adds a token and a place.                                    *)
LEMMA Extend ==
  ASSUME OldInv, wpc = "row", NEW t \in COLR, NEW x \in 1 .. len, NEW s \in Nat,
         Moves(WriterPlace, t, After(wrow, x, s)),
         stream' = Append(stream, t), Written(x),
         wshift' = IF x < len THEN s ELSE 0,
         UNCHANGED <<len, img, readerVars>>
  PROVE  OldInv'
<1>1. len \in Nat \ {0} /\ NRows \in Nat \ {0} /\ wrow \in Row
  BY WidthType DEF OldInv, WriterTypeOK
<1>2. /\ stream' \in Seq(COLR) /\ Len(stream) \in Nat /\ Len(stream') = Len(stream) + 1
      /\ \A i \in 1 .. Len(stream) : stream'[i] = stream[i]
      /\ stream'[Len(stream) + 1] = t
  BY AppendProperties DEF OldInv, WriterTypeOK
<1>3. /\ WriterPlace' = After(wrow, x, s) /\ After(wrow, x, s) \in Place
      /\ wpc' \in {"row", "done"} /\ wrow' \in Row /\ wx' \in Col /\ wshift' \in Nat
  <2>1. CASE x < len
    BY <1>1, <2>1 DEF Written, WriterPlace, After, At, Place, Col, Row
  <2>2. CASE ~(x < len)
    <3>1. CASE wrow < NRows - 1
      BY <1>1, <2>2, <3>1 DEF Written, WriterPlace, After, At, Place, Col, Row
    <3>2. CASE ~(wrow < NRows - 1)
      BY <1>1, <2>2, <3>2 DEF Written, WriterPlace, After, At, Place, Col, Row
    <3> QED
      BY <3>1, <3>2
  <2> QED
    BY <2>1, <2>2
<1>4. WriterTypeOK'
  BY <1>2, <1>3 DEF OldInv, WriterTypeOK, Col, PixelOf, Encodable
<1>5. ReaderTypeOK' /\ ReaderInv' /\ RowsAsWritten' /\ rpos \in 0 .. Len(stream)
  <2>1. ReaderTypeOK' /\ rpos \in 0 .. Len(stream)
    BY <1>2 DEF OldInv, ReaderTypeOK, readerVars, Col
  <2> QED
    BY <2>1 DEF OldInv, ReaderInv, RowsAsWritten, readerVars
<1>6. LineIsPrefix'
  BY DEF OldInv, LineIsPrefix, readerVars
<1>7. PICK at : Marks(at)
  BY DEF OldInv
<1>ext. PICK new : new = [i \in 0 .. Len(stream) + 1 |->
                          IF i <= Len(stream) THEN at[i] ELSE After(wrow, x, s)]
  OBVIOUS
<1>8. new \in [0 .. Len(stream') -> Place]
  BY <1>2, <1>3, <1>7, <1>ext DEF Marks, Place, Col
<1>9. new[0] = At(0, 0, 0) /\ new[Len(stream')] = WriterPlace'
      /\ \A i \in 0 .. Len(stream) : new[i] = at[i]
  BY <1>2, <1>3, <1>7, <1>ext DEF Marks
<1>10. ASSUME NEW i \in 0 .. Len(stream') - 1
       PROVE  Moves(new[i], stream[i + 1], new[i + 1])'
  <2>1. CASE i = Len(stream)
    <3>1. new[i] = WriterPlace /\ new[i + 1] = After(wrow, x, s) /\ stream'[i + 1] = t
      BY <1>2, <1>3, <1>7, <1>9, <2>1 DEF Marks
    <3> QED
      BY <3>1 DEF Moves, PixelMove, MarkerMove, After
  <2>2. CASE i # Len(stream)
    <3>1. i \in 0 .. Len(stream) - 1 /\ i \in 0 .. Len(stream) /\ i + 1 \in 0 .. Len(stream)
          /\ i + 1 \in 1 .. Len(stream)
      BY <1>2, <2>2
    <3>2. new[i] = at[i] /\ new[i + 1] = at[i + 1] /\ stream'[i + 1] = stream[i + 1]
      BY <1>2, <1>9, <3>1
    <3>3. Moves(at[i], stream[i + 1], at[i + 1])
      BY <1>7, <3>1 DEF Marks
    <3>4. Moves(new[i], stream'[i + 1], new[i + 1])
      BY <3>2, <3>3
    <3> QED
      BY <3>4 DEF Moves, PixelMove, MarkerMove, After
  <2> QED
    BY <2>1, <2>2
<1>11. rpc' \in {"type", "old"} => new[rpos'] = ReaderPlace'
  BY <1>5, <1>7, <1>9 DEF Marks, ReaderPlace, readerVars
<1>12. Marks(new)'
  BY <1>8, <1>9, <1>10, <1>11 DEF Marks, Place, Col
<1> QED
  BY <1>4, <1>5, <1>6, <1>12 DEF OldInv

LEMMA WritePixelInv == OldInv /\ WritePixel => OldInv'
<1> SUFFICES ASSUME OldInv, WritePixel PROVE OldInv'
  OBVIOUS
<1>1. len \in Nat \ {0} /\ wrow \in Row /\ wx \in Col /\ WriterTypeOK
  BY WidthType DEF OldInv, WriterTypeOK
<1>2. WriterPlace = At(wrow, wx, wshift) /\ wrow < NRows /\ wx + 1 \in 1 .. len
  BY <1>1, OldAssumption DEF OldAssumption, WritePixel, WriterPlace, Row, Col
<1>3. Moves(WriterPlace, img[wrow][wx], After(wrow, wx + 1, 0))
  BY <1>2 DEF Moves, PixelMove, At
<1>4. img[wrow][wx] \in COLR
  BY <1>1, PixelFacts
<1> QED
  BY <1>2, <1>3, <1>4, Extend DEF WritePixel

LEMMA WriteMarkerInv == OldInv /\ WriteMarker => OldInv'
<1> SUFFICES ASSUME OldInv, WriteMarker PROVE OldInv'
  OBVIOUS
<1>1. len \in Nat \ {0} /\ wrow \in Row /\ wx \in Col /\ wshift \in Nat /\ wpc = "row" /\ wx > 0
  BY WidthType DEF OldInv, WriterTypeOK, WriteMarker
<1>2. WriterPlace = At(wrow, wx, wshift) /\ wrow < NRows
  BY <1>1, OldAssumption DEF OldAssumption, WriterPlace, Row
<1>3. PICK n \in Byte :
        LET x == wx + n * Weight[wshift]
        IN  /\ x <= len /\ \A y \in wx .. x - 1 : img[wrow][y] = img[wrow][wx - 1]
            /\ stream' = Append(stream, Marker(n))
            /\ wshift' = IF x < len THEN wshift + 1 ELSE 0
            /\ Written(x)
  BY DEF WriteMarker
<1> DEFINE x == wx + n * Weight[wshift]
<1>4. Moves(WriterPlace, Marker(n), After(wrow, x, wshift + 1))
  BY <1>1, <1>2, <1>3 DEF Moves, MarkerMove, At
<1>5. Marker(n) \in COLR
  BY <1>3, OldAssumption DEF OldAssumption, Marker, COLR, Byte
<1>6. x \in 1 .. len
  <2>1. n \in Nat /\ Weight[wshift] \in Nat
    BY <1>1, WeightType, OldAssumption DEF OldAssumption, Byte
  <2>2. n * Weight[wshift] \in Nat
    BY <2>1
  <2> QED
    BY <1>1, <1>3, <2>2 DEF Col
<1>7. UNCHANGED <<len, img, readerVars>> /\ wshift + 1 \in Nat
  BY <1>1 DEF WriteMarker
<1> HIDE DEF x
<1>8. stream' = Append(stream, Marker(n)) /\ Written(x)
      /\ wshift' = IF x < len THEN wshift + 1 ELSE 0
  BY <1>3 DEF x
<1> QED
  BY <1>1, <1>4, <1>5, <1>6, <1>7, <1>8, Extend

(* The places stay while the stream does.                                  *)
LEMMA MarksKept ==
  ASSUME NEW at, Marks(at), UNCHANGED <<len, img, stream>>, WriterPlace' = WriterPlace,
         rpc' \in {"type", "old"} => at[rpos'] = ReaderPlace'
  PROVE  Marks(at)'
BY DEF Marks, Place, Col, Moves, PixelMove, MarkerMove, After

LEMMA StopInv == OldInv /\ Stop => OldInv'
<1> SUFFICES ASSUME OldInv, Stop PROVE OldInv'
  OBVIOUS
<1>1. /\ UNCHANGED <<len, img, stream, wrow, wx, wshift>> /\ UNCHANGED readerVars
      /\ wpc = "row" /\ wpc' = "dead"
  BY DEF Stop
<1>2. WriterTypeOK' /\ ReaderTypeOK' /\ ReaderInv' /\ RowsAsWritten' /\ LineIsPrefix'
  BY <1>1 DEF OldInv, WriterTypeOK, ReaderTypeOK, ReaderInv, RowsAsWritten, LineIsPrefix,
       readerVars, Col, PixelOf, Encodable
<1>3. PICK at : Marks(at)
  BY DEF OldInv
<1>4. WriterPlace' = WriterPlace /\ ReaderPlace' = ReaderPlace
  BY <1>1 DEF WriterPlace, ReaderPlace, readerVars
<1>5. UNCHANGED rpc /\ UNCHANGED rpos /\ (rpc \in {"type", "old"} => at[rpos] = ReaderPlace)
  BY <1>1, <1>3 DEF readerVars, Marks
<1>6. Marks(at)'
  BY <1>1, <1>3, <1>4, <1>5, MarksKept
<1> QED
  BY <1>2, <1>6 DEF OldInv

-----------------------------------------------------------------------------
(* The token that the reader has in front of it was made at the reader's   *)
(* place.                                                                  *)
LEMMA NextToken ==
  ASSUME OldInv, NEW at, Marks(at), rpc \in {"type", "old"}, PixelReady
  PROVE  /\ Moves(ReaderPlace, next, at[rpos + 1]) /\ next \in COLR
         /\ rpos + 1 \in 0 .. Len(stream)
<1>1. rpos \in 0 .. Len(stream) - 1 /\ Len(stream) \in Nat /\ rpos + 1 \in 1 .. Len(stream)
  BY DEF OldInv, WriterTypeOK, ReaderTypeOK, PixelReady
<1>2. at[rpos] = ReaderPlace /\ Moves(at[rpos], stream[rpos + 1], at[rpos + 1])
  BY <1>1 DEF Marks
<1> QED
  BY <1>1, <1>2 DEF next, OldInv, WriterTypeOK

(* The reader goes on when what it has of the row is the beginning of it,  *)
(* and its place that of the next position.                                *)
LEMMA FilledInv ==
  ASSUME OldInv, NEW at, Marks(at), rpc \in {"type", "old"}, PixelReady,
         NEW l \in Seq(COLR), NEW s \in Nat, Len(l) \in 1 .. len,
         \A y \in 1 .. Len(l) : l[y] = img[Len(delivered)][y - 1],
         at[rpos + 1] = After(Len(delivered), Len(l), s),
         rpos' = rpos + 1, Filled(l, s), UNCHANGED <<len, img, writerVars>>
  PROVE  OldInv'
<1>1. len \in Nat \ {0} /\ NRows \in Nat \ {0} /\ WriterTypeOK
  BY WidthType DEF OldInv
<1>2. UNCHANGED stream /\ UNCHANGED wpc /\ UNCHANGED wrow /\ UNCHANGED wx /\ UNCHANGED wshift
      /\ WriterPlace' = WriterPlace
  BY DEF writerVars, WriterPlace
<1>3. WriterTypeOK' /\ rpos' \in 0 .. Len(stream')
  BY <1>2, NextToken DEF OldInv, WriterTypeOK, Col, PixelOf, Encodable
<1>4. Len(delivered) \in Nat /\ Len(delivered) < NRows /\ delivered \in Seq([Col -> Pixel])
  BY DEF OldInv, ReaderInv, ReaderTypeOK
<1>5. SUFFICES /\ ReaderTypeOK' /\ ReaderInv' /\ RowsAsWritten' /\ LineIsPrefix'
               /\ rpc' \in {"type", "old"} => at[rpos'] = ReaderPlace'
  <2>1. ASSUME rpc' \in {"type", "old"} => at[rpos'] = ReaderPlace' PROVE Marks(at)'
    BY <1>2, <2>1, MarksKept
  <2> QED
    BY <1>3, <2>1 DEF OldInv
<1>6. CASE Len(l) < len
  <2>1. rpc' = "old" /\ line' = l /\ rshift' = s /\ UNCHANGED delivered
    BY <1>6 DEF Filled
  <2>2. ReaderTypeOK' /\ ReaderInv'
    BY <1>3, <1>4, <2>1 DEF OldInv, ReaderTypeOK, ReaderInv, Col
  <2>3. RowsAsWritten' /\ LineIsPrefix'
    BY <1>6, <2>1 DEF OldInv, RowsAsWritten, LineIsPrefix
  <2>4. at[rpos'] = ReaderPlace'
    BY <1>6, <2>1 DEF ReaderPlace, After
  <2> QED
    BY <2>2, <2>3, <2>4
<1>7. CASE Len(l) = len
  <2> DEFINE row == [y \in Col |-> l[y + 1]]
  <2>1. /\ line' = <<>> /\ rshift' = 0 /\ delivered' = Append(delivered, row)
        /\ rpc' = IF Len(delivered) + 1 < NRows THEN "type" ELSE "done"
    BY <1>1, <1>7 DEF Filled
  <2>2. row = img[Len(delivered)] /\ row \in [Col -> Pixel]
    <3>1. Len(delivered) \in Row
      BY <1>1, <1>4 DEF Row
    <3>2. \A y \in Col : y + 1 \in 1 .. Len(l) /\ (y + 1) - 1 = y
      BY <1>1, <1>7 DEF Col
    <3>3. \A y \in Col : row[y] = img[Len(delivered)][y]
      BY <3>2
    <3>4. img[Len(delivered)] \in [Col -> PixelOf(len)]
      BY <1>1, <3>1 DEF WriterTypeOK
    <3> QED
      BY <3>3, <3>4 DEF PixelOf
  <2> HIDE DEF row
  <2>3. /\ delivered' \in Seq([Col -> Pixel]) /\ Len(delivered') = Len(delivered) + 1
        /\ \A r \in 1 .. Len(delivered) : delivered'[r] = delivered[r]
        /\ delivered'[Len(delivered) + 1] = img[Len(delivered)]
    BY <1>4, <2>1, <2>2, AppendProperties
  <2>4. ReaderTypeOK' /\ ReaderInv'
    BY <1>1, <1>3, <1>4, <2>1, <2>3 DEF OldInv, ReaderTypeOK, ReaderInv, Col
  <2>5. RowsAsWritten'
    <3>1. \A r \in 1 .. Len(delivered') : r \in 1 .. Len(delivered) \/ r = Len(delivered) + 1
      BY <1>4, <2>3
    <3>2. \A r \in 1 .. Len(delivered) : delivered'[r] = img[r - 1]
      BY <2>3 DEF OldInv, RowsAsWritten
    <3>3. (Len(delivered) + 1) - 1 = Len(delivered)
      BY <1>4
    <3>4. \A r \in 1 .. Len(delivered') : delivered'[r] = img[r - 1]
      BY <2>3, <3>1, <3>2, <3>3
    <3> QED
      BY <3>4 DEF RowsAsWritten
  <2>6. LineIsPrefix'
    BY <1>1, <2>1 DEF OldInv, LineIsPrefix
  <2>7. at[rpos'] = ReaderPlace'
    BY <1>1, <1>7, <2>1, <2>3 DEF ReaderPlace, After
  <2> QED
    BY <2>4, <2>5, <2>6, <2>7
<1> QED
  BY <1>1, <1>6, <1>7

(* A row begins with a pixel, which is no header.                          *)
LEMMA ScanlineTypeInv == OldInv /\ ScanlineType => OldInv'
<1> SUFFICES ASSUME OldInv, ScanlineType PROVE OldInv'
  OBVIOUS
<1>1. /\ rpc = "type" /\ PixelReady /\ UNCHANGED <<len, img, writerVars>>
      /\ line = <<>> /\ Len(line) = 0 /\ rshift = 0
  BY DEF ScanlineType, OldInv, ReaderInv
<1>2. PICK at : Marks(at)
  BY DEF OldInv
<1>3. len \in Nat \ {0} /\ WriterTypeOK /\ Len(delivered) \in Row
  BY <1>1, WidthType DEF OldInv, ReaderTypeOK, ReaderInv, Row
<1>4. PixelMove(ReaderPlace, next, at[rpos + 1]) /\ next \in COLR
  BY <1>1, <1>2, NextToken DEF Moves, MarkerMove, ReaderPlace, At
<1>5. next = img[Len(delivered)][0] /\ at[rpos + 1] = After(Len(delivered), 1, 0)
  BY <1>1, <1>4 DEF PixelMove, ReaderPlace, At
<1>6. Encodable(len) /\ next.RED = 2 => next.GRN # 2 \/ next.BLU >= Half
  BY <1>3, <1>5, PixelFacts DEF Col
<1>7. CASE rpc' = "old" /\ UNCHANGED <<rpos, line, rshift, delivered>>
  <2>1. /\ UNCHANGED stream /\ at[rpos'] = ReaderPlace'
        /\ WriterPlace' = WriterPlace
    BY <1>1, <1>2, <1>7 DEF Marks, writerVars, ReaderPlace, WriterPlace
  <2>4. Marks(at)'
    BY <1>1, <1>2, <2>1, MarksKept
  <2> QED
    BY <1>1, <1>7, <2>4
       DEF OldInv, WriterTypeOK, ReaderTypeOK, ReaderInv, RowsAsWritten, LineIsPrefix,
           writerVars, Col, PixelOf, Encodable
<1>8. CASE rpos' = rpos + 1 /\ Filled(<<next>>, 0)
  <2> DEFINE l == <<next>>
  <2>1. l \in Seq(COLR) /\ Len(l) = 1 /\ l[1] = next
    BY <1>4
  <2>2. \A y \in 1 .. Len(l) : l[y] = img[Len(delivered)][y - 1]
    BY <1>5, <2>1
  <2>3. Filled(l, 0) /\ Len(l) \in 1 .. len /\ at[rpos + 1] = After(Len(delivered), Len(l), 0)
    BY <1>3, <1>5, <1>8, <2>1
  <2> HIDE DEF l
  <2> QED
    BY <1>1, <1>2, <1>3, <1>5, <1>8, <2>1, <2>2, <2>3, FilledInv
<1> QED
  BY <1>3, <1>4, <1>6, <1>7, <1>8, OldAssumption DEF ScanlineType, OldAssumption, COLR, Byte

LEMMA OldPixelInv == OldInv /\ OldPixel => OldInv'
<1> SUFFICES ASSUME OldInv, OldPixel PROVE OldInv'
  OBVIOUS
<1>1. /\ rpc = "old" /\ PixelReady /\ ~IsMarker(next) /\ UNCHANGED <<len, img, writerVars>>
      /\ rpos' = rpos + 1 /\ Filled(Append(line, next), 0)
  BY DEF OldPixel
<1>2. PICK at : Marks(at)
  BY DEF OldInv
<1>3. len \in Nat \ {0} /\ line \in Seq(COLR) /\ Len(line) \in Nat /\ Len(line) < len
  BY <1>1, WidthType DEF OldInv, ReaderTypeOK, LineIsPrefix
<1>4. PixelMove(ReaderPlace, next, at[rpos + 1]) /\ next \in COLR
  BY <1>1, <1>2, NextToken DEF Moves, MarkerMove, IsMarker, Marker
<1>5. next = img[Len(delivered)][Len(line)]
      /\ at[rpos + 1] = After(Len(delivered), Len(line) + 1, 0)
  BY <1>4 DEF PixelMove, ReaderPlace, At
<1> DEFINE l == Append(line, next)
<1>6. /\ l \in Seq(COLR) /\ Len(l) = Len(line) + 1
      /\ \A y \in 1 .. Len(line) : l[y] = line[y]
      /\ l[Len(line) + 1] = next
  BY <1>3, <1>4, AppendProperties
<1>7. Filled(l, 0) /\ Len(l) \in 1 .. len /\ at[rpos + 1] = After(Len(delivered), Len(l), 0)
  BY <1>1, <1>3, <1>5, <1>6
<1> HIDE DEF l
<1>8. \A y \in 1 .. Len(l) : l[y] = img[Len(delivered)][y - 1]
  <2>1. \A y \in 1 .. Len(l) : y \in 1 .. Len(line) \/ y = Len(line) + 1
    BY <1>3, <1>6
  <2>2. \A y \in 1 .. Len(line) : line[y] = img[Len(delivered)][y - 1]
    BY <1>1 DEF OldInv, LineIsPrefix
  <2>3. \A y \in 1 .. Len(line) : l[y] = img[Len(delivered)][y - 1]
    BY <1>6, <2>2
  <2>4. l[Len(line) + 1] = img[Len(delivered)][(Len(line) + 1) - 1]
    BY <1>3, <1>5, <1>6
  <2> QED
    BY <2>1, <2>3, <2>4
<1> QED
  BY <1>1, <1>2, <1>6, <1>7, <1>8, FilledInv

(* The copies that a marker asks for are within the row, and equal to it.  *)
LEMMA OldMarkerInv == OldInv /\ OldMarker => OldInv'
<1> SUFFICES ASSUME OldInv, OldMarker PROVE OldInv'
  OBVIOUS
<1>1. /\ rpc = "old" /\ PixelReady /\ IsMarker(next) /\ UNCHANGED <<len, img, writerVars>>
      /\ rpos' = rpos + 1
  BY DEF OldMarker
<1>2. PICK at : Marks(at)
  BY DEF OldInv
<1>3. /\ len \in Nat \ {0} /\ line \in Seq(COLR) /\ Len(line) \in Nat /\ Len(line) < len
      /\ rshift \in Nat /\ Len(delivered) \in Row /\ WriterTypeOK
  BY <1>1, WidthType DEF OldInv, ReaderTypeOK, ReaderInv, LineIsPrefix, Row
<1>4. MarkerMove(ReaderPlace, next, at[rpos + 1])
  <2>1. ASSUME next = img[Len(delivered)][Len(line)] PROVE FALSE
    BY <1>1, <1>3, <2>1, PixelFacts DEF Col
  <2> QED
    BY <1>1, <1>2, <2>1, NextToken DEF Moves, PixelMove, ReaderPlace, At
<1> DEFINE c == next.EXP * Weight[rshift]
           x == Len(line) + c
<1>5. /\ Len(line) > 0 /\ x <= len /\ next.EXP \in Byte
      /\ \A y \in Len(line) .. x - 1 :
            img[Len(delivered)][y] = img[Len(delivered)][Len(line) - 1]
      /\ at[rpos + 1] = After(Len(delivered), x, rshift + 1)
  <2>1. PICK n \in Byte : LET z == Len(line) + n * Weight[rshift]
          IN  /\ next = Marker(n) /\ Len(line) > 0 /\ z <= len
              /\ \A y \in Len(line) .. z - 1 :
                    img[Len(delivered)][y] = img[Len(delivered)][Len(line) - 1]
              /\ at[rpos + 1] = After(Len(delivered), z, rshift + 1)
    BY <1>4 DEF MarkerMove, ReaderPlace, At
  <2>2. next.EXP = n
    BY <2>1 DEF Marker
  <2> QED
    BY <2>1, <2>2
<1>6. c \in Nat
  <2>1. Weight[rshift] \in Nat
    BY <1>3, WeightType
  <2>2. next.EXP \in Nat
    BY <1>5, OldAssumption DEF OldAssumption, Byte
  <2> QED
    BY <2>1, <2>2
<1> DEFINE copies == [k \in 1 .. c |-> line[Len(line)]]
           l == line \o copies
<1>7. Filled(l, rshift + 1)
  BY DEF OldMarker
<1> HIDE DEF c
<1>8. copies \in Seq(COLR) /\ Len(copies) = c /\ \A k \in 1 .. c : copies[k] = line[Len(line)]
  <2>1. line[Len(line)] \in COLR
    BY <1>3, <1>5
  <2>2. copies \in [1 .. c -> COLR]
    BY <2>1
  <2> QED
    BY <1>6, <2>2, SeqDef, LenProperties
<1> HIDE DEF copies
<1>9. /\ l \in Seq(COLR) /\ Len(l) = x
      /\ \A y \in 1 .. x : l[y] = IF y <= Len(line) THEN line[y] ELSE copies[y - Len(line)]
  BY <1>3, <1>6, <1>8, ConcatProperties
<1> HIDE DEF l
<1>10. \A y \in 1 .. Len(l) : l[y] = img[Len(delivered)][y - 1]
  <2>1. \A y \in 1 .. Len(line) : line[y] = img[Len(delivered)][y - 1]
    BY <1>1 DEF OldInv, LineIsPrefix
  <2>2. line[Len(line)] = img[Len(delivered)][Len(line) - 1]
    BY <1>3, <1>5, <2>1
  <2>3. ASSUME NEW y \in 1 .. Len(l) PROVE l[y] = img[Len(delivered)][y - 1]
    <3>1. CASE y <= Len(line)
      BY <1>3, <1>6, <1>9, <2>1, <3>1
    <3>2. CASE y > Len(line)
      <4>1. y - Len(line) \in 1 .. c /\ y - 1 \in Len(line) .. x - 1
        BY <1>3, <1>6, <1>9, <3>2
      <4>2. l[y] = line[Len(line)]
        BY <1>3, <1>6, <1>8, <1>9, <3>2, <4>1
      <4> QED
        BY <1>5, <2>2, <4>1, <4>2
    <3> QED
      BY <1>3, <1>9, <3>1, <3>2
  <2> QED
    BY <2>3
<1>11. Len(l) \in 1 .. len /\ at[rpos + 1] = After(Len(delivered), Len(l), rshift + 1)
  BY <1>3, <1>5, <1>6, <1>9
<1> HIDE DEF x
<1>12. rpc \in {"type", "old"} /\ rshift + 1 \in Nat
  BY <1>1, <1>3
<1> QED
  BY <1>1, <1>2, <1>7, <1>9, <1>10, <1>11, <1>12, FilledInv

(* A reader that waits for more than there is has lost its writer: one     *)
(* that is done has left the stream at the end of the picture.             *)
LEMMA EndOfFileInv == OldInv /\ EndOfFile => OldInv'
<1> SUFFICES ASSUME OldInv, EndOfFile PROVE OldInv'
  OBVIOUS
<1>1. /\ rpc \in {"type", "old"} /\ ~PixelReady /\ wpc \in {"done", "dead"} /\ rpc' = "failed"
      /\ UNCHANGED <<len, img, writerVars, rpos, line, rshift, delivered>>
  BY DEF EndOfFile
<1>2. PICK at : Marks(at)
  BY DEF OldInv
<1>3. rpos = Len(stream)
  BY <1>1 DEF PixelReady, OldInv, WriterTypeOK, ReaderTypeOK
<1>4. wpc = "dead"
  <2>1. ASSUME wpc = "done" PROVE FALSE
    <3>1. At(NRows, 0, 0) = ReaderPlace
      BY <1>1, <1>2, <1>3, <2>1 DEF Marks, WriterPlace
    <3>2. Len(delivered) = NRows
      BY <3>1 DEF ReaderPlace, At
    <3> QED
      BY <1>1, <3>2, OldAssumption DEF OldAssumption, OldInv, ReaderInv
  <2> QED
    BY <1>1, <2>1
<1>5. Marks(at)'
  <2>1. UNCHANGED stream /\ WriterPlace' = WriterPlace
    BY <1>1 DEF writerVars, WriterPlace
  <2> QED
    BY <1>1, <1>2, <2>1, MarksKept
<1>6. UNCHANGED <<stream, wpc, wrow, wx, wshift>>
  BY <1>1 DEF writerVars
<1>7. WriterTypeOK' /\ ReaderTypeOK' /\ ReaderInv'
  BY <1>1, <1>6
     DEF OldInv, WriterTypeOK, ReaderTypeOK, ReaderInv, Col, PixelOf, Encodable
<1>8. RowsAsWritten' /\ LineIsPrefix'
  BY <1>1, <1>4, <1>6 DEF OldInv, RowsAsWritten, LineIsPrefix
<1> QED
  BY <1>5, <1>7, <1>8 DEF OldInv

LEMMA InitOldInv == Init => OldInv
<1> SUFFICES ASSUME Init PROVE OldInv
  OBVIOUS
<1>1. /\ len \in Widths /\ img \in [Row -> [Col -> PixelOf(len)]]
      /\ stream = <<>> /\ wpc = "row" /\ wrow = 0 /\ wx = 0 /\ wshift = 0
      /\ rpc = "type" /\ rpos = 0 /\ line = <<>> /\ rshift = 0 /\ delivered = <<>>
  BY DEF Init
<1>2. Len(stream) = 0 /\ Len(line) = 0 /\ Len(delivered) = 0
      /\ len \in Nat \ {0} /\ NRows \in Nat \ {0}
  BY <1>1, OldAssumption DEF OldAssumption
<1>3. WriterTypeOK /\ ReaderTypeOK /\ ReaderInv
  BY <1>1, <1>2 DEF WriterTypeOK, ReaderTypeOK, ReaderInv, Row, Col
<1>4. RowsAsWritten /\ LineIsPrefix
  BY <1>1, <1>2 DEF RowsAsWritten, LineIsPrefix
<1>5. Marks([i \in 0 .. 0 |-> At(0, 0, 0)])
  <2>1. At(0, 0, 0) \in Place
    BY <1>2 DEF At, Place, Col
  <2> QED
    BY <1>1, <1>2, <2>1 DEF Marks, WriterPlace, ReaderPlace
<1> QED
  BY <1>3, <1>4, <1>5 DEF OldInv

LEMMA StutterOldInv == OldInv /\ UNCHANGED vars => OldInv'
<1> SUFFICES ASSUME OldInv, UNCHANGED vars PROVE OldInv'
  OBVIOUS
<1>1. UNCHANGED <<len, img, stream, wpc, wrow, wx, wshift>>
      /\ UNCHANGED <<rpc, rpos, line, rshift, delivered>>
  BY DEF vars, writerVars, readerVars
<1>2. PICK at : Marks(at)
  BY DEF OldInv
<1>3. Marks(at)'
  <2>1. WriterPlace' = WriterPlace /\ ReaderPlace' = ReaderPlace
    BY <1>1 DEF WriterPlace, ReaderPlace
  <2>2. rpc \in {"type", "old"} => at[rpos] = ReaderPlace
    BY <1>2 DEF Marks
  <2> QED
    BY <1>1, <1>2, <2>1, <2>2, MarksKept
<1>4. WriterTypeOK' /\ ReaderTypeOK' /\ ReaderInv'
  BY <1>1 DEF OldInv, WriterTypeOK, ReaderTypeOK, ReaderInv, Col, PixelOf, Encodable
<1>5. RowsAsWritten' /\ LineIsPrefix'
  BY <1>1 DEF OldInv, RowsAsWritten, LineIsPrefix
<1> QED
  BY <1>3, <1>4, <1>5 DEF OldInv

LEMMA OldInvInvariant == Spec => []OldInv
<1>1. OldInv /\ [Next]_vars => OldInv'
  BY WritePixelInv, WriteMarkerInv, StopInv, ScanlineTypeInv, OldPixelInv, OldMarkerInv,
     EndOfFileInv, StutterOldInv DEF Next, Finished
<1> QED
  BY <1>1, InitOldInv, PTL DEF Spec

-----------------------------------------------------------------------------
(* OldScanline!RowsAsWritten: every row that freadcolrs returns from a     *)
(* flat or an old picture is the row that was written, whatever way the    *)
(* writer split its runs.                                                  *)
THEOREM OldRowsLossless == Spec => []RowsAsWritten
<1>1. OldInv => RowsAsWritten
  BY DEF OldInv
<1> QED
  BY <1>1, OldInvInvariant, PTL

(* OldScanline!LineIsPrefix: oldreadcolrs, which does not check, never     *)
(* copies a pixel beyond the row, and freadcolrs refuses only a stream     *)
(* that breaks off and takes no row for an encoded one.                    *)
THEOREM OldRunsFit == Spec => []LineIsPrefix
<1>1. OldInv => LineIsPrefix
  BY DEF OldInv
<1> QED
  BY <1>1, OldInvInvariant, PTL

(* OldScanline!RefinesTransfer: flat and old scanlines implement the       *)
(* transfer of rows that the readers of pictures rely on.                  *)
THEOREM OldRefinement == Spec => RefinesTransfer
<1>1. Init => Transfer!Init
  <2> SUFFICES ASSUME Init PROVE Transfer!Init
    OBVIOUS
  <2>1. [Col -> PixelOf(len)] \in {[0 .. w - 1 -> PixelOf(w)] : w \in Widths}
    BY DEF Init, Col
  <2>2. img \in [Row -> UNION {[0 .. w - 1 -> PixelOf(w)] : w \in Widths}]
    BY <2>1 DEF Init
  <2> QED
    BY <2>2 DEF Init, Transfer!Init
<1>2. OldInv /\ OldInv' /\ [Next]_vars => [Transfer!Next]_(Transfer!vars)
  <2> SUFFICES ASSUME OldInv, OldInv', [Next]_vars PROVE [Transfer!Next]_(Transfer!vars)
    OBVIOUS
  <2> DEFINE open == rpc \in {"type", "old"}
  <2>1. ASSUME UNCHANGED <<img, delivered>>, open,
               rpc' \in {"type", "old"} \/ rpc' \in {"failed", "encoded"}
        PROVE  [Transfer!Next]_(Transfer!vars)
    BY <2>1 DEF Transfer!Next, Transfer!BreakOff, Transfer!vars
  <2>2. ASSUME UNCHANGED <<img, readerVars>> PROVE [Transfer!Next]_(Transfer!vars)
    BY <2>2 DEF Transfer!vars, readerVars
  <2>3. ASSUME NEW l, NEW s, Filled(l, s), open, UNCHANGED <<len, img>>
        PROVE  [Transfer!Next]_(Transfer!vars)
    <3>1. CASE UNCHANGED delivered /\ rpc' = "old"
      BY <2>1, <2>3, <3>1
    <3>2. CASE /\ delivered' = Append(delivered, [y \in Col |-> l[y + 1]])
               /\ rpc' = IF Len(delivered) + 1 < NRows THEN "type" ELSE "done"
      <4> DEFINE b == [y \in Col |-> l[y + 1]]
      <4>1. /\ delivered \in Seq([Col -> Pixel]) /\ delivered' \in Seq([Col -> Pixel])
        <5>1. Col' = Col
          BY <2>3 DEF Col
        <5> QED
          BY <5>1 DEF OldInv, ReaderTypeOK
      <4> HIDE DEF b
      <4>2. delivered' = Append(delivered, b)
        BY <3>2 DEF b
      <4>3. Len(delivered') = Len(delivered) + 1 /\ Len(delivered) \in Nat
              /\ delivered'[Len(delivered) + 1] = b
        BY <4>1, <4>2
      <4>4. delivered'[Len(delivered) + 1] = img'[(Len(delivered) + 1) - 1]
        BY <4>3 DEF OldInv, RowsAsWritten
      <4>5. delivered' = Append(delivered, img[Len(delivered)])
        BY <2>3, <4>2, <4>3, <4>4
      <4> QED
        BY <2>3, <3>2, <4>5 DEF Transfer!Next, Transfer!Deliver
    <3> QED
      BY <2>3, <3>1, <3>2 DEF Filled
  <2>4. CASE WritePixel \/ WriteMarker \/ Stop
    BY <2>2, <2>4 DEF WritePixel, WriteMarker, Stop
  <2>5. CASE ScanlineType
    BY <2>1, <2>3, <2>5 DEF ScanlineType
  <2>6. CASE OldPixel
    BY <2>3, <2>6 DEF OldPixel
  <2>7. CASE OldMarker
    BY <2>3, <2>7 DEF OldMarker
  <2>8. CASE EndOfFile
    BY <2>1, <2>8 DEF EndOfFile
  <2>9. CASE UNCHANGED vars
    BY <2>2, <2>9 DEF vars, readerVars
  <2> QED
    BY <2>4, <2>5, <2>6, <2>7, <2>8, <2>9 DEF Next, Finished
<1> QED
  BY <1>1, <1>2, OldInvInvariant, PTL DEF Spec, RefinesTransfer, Transfer!Spec
=============================================================================
