----------------------------- MODULE OldScanline -----------------------------
(***************************************************************************)
(* The scanlines that are not encoded by components: the flat ones that    *)
(* fwritecolrs writes when the width is out of the encoder's range, and    *)
(* those of old Radiance files, where a pixel (1,1,1,n) stands for n more  *)
(* copies of the pixel before it, and several such in a row for the digits *)
(* of a larger count.  freadcolrs tells them from encoded ones by the      *)
(* first four bytes of each row.                                           *)
(*                                                                         *)
(* The stream is counted in pixels of four bytes.  A stream that breaks    *)
(* off inside a pixel makes the last getc of it return EOF, so that the    *)
(* pixel counts as not there.                                              *)
(***************************************************************************)
EXTENDS Integers, Sequences

CONSTANTS
  Half,       (* half the range of a byte: 128 in the code                 *)
  MinELen,    (* MINELEN                                                   *)
  Widths,     (* the widths of pictures                                    *)
  NRows,
  Pixel       (* the COLRs of the picture                                  *)

Byte == 0 .. 2 * Half - 1
COLR == [RED : Byte, GRN : Byte, BLU : Byte, EXP : Byte]

(* What setcolr makes: black, or a largest mantissa in the upper half of   *)
(* the range; 127 is reached when the largest value is a power of two      *)
(* (module Rgbe).                                                          *)
Normalised(p, least) ==
  \/ p = [RED |-> 0, GRN |-> 0, BLU |-> 0, EXP |-> 0]
  \/ p.RED >= least \/ p.GRN >= least \/ p.BLU >= least

Encodable(width) == MinELen <= width /\ width <= 2 * Half * Half - 1

(* The programs that wrote old files put 128 into the mantissa of a power  *)
(* of two.  Only rows of an encodable width are told apart by their first  *)
(* pixel, and fwritecolrs writes none of these flat.                       *)
PixelOf(width) ==
  {p \in Pixel : Normalised(p, IF Encodable(width) THEN Half ELSE Half - 1)}

ASSUME OldAssumption ==
  /\ Half \in Nat /\ Half >= 3
  /\ MinELen \in Nat \ {0} /\ Widths \subseteq Nat \ {0} /\ NRows \in Nat \ {0}
  /\ Pixel \subseteq COLR

Row == 0 .. NRows - 1

VARIABLES
  len,        (* the width of the picture                                  *)
  img,        (* the picture, a row of pixels for each row                 *)
  stream,     (* the pixels and run-length markers written so far          *)
  wpc,        (* "row", "done" or "dead"                                   *)
  wrow,       (* the row being written                                     *)
  wx,         (* the pixels of it that the stream stands for               *)
  wshift,     (* the digits of a count written since the last pixel        *)
  rpc,        (* "type", "old", "done", "failed" or "encoded"              *)
  rpos,       (* the pixels taken from the stream                          *)
  line,       (* scanline[0 ..]: the pixels of the row read so far         *)
  rshift,     (* rshift / 8                                                *)
  delivered   (* the rows that freadcolrs has returned 0 for               *)

writerVars == <<stream, wpc, wrow, wx, wshift>>
readerVars == <<rpc, rpos, line, rshift, delivered>>
vars == <<len, img, writerVars, readerVars>>

Marker(n)   == [RED |-> 1, GRN |-> 1, BLU |-> 1, EXP |-> n]
IsMarker(p) == p.RED = 1 /\ p.GRN = 1 /\ p.BLU = 1

(* 1 << rshift, for a shift of s bytes. *)
Weight[s \in Nat] == IF s = 0 THEN 1 ELSE 2 * Half * Weight[s - 1]

Col == 0 .. len - 1

Init ==
  /\ len \in Widths
  /\ img \in [Row -> [Col -> PixelOf(len)]]
  /\ stream = <<>> /\ wpc = "row" /\ wrow = 0 /\ wx = 0 /\ wshift = 0
  /\ rpc = "type" /\ rpos = 0 /\ line = <<>> /\ rshift = 0 /\ delivered = <<>>

-----------------------------------------------------------------------------
(* The writers.                                                            *)

(* The row is written up to pixel x. *)
Written(x) ==
  IF x < len
  THEN wx' = x /\ UNCHANGED <<wrow, wpc>>
  ELSE /\ wx' = 0
       /\ IF wrow < NRows - 1 THEN wrow' = wrow + 1 /\ UNCHANGED wpc
                              ELSE wpc' = "done" /\ UNCHANGED wrow

(* A pixel as it is: fwrite of fwritecolrs, and any writer of old files.   *)
WritePixel ==
  /\ wpc = "row"
  /\ stream' = Append(stream, img[wrow][wx])
  /\ wshift' = 0
  /\ Written(wx + 1)
  /\ UNCHANGED <<len, img, readerVars>>

(* A run-length marker of an old file: the next digit of a count of pixels *)
(* equal to the last one.  A digit 0 has another one behind it.            *)
WriteMarker ==
  /\ wpc = "row" /\ Encodable(len) /\ wx > 0
  /\ \E n \in Byte :
       LET x == wx + n * Weight[wshift]
       IN  /\ x <= len
           /\ \A y \in wx .. x - 1 : img[wrow][y] = img[wrow][wx - 1]
           /\ n = 0 => /\ wx + Weight[wshift + 1] <= len
                       /\ \A y \in wx .. wx + Weight[wshift + 1] - 1 :
                            img[wrow][y] = img[wrow][wx - 1]
           /\ stream' = Append(stream, Marker(n))
           /\ wshift' = IF x < len THEN wshift + 1 ELSE 0
           /\ Written(x)
  /\ UNCHANGED <<len, img, readerVars>>

Stop ==
  /\ wpc = "row" /\ wpc' = "dead"
  /\ UNCHANGED <<len, img, stream, wrow, wx, wshift, readerVars>>

-----------------------------------------------------------------------------
(* The reader.                                                             *)
PixelReady == rpos < Len(stream)
next       == stream[rpos + 1]

(* The scanline holds l; oldreadcolrs returns when len is used up.         *)
Filled(l, shift) ==
  IF Len(l) < len
  THEN /\ rpc' = "old" /\ line' = l /\ rshift' = shift
       /\ UNCHANGED delivered
  ELSE /\ line' = <<>> /\ rshift' = 0
       /\ delivered' = Append(delivered, [y \in Col |-> l[y + 1]])
       /\ rpc' = IF Len(delivered) + 1 < NRows THEN "type" ELSE "done"

(* Mutated forms: the exponent of a first pixel that begins like a header  *)
(* is not put back; a marker does not move on to the next digit; the       *)
(* digits are not forgotten at the next pixel.                             *)
BugFirstPixel ==
  /\ rpc = "type" /\ PixelReady
  /\ \/ /\ next.RED # 2
        /\ rpc' = "old" /\ UNCHANGED <<rpos, line, rshift, delivered>>
     \/ /\ next.RED = 2 /\ (next.GRN # 2 \/ next.BLU >= Half)
        /\ rpos' = rpos + 1
        /\ Filled(<<[next EXCEPT !.EXP = 0]>>, 0)
  /\ UNCHANGED <<len, img, writerVars>>
BugOldMarker ==
  /\ rpc = "old" /\ PixelReady /\ IsMarker(next)
  /\ rpos' = rpos + 1
  /\ LET copies == [k \in 1 .. next.EXP * Weight[rshift] |-> line[Len(line)]]
     IN  Filled(line \o copies, rshift)
  /\ UNCHANGED <<len, img, writerVars>>
BugOldPixel ==
  /\ rpc = "old" /\ PixelReady /\ ~IsMarker(next)
  /\ rpos' = rpos + 1
  /\ Filled(Append(line, next), rshift)
  /\ UNCHANGED <<len, img, writerVars>>

(* freadcolrs looks at the first pixel of a row of encodable width.  One   *)
(* that does not begin with 2 is put back; one that is no header becomes   *)
(* the first pixel of an old scanline.                                     *)
ScanlineType ==
  /\ rpc = "type" /\ PixelReady
  /\ \/ /\ ~Encodable(len) \/ next.RED # 2
        /\ rpc' = "old" /\ UNCHANGED <<rpos, line, rshift, delivered>>
     \/ /\ Encodable(len) /\ next.RED = 2 /\ (next.GRN # 2 \/ next.BLU >= Half)
        /\ rpos' = rpos + 1
        /\ Filled(<<next>>, 0)
     \/ /\ Encodable(len) /\ next.RED = 2 /\ next.GRN = 2 /\ next.BLU < Half
        /\ rpos' = rpos + 1
        /\ rpc' = IF (next.BLU * 2 * Half) + next.EXP # len
                  THEN "failed"                         \* length mismatch
                  ELSE "encoded"                        \* module RleReader
        /\ UNCHANGED <<line, rshift, delivered>>
  /\ UNCHANGED <<len, img, writerVars>>

OldPixel ==
  /\ rpc = "old" /\ PixelReady /\ ~IsMarker(next)
  /\ rpos' = rpos + 1
  /\ Filled(Append(line, next), 0)
  /\ UNCHANGED <<len, img, writerVars>>

(* copycolr(scanline[0], scanline[-1]), as often as the digit says.        *)
OldMarker ==
  /\ rpc = "old" /\ PixelReady /\ IsMarker(next)
  /\ rpos' = rpos + 1
  /\ LET copies == [k \in 1 .. next.EXP * Weight[rshift] |-> line[Len(line)]]
     IN  Filled(line \o copies, rshift + 1)
  /\ UNCHANGED <<len, img, writerVars>>

EndOfFile ==
  /\ rpc \in {"type", "old"} /\ ~PixelReady /\ wpc \in {"done", "dead"}
  /\ rpc' = "failed"
  /\ UNCHANGED <<len, img, writerVars, rpos, line, rshift, delivered>>

Finished ==
  /\ wpc \in {"done", "dead"} /\ rpc \in {"done", "failed", "encoded"}
  /\ UNCHANGED vars

Next == \/ WritePixel \/ WriteMarker \/ Stop
        \/ ScanlineType \/ OldPixel \/ OldMarker \/ EndOfFile
        \/ Finished

Spec == Init /\ [][Next]_vars

-----------------------------------------------------------------------------
(* The rows read are those of the picture, however the writer of an old    *)
(* file split its runs: counts of several digits, runs of one pixel left   *)
(* as they are, and a row that begins like an encoded one.                 *)
RowsAsWritten ==
  \A r \in 1 .. Len(delivered) : delivered[r] = img[r - 1]

(* What is read of a row is always the beginning of that row: no marker    *)
(* copies beyond its end, although oldreadcolrs does not check, and        *)
(* nothing is refused or taken for an encoded row but for a stream that    *)
(* breaks off.                                                             *)
LineIsPrefix ==
  /\ rpc \in {"type", "old"} =>
       /\ Len(line) < len
       /\ \A y \in 1 .. Len(line) : line[y] = img[Len(delivered)][y - 1]
  /\ rpc # "encoded"
  /\ rpc = "failed" => wpc = "dead"

Transfer == INSTANCE RowTransfer
  WITH Picture <- [Row -> UNION {[0 .. w - 1 -> PixelOf(w)] : w \in Widths}],
       status  <- CASE rpc = "done" -> "complete"
                    [] rpc \in {"failed", "encoded"} -> "broken"
                    [] OTHER -> "open"

(* Flat and old scanlines, too, implement the transfer of rows.            *)
RefinesTransfer == Transfer!Spec
=============================================================================
