------------------------------ MODULE RleFormat ------------------------------
(***************************************************************************)
(* The run-length encoded scanline of a Radiance picture, as               *)
(* radiance/color.c writes and reads it, and the byte stream (a FILE* on a *)
(* file or a pipe) that carries a picture from fwritecolrs to freadcolrs.  *)
(*                                                                         *)
(* A scanline of Width pixels is stored as NComp components (red, green,   *)
(* blue, exponent), each of them split into packets:                       *)
(*   a run      <<Half + n, v>>        n pixels with the value v           *)
(*   a non-run  <<n, v1, ..., vn>>     n pixels with the values v1 ... vn  *)
(* The code reads 128 (Half) as a non-run of 128 pixels and 129..255 as a  *)
(* run: every limit of the format (126, 127, 128, 255, 0x7fff) follows     *)
(* from Half, which the model leaves open.                                 *)
(***************************************************************************)
EXTENDS Integers, Sequences, FiniteSets

CONSTANTS
  Half,     (* half the range of a byte: 128 in the code                   *)
  MinRun,   (* MINRUN: the shortest run worth a packet, 4 in the code      *)
  MinELen,  (* MINELEN: the shortest scanline that is encoded, 8           *)
  NComp,    (* the components of a COLR: 4                                 *)
  Width,    (* len: the pixels of a scanline                               *)
  NRows,    (* the scanlines of the picture                                *)
  Value     (* the component values the picture is made of                 *)

Byte == 0 .. 2 * Half - 1

Magic == 2                      \* the first two bytes of an encoded scanline

(* Mutated form, a slip of the code that a property must catch.            *)
BugMaxLit == Half + 1

MaxRun  == Half - 1             \* 127: cnt < 127 in the search for a run
MaxLit  == Half                 \* 128: the longest non-run
MaxELen == 2 * Half * Half - 1  \* MAXELEN: 0x7fff, the high byte stays < Half

ASSUME FormatAssumption ==
  /\ Half \in Nat /\ MinRun \in Nat /\ MinELen \in Nat
  /\ NComp \in Nat \ {0} /\ NRows \in Nat \ {0} /\ Width \in Nat
  /\ 2 <= MinRun /\ MinRun < Half
  /\ 1 <= MinELen
  /\ Value \subseteq Byte

(* Only such a scanline is encoded; the others are written flat            *)
(* (module OldScanline).                                                   *)
ASSUME EncodedWidth == MinELen <= Width /\ Width <= MaxELen

Row  == 0 .. NRows - 1
Comp == 0 .. NComp - 1
Col  == 0 .. Width - 1

Scanline(S) == [Comp -> [Col -> S]]

(* len>>8 and len&255 *)
HighByte == Width \div (2 * Half)
LowByte  == Width % (2 * Half)

(* Mutated form: the low byte first.                                       *)
BugHeader == <<Magic, Magic, LowByte, HighByte>>

Header == <<Magic, Magic, HighByte, LowByte>>

VARIABLES
  img,     (* the picture the writer was given: a scanline for each row    *)
  stream   (* the bytes that have reached the stream so far                *)

PictureOK == img \in [Row -> Scanline(Value)]
StreamOK  == stream \in Seq(Byte)
=============================================================================
