----------------------------- MODULE TiffTypes -----------------------------
(***************************************************************************)
(* The pixel types of tifftools.c and how a TIFF directory tells them.  A  *)
(* directory is a record whose fields bits, samples, photo and format are  *)
(* the tags BITSPERSAMPLE, SAMPLESPERPIXEL, PHOTOMETRIC and SAMPLEFORMAT.  *)
(* A kind names the C type of a row in memory: TT_gray, TT_RGBf, ...       *)
(***************************************************************************)
EXTENDS Integers, SequencesExt

Parms(b, s, p, f, t) ==
  [bits |-> b, samples |-> s, photo |-> p, format |-> f, type |-> t]

TIFF_file_parms == <<
  Parms( 8, 1, "MINISBLACK", "UINT",   "Gray"),
  Parms( 8, 3, "RGB",        "UINT",   "RGB"),
  Parms( 8, 1, "PALETTE",    "UINT",   "Colormap"),
  Parms( 8, 4, "RGB",        "UINT",   "RGBA"),
  Parms( 8, 3, "YCBCR",      "UINT",   "YCbCr"),
  Parms(16, 3, "RGB",        "UINT",   "RGB16"),
  Parms(32, 3, "RGB",        "UINT",   "RGB_int"),
  Parms(32, 3, "RGB",        "IEEEFP", "RGBf"),
  Parms(16, 3, "RGB",        "IEEEFP", "RGBf16"),
  Parms(24, 3, "RGB",        "IEEEFP", "RGBf24"),
  Parms(32, 3, "MINISBLACK", "IEEEFP", "XYZ"),
  Parms(16, 3, "LOGLUV",     "INT",    "LogLuv"),
  Parms(16, 1, "LOGL",       "INT",    "LogL"),
  Parms(16, 1, "MINISBLACK", "UINT",   "Gray16"),
  Parms(16, 1, "MINISBLACK", "INT",    "Short"),
  Parms(32, 1, "MINISBLACK", "UINT",   "UInt"),
  Parms(32, 1, "MINISBLACK", "INT",    "Int"),
  Parms(32, 1, "MINISBLACK", "IEEEFP", "Float"),
  Parms(16, 1, "MINISBLACK", "IEEEFP", "Float16"),
  Parms(24, 1, "MINISBLACK", "IEEEFP", "Float24"),
  Parms(64, 1, "MINISBLACK", "IEEEFP", "Double"),
  Parms(32, 3, "LOGLUV",     "IEEEFP", "LogLuv"),
  Parms(32, 1, "LOGL",       "IEEEFP", "LogL") >>

match_tiff_parms(p, q) == \A k \in {"bits", "samples", "photo", "format"} : p[k] = q[k]

(* Mutated form: programs are told how the file is encoded.                *)
BugTT_file_type(d) ==
  LET i == SelectInSeq(TIFF_file_parms, LAMBDA p : match_tiff_parms(d, p))
  IN  IF i = 0 THEN "Unknown" ELSE TIFF_file_parms[i].type

(* YCbCr is the file's affair: programs are told RGB.                      *)
TT_file_type(d) ==
  LET i == SelectInSeq(TIFF_file_parms, LAMBDA p : match_tiff_parms(d, p))
      t == IF i = 0 THEN "Unknown" ELSE TIFF_file_parms[i].type
  IN  IF t = "YCbCr" THEN "RGB" ELSE t

(* Of the two entries of LogLuv and LogL, the one for 16 bits.             *)
TT_type2parms(t) ==
  TIFF_file_parms[SelectInSeq(TIFF_file_parms, LAMBDA p : p.type = t)]

(* The type as the program sees it, for the routines made by TT_READ and   *)
(* TT_WRITE, and for those made by TT_GETROWBUF.                           *)
ProgramType(d) ==
  LET t == TT_file_type(d)
  IN  CASE t = "LogLuv" -> "XYZ"  [] t = "LogL" -> "Float"  [] OTHER -> t

RowbufType(d) ==
  LET t == TT_file_type(d)
  IN  CASE t \in {"Float16", "Float24"} -> "Float"
        [] t \in {"RGBf16", "RGBf24"}   -> "RGBf"
        [] OTHER                        -> t

(* The TYPECODE each routine is made with.                                 *)
TransferCode ==
  [gray |-> "Gray", gray16 |-> "Gray16", RGB |-> "RGB", RGBA |-> "RGBA", RGB16 |-> "RGB16",
   XYZ |-> "XYZ", LogLuv |-> "XYZ", LogL |-> "Float"]

RowbufCode ==
  [gray |-> "Gray", gray16 |-> "Gray16", RGB |-> "RGB", RGBA |-> "RGBA", RGB16 |-> "RGB16",
   float |-> "Float", RGBf |-> "RGBf", XYZ |-> "LogLuv", LogLuv |-> "LogLuv", LogL |-> "LogL"]

ImageFromCode ==
  [gray |-> "Gray", gray16 |-> "Gray16", RGB |-> "RGB", RGBf |-> "RGBf", RGBA |-> "RGBA",
   XYZ |-> "LogLuv", float |-> "Float"]

ImageToCode == [ImageFromCode EXCEPT !.XYZ = "XYZ"]

(* sizeof: bytes of a pixel in memory.                                     *)
PixelSize ==
  [gray |-> 1, gray16 |-> 2, RGB |-> 3, RGBA |-> 4, RGB16 |-> 6, float |-> 4, RGBf |-> 12,
   XYZ |-> 12, LogLuv |-> 12, LogL |-> 4]

(* TIFFRasterScanlineSize: bytes of a row of w pixels in the file's types. *)
ScanlineSize(d, w) == (d.bits * d.samples * w + 7) \div 8

IsGrayFloat(d) ==
  d.samples = 1 /\ d.photo \in {"MINISWHITE", "MINISBLACK"} /\ d.format = "IEEEFP"

IsRGBFloat(d) == d.samples = 3 /\ d.photo = "RGB" /\ d.format = "IEEEFP"

(* Mutated form: the predictor of integers for floats of 24 bits.          *)
BugIsFloatType(t) == t \in {"RGBf", "RGBf16", "Float", "Float16", "Double"}

IsFloatType(t) ==
  t \in {"RGBf", "RGBf16", "RGBf24", "Float", "Float16", "Float24", "Double"}
=============================================================================
