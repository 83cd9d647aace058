----------------------------- MODULE TiffFiles -----------------------------
(***************************************************************************)
(* tifftools.c, tifftoolsimage.c and the 35mm tag of FOV.c over libtiff: a *)
(* program writes files, reads them back and meets fatal errors.           *)
(***************************************************************************)
EXTENDS TiffTypes, SmallFloats, FiniteSets

CONSTANTS
  Files,      \* the file names
  Types,      \* Types[f]: the types file f may be created with
  Widths,     \* Widths[f]: the widths of its image; all are Height rows high
  Height,
  StripBytes, \* STRIP_SIZE_DEFAULT: what a strip of rows should hold
  Samples,    \* a sequence of 32 bit floats; images are cut from it
  Starts,     \* where they are cut from
  Tagged,     \* the files whose tags and compression are set
  Sessions,   \* the sets of files that one program makes
  Words,      \* descriptions, each a sequence of words
  MaxWords,   \* bounds what TT_cat_description makes of them
  Focals,     \* focal lengths, in tenths of a millimetre
  Stonits     \* values of TIFFTAG_STONITS

(* "file format only": no program asks for a file of type YCbCr.           *)
Creatable == {TIFF_file_parms[i].type : i \in DOMAIN TIFF_file_parms} \ {"YCbCr"}

ASSUME TiffAssumption ==
  /\ IsFiniteSet(Files) /\ Height \in Nat \ {0} /\ StripBytes \in Nat
  /\ \A f \in Files : Widths[f] \subseteq Nat \ {0}
  /\ Starts \subseteq Nat /\ Focals \subseteq Int /\ Sessions \subseteq SUBSET Files
  /\ Samples \in Seq([s : 0 .. 1, e : 0 .. FloatMax, m : 0 .. 2 ^ FloatBits - 1]) \ {<<>>}
  /\ \A f \in Files : Types[f] \subseteq Creatable

VARIABLES
  disk,       \* what the file system holds of each file
  handle,     \* the open TIFF * of each file, mode "closed" if none
  given,      \* what the program meant each file to hold
  buffer,     \* scanline_buffer and old_scanline_size of the four routines
  result      \* what the last call did: "call", "rows" read or written
              \* with the bytes copied, "tag" read, or "exit"

vars == <<disk, handle, given, buffer, result>>

None == [mode |-> "closed"]
Nothing == <<>>
Done == [is |-> "call"]

(* The programs have one file open at a time.                              *)
Is(f, mode) ==
  result.is # "exit" /\ handle[f].mode = mode /\ \A g \in Files \ {f} : handle[g] = None

Exit(f, call, kind, why) ==
  /\ result' = [is |-> "exit", file |-> f, call |-> call, kind |-> kind, why |-> why]
  /\ UNCHANGED <<disk, handle, given, buffer>>

(* The rows of an image: each the samples of its pixels, in order.         *)
Image(w, samples, start) ==
  LET n == w * samples
  IN  [r \in 1 .. Height |->
        [i \in 1 .. n |-> Samples[((start + r * n + i) % Len(Samples)) + 1]]]

-----------------------------------------------------------------------------
(* libtiff.  A directory also has the tags comp, pred, alpha, desc,        *)
(* stonits, exif and width; datafmt and colormode are the codec's state,   *)
(* and rows is the number of the row written or read last.                 *)

NewDirectory(p, w) ==
  [bits |-> p.bits, samples |-> p.samples, photo |-> p.photo, format |-> p.format,
   width |-> w, comp |-> "none", pred |-> "none", alpha |-> "none",
   desc |-> Nothing, stonits |-> Nothing, exif |-> 0]

SetLogFormat(h) ==
  IF h.dir.comp = "SGILOG"
  THEN [h EXCEPT !.datafmt = "FLOAT", !.dir.bits = 32, !.dir.format = "IEEEFP"]
  ELSE h

(* LogLuvClose, once rows are encoded.                                     *)
OnDisk(h) ==
  IF h.dir.comp = "SGILOG" /\ h.rows > 0
  THEN [h.dir EXCEPT !.bits = 16, !.format = "INT"]
  ELSE h.dir

(* TIFFReadDirectory starts the codec anew.                                *)
Reread(h, d) == [h EXCEPT !.dir = d, !.datafmt = "UNKNOWN", !.colormode = "RAW"]

(* The tag ROWSPERSTRIP, which follows from the others: TT_open_write sets *)
(* it, and TT_set_compression_jpeg again for some types.                   *)
RowsPerStrip(d) ==
  LET bits == IF d.photo \in {"LOGLUV", "LOGL"} THEN 32 ELSE d.bits
      size == ScanlineSize([d EXCEPT !.bits = bits], d.width)
      n == IF size <= StripBytes THEN StripBytes \div size ELSE 1
  IN  IF d.comp = "JPEG" /\ TT_file_type(d) \in {"Gray", "RGB"} /\ n < Height
      THEN 16 * ((n + 15) \div 16) ELSE n

CanEncode(d) ==
  /\ d.comp = "JPEG"         => /\ d.bits = 8 /\ d.photo # "PALETTE"
                                /\ RowsPerStrip(d) < Height =>
                                     RowsPerStrip(d) % (IF d.photo = "YCBCR" THEN 16 ELSE 8) = 0
  /\ d.pred = "HORIZONTAL"   => d.bits \in {8, 16, 32}
  /\ d.pred = "FLOATINGPOINT" => d.format = "IEEEFP"

Coding(h) == CASE h.dir.comp = "SGILOG"                          -> "log"
               [] h.dir.comp = "JPEG" /\ h.dir.photo = "YCBCR"   -> "ycc"
               [] OTHER                                         -> "plain"

(* TIFFSeek goes back to the first row of a strip, but on to another row   *)
(* only without compression.                                               *)
Seekable(h, r) ==
  \/ h.dir.comp = "none"
  \/ r = h.rows + 1
  \/ (r - 1) % RowsPerStrip(h.dir) = 0

(* Downsampled scanlines are refused.                                      *)
CanDecode(h, s) == s.coded = "ycc" => h.colormode = "RGB"

Decoded(h, s) == IF s.coded = "log" /\ h.datafmt # "FLOAT"
                 THEN [s EXCEPT !.coded = "codes"] ELSE [s EXCEPT !.coded = "plain"]

-----------------------------------------------------------------------------
Init ==
  /\ disk = [f \in Files |-> [dir |-> None, rows |-> Nothing, exif |-> Nothing]]
  /\ handle = [f \in Files |-> None]
  /\ given = [f \in Files |-> None]
  /\ buffer = [b \in {"float_read", "RGBf_read", "float_write", "RGBf_write"} |->
                 [size |-> 0, old |-> -1]]
  /\ result = Done

(* Each file is made once.                                                 *)
New(f) ==
  /\ Is(f, "closed") /\ given[f] = None
  /\ \E session \in Sessions : {f} \cup {g \in Files : given[g] # None} \subseteq session

Opened(mode, d) ==
  [mode |-> mode, dir |-> d, datafmt |-> "UNKNOWN", colormode |-> "RAW", rows |-> 0,
   use |-> "rows"]

Created(t, w) ==
  LET h == Opened("w", NewDirectory(TT_type2parms(t), w))
  IN  CASE t \in {"LogLuv", "LogL"} -> SetLogFormat([h EXCEPT !.dir.comp = "SGILOG"])
        [] t = "RGBA"               -> [h EXCEPT !.dir.alpha = "ASSOCALPHA"]
        [] OTHER                    -> h

Meant(t, w, start) ==
  [mode |-> "made", type |-> t, width |-> w, start |-> start, by |-> Nothing, jpeg |-> FALSE,
   packed |-> t \in {"LogLuv", "LogL"}, desc |-> Nothing, focal |-> Nothing, stonits |-> Nothing, alpha |-> Created(t, w).dir.alpha]

TT_open_write(f, t, w, start) ==
  /\ New(f)
  /\ handle' = [handle EXCEPT ![f] = Created(t, w)]
  /\ given' = [given EXCEPT ![f] = Meant(t, w, start)]
  /\ result' = Done
  /\ UNCHANGED <<disk, buffer>>

(* libtiff takes these tags only before the first row.                     *)
Retag(f, h) ==
  /\ Is(f, "w") /\ handle[f].rows = 0
  /\ handle' = [handle EXCEPT ![f] = h]
  /\ result' = Done
  /\ UNCHANGED <<disk, buffer>>

Compressed(f) == handle[f].dir.comp \notin {"none", "SGILOG"}

(* For other types the warning comes after COMPRESSION is set.             *)
TT_set_compression_jpeg(f, quality) ==
  LET h == [handle[f] EXCEPT !.dir.comp = "JPEG", !.datafmt = "UNKNOWN"]
      t == TT_file_type(h.dir)
  IN  /\ Is(f, "w") /\ ~Compressed(f)
      /\ IF quality \notin 5 .. 95 THEN Exit(f, "jpeg", "", "quality")
         ELSE /\ Retag(f, IF t = "RGB"
                          THEN [h EXCEPT !.colormode = "RGB", !.dir.photo = "YCBCR"] ELSE h)
              /\ given' = [given EXCEPT ![f].jpeg = TRUE, ![f].packed = TRUE]

Predicted(h, prediction) ==
  LET p == IF IsFloatType(TT_file_type(h.dir)) THEN "FLOATINGPOINT" ELSE "HORIZONTAL"
  IN  IF prediction THEN [h EXCEPT !.dir.pred = p] ELSE h

TT_set_compression_LZW(f, prediction) ==
  /\ Is(f, "w") /\ ~Compressed(f)
  /\ Retag(f, Predicted([handle[f] EXCEPT !.dir.comp = "LZW", !.datafmt = "UNKNOWN"], prediction))
  /\ given' = [given EXCEPT ![f].packed = TRUE]

TT_set_compression_zip(f, prediction) ==
  /\ Is(f, "w") /\ ~Compressed(f)
  /\ Retag(f, Predicted([handle[f] EXCEPT !.dir.comp = "DEFLATE", !.datafmt = "UNKNOWN"], prediction))
  /\ given' = [given EXCEPT ![f].packed = TRUE]

TT_set_alpha(f, a) ==
  /\ Is(f, "w") /\ handle[f].rows = 0
  /\ IF TT_file_type(handle[f].dir) # "RGBA" THEN Exit(f, "alpha", a, "type")
     ELSE /\ Retag(f, [handle[f] EXCEPT !.dir.alpha = a])
          /\ given' = [given EXCEPT ![f].alpha = a]

SetStonits(f, s) ==
  /\ Is(f, "w")
  /\ Retag(f, [handle[f] EXCEPT !.dir.stonits = <<s>>])
  /\ given' = [given EXCEPT ![f].stonits = <<s>>]

-----------------------------------------------------------------------------
(* Rows.  A transfer between the program's row, of kind k, and the file.   *)
Room(f, k) == PixelSize[k] * given[f].width

RowToWrite(f) ==
  Image(given[f].width, handle[f].dir.samples, given[f].start)[handle[f].rows + 1]

Stored(h, s) == [samples |-> s, coded |-> Coding(h)]

Put(f, k, call, rows, bytes, b) ==
  IF ~CanEncode(handle[f].dir) THEN Exit(f, call, k, "libtiff")
  ELSE /\ disk' = [disk EXCEPT ![f].rows = @ \o rows]
       /\ handle' = [handle EXCEPT ![f].rows = @ + Len(rows)]
       /\ given' = [given EXCEPT ![f].by = <<call, k>>]
       /\ buffer' = b
       /\ result' = [is |-> "rows", file |-> f, rows |-> Nothing, copied |-> bytes]

Get(f, rows, bytes) ==
  /\ result' = [is |-> "rows", file |-> f, rows |-> rows, copied |-> bytes]
  /\ UNCHANGED <<disk, given>>

TT_write(f, k) ==
  LET d == handle[f].dir
  IN  IF ProgramType(d) # TransferCode[k] THEN Exit(f, "write", k, "type")
      ELSE Put(f, k, "write", <<Stored(handle[f], RowToWrite(f))>>,
               {[bytes |-> ScanlineSize(d, d.width), room |-> Room(f, k)]}, buffer)

(* The rows that the last call read.                                       *)
JustRead == IF result.is = "rows" THEN DOMAIN result.rows ELSE {}

(* TIFFReadScanline of row r of a file, which gives the program row.       *)
Scan(f, k, r, row, bytes, b) ==
  LET h == handle[f]
  IN  CASE ~Seekable(h, r) ->
             /\ result' = [is |-> "exit", file |-> f, call |-> "read", kind |-> k,
                           why |-> "seek", row |-> r, after |-> JustRead]
             /\ UNCHANGED <<disk, handle, given, buffer>>
        [] Seekable(h, r) /\ ~CanDecode(h, disk[f].rows[r]) -> Exit(f, "read", k, "libtiff")
        [] OTHER -> /\ Get(f, [i \in {r} |-> row], bytes)
                    /\ handle' = [handle EXCEPT ![f].rows = r]
                    /\ buffer' = b

TT_read(f, k, r) ==
  LET d == handle[f].dir
  IN  IF ProgramType(d) # TransferCode[k] THEN Exit(f, "read", k, "type")
      ELSE Scan(f, k, r, Decoded(handle[f], disk[f].rows[r]),
                {[bytes |-> ScanlineSize(d, d.width), room |-> Room(f, k)]}, buffer)

-----------------------------------------------------------------------------
(* Rows of floats, kept in 16, 24 or 32 bits.  A row is the sequence of    *)
(* its components.                                                         *)
convert_float_32_16(floats)  == [i \in DOMAIN floats |-> float_to_half(floats[i])]
convert_float_32_24(floats)  == [i \in DOMAIN floats |-> float_to_triple(floats[i])]
convert_float_16_32(halfs)   == [i \in DOMAIN halfs |-> half_to_float(halfs[i])]
convert_float_24_32(triples) == [i \in DOMAIN triples |-> triple_to_float(triples[i])]

RED(i)   == 3 * i - 2
GREEN(i) == 3 * i - 1
BLUE(i)  == 3 * i

(* The three components of a pixel are converted one by one.               *)
ByPixel(row, Convert(_)) ==
  [i \in UNION {{RED(p), GREEN(p), BLUE(p)} : p \in 1 .. Len(row) \div 3} |-> Convert(row[i])]

convert_RGB_float_32_16(rgbs)    == ByPixel(rgbs, float_to_half)
convert_RGB_float_32_24(rgbs)    == ByPixel(rgbs, float_to_triple)
convert_RGB_float_16_32(halfs)   == ByPixel(halfs, half_to_float)
convert_RGB_float_24_32(triples) == ByPixel(triples, triple_to_float)

(* Mutated form: the size of the first row is kept for good.               *)
BugGrown(b, n) == IF b.old = -1 THEN [size |-> n, old |-> n] ELSE b

(* The readers' scanline_buffer only grows; the writers' follows the row.  *)
Grown(b, n)   == IF n > b.old THEN [size |-> n, old |-> n] ELSE b
Resized(b, n) == IF n # b.old THEN [size |-> n, old |-> n] ELSE b

(* Bytes of the row in the file through b, and of the program's row.       *)
ThroughBuffer(f, k, b) ==
  LET d == handle[f].dir
  IN  {[bytes |-> ScanlineSize(d, d.width), room |-> b.size],
       [bytes |-> 4 * d.samples * d.width, room |-> Room(f, k)]}

ReadFloats(f, k, r, row, routine) ==
  LET h == handle[f]
      n == ScanlineSize(h.dir, h.dir.width)
      b == Grown(buffer[routine], n)
  IN  CASE h.dir.bits = 32 ->
             Scan(f, k, r, row, {[bytes |-> n, room |-> Room(f, k)]}, buffer)
        [] h.dir.bits \in {16, 24} ->
             Scan(f, k, r, row, ThroughBuffer(f, k, b), [buffer EXCEPT ![routine] = b])
        [] OTHER -> Exit(f, "read", k, "type")

WriteFloats(f, k, row, routine) ==
  LET d == handle[f].dir
      n == ScanlineSize(d, d.width)
      b == Resized(buffer[routine], n)
  IN  CASE d.bits = 32 ->
             Put(f, k, "write", <<row>>, {[bytes |-> n, room |-> Room(f, k)]}, buffer)
        [] d.bits \in {16, 24} ->
             Put(f, k, "write", <<row>>, ThroughBuffer(f, k, b),
                 [buffer EXCEPT ![routine] = b])
        [] OTHER -> Exit(f, "write", k, "type")

TT_float_read(f, r) ==
  LET h == handle[f]
      s == Decoded(h, disk[f].rows[r])
      row == CASE h.dir.bits = 16 -> [s EXCEPT !.samples = convert_float_16_32(s.samples)]
               [] h.dir.bits = 24 -> [s EXCEPT !.samples = convert_float_24_32(s.samples)]
               [] OTHER           -> s
  IN  IF ~IsGrayFloat(h.dir) THEN Exit(f, "read", "float", "type")
      ELSE ReadFloats(f, "float", r, row, "float_read")

TT_RGBf_read(f, r) ==
  LET h == handle[f]
      s == Decoded(h, disk[f].rows[r])
      row == CASE h.dir.bits = 16 -> [s EXCEPT !.samples = convert_RGB_float_16_32(s.samples)]
               [] h.dir.bits = 24 -> [s EXCEPT !.samples = convert_RGB_float_24_32(s.samples)]
               [] OTHER           -> s
  IN  IF ~IsRGBFloat(h.dir) THEN Exit(f, "read", "RGBf", "type")
      ELSE ReadFloats(f, "RGBf", r, row, "RGBf_read")

TT_float_write(f) ==
  LET d == handle[f].dir
      s == RowToWrite(f)
      row == CASE d.bits = 16 -> convert_float_32_16(s)
               [] d.bits = 24 -> convert_float_32_24(s)
               [] OTHER       -> s
  IN  IF ~IsGrayFloat(d) THEN Exit(f, "write", "float", "type")
      ELSE WriteFloats(f, "float", Stored(handle[f], row), "float_write")

TT_RGBf_write(f) ==
  LET d == handle[f].dir
      s == RowToWrite(f)
      row == CASE d.bits = 16 -> convert_RGB_float_32_16(s)
               [] d.bits = 24 -> convert_RGB_float_32_24(s)
               [] OTHER       -> s
  IN  IF ~IsRGBFloat(d) THEN Exit(f, "write", "RGBf", "type")
      ELSE WriteFloats(f, "RGBf", Stored(handle[f], row), "RGBf_write")

(* The buffer a program reads rows of kind k into.                         *)
TT_getrowbuf(f, k) ==
  IF RowbufType(handle[f].dir) # RowbufCode[k] THEN Exit(f, "getrowbuf", k, "type")
  ELSE /\ result' = [is |-> "rowbuf", file |-> f, size |-> PixelSize[k] * handle[f].dir.width]
       /\ UNCHANGED <<disk, handle, given, buffer>>

-----------------------------------------------------------------------------
(* Images: all rows in one call, and never converted.                      *)
ImageRows(f, k, h) ==
  LET t == TT_file_type(h.dir)
      g == IF t = "LogLuv" THEN SetLogFormat(h) ELSE h
      n == ScanlineSize(g.dir, g.dir.width)
  IN  CASE t # ImageFromCode[k] -> Exit(f, "image", k, "type")
        [] t = ImageFromCode[k] /\ ~CanDecode(g, disk[f].rows[1]) -> Exit(f, "image", k, "libtiff")
        [] OTHER -> /\ Get(f, [r \in 1 .. Height |-> Decoded(g, disk[f].rows[r])],
                           {[bytes |-> Height * n, room |-> Height * Room(f, k)]})
                    /\ handle' = [handle EXCEPT ![f] = IF handle[f] = None THEN None
                                                        ELSE [g EXCEPT !.rows = Height]]
                    /\ UNCHANGED buffer

image_from_file(f, k) == ImageRows(f, k, handle[f])

(* Opens, checks the type on its own, reads and closes.                    *)
image_from_filename(f, k) ==
  LET h == Opened("r", disk[f].dir)
  IN  /\ Is(f, "closed") /\ disk[f].dir # None
      /\ IF TT_file_type(h.dir) # ImageToCode[k] THEN Exit(f, "filename", k, "type")
         ELSE ImageRows(f, k, h)

image_to_file(f, k) ==
  LET d == handle[f].dir
  IN  IF TT_file_type(d) # ImageToCode[k] THEN Exit(f, "to_file", k, "type")
      ELSE Put(f, k, "to_file",
               [r \in 1 .. Height |->
                  Stored(handle[f], Image(d.width, d.samples, given[f].start)[r])],
               {[bytes |-> Height * ScanlineSize(d, d.width), room |-> Height * Room(f, k)]},
               buffer)

image_to_filename_description(f, k, w, start, text) ==
  LET h == Created(ImageToCode[k], w)
      d == [h.dir EXCEPT !.desc = text]
      image == Image(w, d.samples, start)
  IN  /\ New(f)
      /\ disk' = [disk EXCEPT ![f] =
           [dir |-> d, rows |-> [r \in 1 .. Height |-> Stored(h, image[r])], exif |-> Nothing]]
      /\ given' = [given EXCEPT ![f] = [Meant(ImageToCode[k], w, start) EXCEPT !.by = <<"to_file", k>>, !.desc = text]]
      /\ result' = Done
      /\ UNCHANGED <<handle, buffer>>

-----------------------------------------------------------------------------
(* Tags.                                                                   *)
Describe(f, text) ==
  /\ handle' = [handle EXCEPT ![f].dir.desc = <<text>>]
  /\ given' = [given EXCEPT ![f].desc = <<text>>]
  /\ result' = Done
  /\ UNCHANGED <<disk, buffer>>

TT_set_description(f, text) == Is(f, "w") /\ Describe(f, text)

(* Without a description there is only a warning.                          *)
TT_cat_description(f, text) ==
  /\ Is(f, "w") /\ handle[f].dir.desc # Nothing
  /\ Describe(f, handle[f].dir.desc[1] \o text)

Told(f, name, value) ==
  /\ result' = [is |-> "tag", file |-> f, name |-> name, value |-> value]
  /\ UNCHANGED <<disk, given, buffer>>

TT_get_description(f) ==
  /\ Is(f, "r") /\ Told(f, "desc", handle[f].dir.desc) /\ UNCHANGED handle

TT_photometric_normalization(f) ==
  /\ Is(f, "r") /\ Told(f, "stonits", handle[f].dir.stonits) /\ UNCHANGED handle

TT_is_alpha(f, a) ==
  /\ Is(f, "r")
  /\ IF TT_file_type(handle[f].dir) # "RGBA" THEN Exit(f, "alpha", a, "type")
     ELSE Told(f, a, handle[f].dir.alpha = a) /\ UNCHANGED handle

(* round() of tenths, then what x86 makes of it in a short.                *)
Rounded35mm(focal) == (focal + 5) \div 10
Short(n) == ((n + 32768) % 65536) - 32768

(* Writes the main directory and one for EXIF, then reads the main one     *)
(* again to add the pointer to the other.                                  *)
set_tiff_35mm_equiv(f, focal) ==
  LET main == OnDisk(handle[f])
  IN  /\ Is(f, "w") /\ handle[f].rows = Height /\ handle[f].dir.exif = 0
      /\ IF focal <= 0 THEN Exit(f, "35mm", "", "focal")
         ELSE /\ disk' = [disk EXCEPT ![f].dir = main,
                                      ![f].exif = <<Short(Rounded35mm(focal))>>]
              /\ handle' = [handle EXCEPT ![f] = Reread(handle[f], [main EXCEPT !.exif = 1])]
              /\ given' = [given EXCEPT ![f].focal = <<Rounded35mm(focal)>>]
              /\ result' = Done
              /\ UNCHANGED buffer

NO_TIFF_35MM_EQUIV == -1

(* Mutated form: the EXIF directory stays the current one.                 *)
Bug_get_tiff_35mm_equiv(f) ==
  /\ Is(f, "r")
  /\ IF handle[f].dir.exif = 0
     THEN Told(f, "focal", NO_TIFF_35MM_EQUIV) /\ UNCHANGED handle
     ELSE /\ Told(f, "focal", disk[f].exif[handle[f].dir.exif])
          /\ handle' = [handle EXCEPT ![f].dir.desc = Nothing, ![f].dir.stonits = Nothing,
                                      ![f].use = "tags"]

get_tiff_35mm_equiv(f) ==
  /\ Is(f, "r")
  /\ IF handle[f].dir.exif = 0
     THEN Told(f, "focal", NO_TIFF_35MM_EQUIV) /\ UNCHANGED handle
     ELSE /\ Told(f, "focal", disk[f].exif[handle[f].dir.exif])
          /\ handle' = [handle EXCEPT ![f] = [Reread(@, disk[f].dir) EXCEPT !.use = "tags"]]

-----------------------------------------------------------------------------
(* TIFFOpen for reading, with what TT_open_read adds.                      *)
TIFFOpen_read(f) ==
  /\ Is(f, "closed") /\ disk[f].dir # None
  /\ handle' = [handle EXCEPT ![f] = [Opened("r", disk[f].dir) EXCEPT !.use = "image"]]
  /\ result' = Done
  /\ UNCHANGED <<disk, given, buffer>>

(* The case for YCbCr is not taken: TT_file_type never returns it.         *)
TT_open_read(f) ==
  LET h == Opened("r", disk[f].dir)
  IN  /\ Is(f, "closed") /\ disk[f].dir # None
      /\ handle' = [handle EXCEPT ![f] =
           IF TT_file_type(h.dir) \in {"LogLuv", "LogL"} THEN SetLogFormat(h) ELSE h]
      /\ result' = Done
      /\ UNCHANGED <<disk, given, buffer>>

(* A program closes what it wrote when the image is complete.              *)
TIFFClose(f) ==
  /\ result.is # "exit"
  /\ handle[f].mode = "r" \/ (handle[f].mode = "w" /\ handle[f].rows = Height)
  /\ disk' = IF handle[f].mode = "r" THEN disk
             ELSE [disk EXCEPT ![f].dir = OnDisk(handle[f])]
  /\ handle' = [handle EXCEPT ![f] = None]
  /\ result' = Done
  /\ UNCHANGED <<given, buffer>>

-----------------------------------------------------------------------------
WriteKinds == DOMAIN TransferCode
ReadKinds  == WriteKinds \ {"RGBA"}
ImageKinds == DOMAIN ImageFromCode

Alphas == {"UNSPECIFIED", "ASSOCALPHA", "UNASSALPHA"}

Write(f) ==
  /\ Is(f, "w") /\ handle[f].rows < Height
  /\ \/ \E k \in WriteKinds : TT_write(f, k)
     \/ TT_float_write(f)
     \/ TT_RGBf_write(f)

(* Rows are read from what TT_open_read opened, and not after              *)
(* get_tiff_35mm_equiv, which is to be the last access.                    *)
ReadRow(f) ==
  /\ Is(f, "r") /\ handle[f].use = "rows"
  /\ \E r \in 1 .. Height : \/ \E k \in ReadKinds : TT_read(f, k, r)
                            \/ TT_float_read(f, r)
                            \/ TT_RGBf_read(f, r)

ReadImage(f) ==
  /\ Is(f, "r") /\ handle[f].use # "tags"
  /\ \E k \in ImageKinds : image_from_file(f, k)

GetRowbuf(f) == Is(f, "r") /\ \E k \in DOMAIN RowbufCode : TT_getrowbuf(f, k)

Tag(f) ==
  \/ TT_get_description(f)
  \/ TT_photometric_normalization(f)
  \/ \E a \in Alphas : TT_is_alpha(f, a)
  \/ get_tiff_35mm_equiv(f)

Prepare(f) ==
  \/ \E q \in {4, 75} : TT_set_compression_jpeg(f, q)
  \/ \E p \in BOOLEAN : TT_set_compression_LZW(f, p) \/ TT_set_compression_zip(f, p)
  \/ \E a \in Alphas : TT_set_alpha(f, a)
  \/ \E n \in Stonits : SetStonits(f, n)
  \/ \E w \in Words : TT_set_description(f, w)
  \/ /\ handle[f].mode = "w" /\ given[f].desc # Nothing => Len(given[f].desc[1]) < MaxWords
     /\ \E w \in Words : TT_cat_description(f, w)
  \/ \E l \in Focals : set_tiff_35mm_equiv(f, l)

Next ==
  \E f \in Files :
    \/ \E t \in Types[f], w \in Widths[f], p \in Starts : TT_open_write(f, t, w, p)
    \/ \E k \in ImageKinds, w \in Widths[f], p \in Starts, x \in {Nothing} \cup {<<d>> : d \in Words} :
         ImageToCode[k] \in Types[f] /\ image_to_filename_description(f, k, w, p, x)
    \/ f \in Tagged /\ Prepare(f)
    \/ Write(f)
    \/ Is(f, "w") /\ handle[f].rows = 0 /\ \E k \in ImageKinds : image_to_file(f, k)
    \/ TIFFOpen_read(f)
    \/ TT_open_read(f)
    \/ \E k \in ImageKinds : image_from_filename(f, k)
    \/ ReadRow(f)
    \/ ReadImage(f)
    \/ GetRowbuf(f)
    \/ Tag(f)
    \/ TIFFClose(f)

Spec == Init /\ [][Next]_vars

-----------------------------------------------------------------------------
(* A file on disk is complete, and directories on disk and in memory, once *)
(* compressed, encoded or read again, tell the type the file was made with. *)
TypeOK ==
  /\ \A f \in Files :
       /\ handle[f].mode \in {"closed", "r", "w"}
       /\ handle[f] # None => TT_file_type(handle[f].dir) = given[f].type
       /\ disk[f].dir # None =>
            /\ Len(disk[f].rows) = Height
            /\ TT_file_type(disk[f].dir) = given[f].type
            /\ disk[f].dir.width = given[f].width
  /\ \A b \in DOMAIN buffer : buffer[b].size \in Nat /\ buffer[b].old \in Int

(* x, read, is what the file keeps as k of v: the nearest number that has  *)
(* the bits of the file, or v itself.                                      *)
AsKept(f, x, k, v) ==
  /\ IF IsNaN(v, FloatMax) THEN IsNaN(k, f.max) ELSE IsNearest(f, k, v)
  /\ x = Meaning(f, k)

AsWritten(t, x, k, v) ==
  CASE t \in {"Float16", "RGBf16"} -> AsKept(Half, x, k, v)
    [] t \in {"Float24", "RGBf24"} -> IsDenormal(k) \/ AsKept(Triple, x, k, v)
    [] OTHER                       -> x = v

(* Rows come back as they were written, whatever the type, the compression *)
(* and the files used before: convert_*, the four scanline_buffers, and    *)
(* SGILOGDATAFMT across TT_open_write, TT_open_read, image_from_file and   *)
(* set_tiff_35mm_equiv.  A sample of SGILOG or JPEG, which lose bits,      *)
(* stands for itself; the denormalized numbers of 24 bits are left out.    *)
RowsReadBack ==
  result.is = "rows" =>
    \A r \in DOMAIN result.rows :
      LET g == given[result.file]
          row == result.rows[r]
          image == Image(g.width, TT_type2parms(g.type).samples, g.start)[r]
      IN  /\ row.coded = "plain"
          /\ Len(row.samples) = Len(image)
          /\ \A i \in DOMAIN image :
               AsWritten(g.type, row.samples[i], disk[result.file].rows[r].samples[i], image[i])

(* No call copies more than its buffers hold: the static scanline_buffer   *)
(* of each float routine, sized by earlier files, and the program's row,   *)
(* sized by its kind.                                                      *)
RowsFit == result.is = "rows" => \A c \in result.copied : c.bytes <= c.room

(* A tag is read as it was last set, through both directories that         *)
(* set_tiff_35mm_equiv writes and get_tiff_35mm_equiv moves between.       *)
TagsReadBack ==
  result.is = "tag" =>
    LET g == given[result.file]
        v == result.value
    IN  CASE result.name = "desc"    -> v = g.desc
          [] result.name = "stonits" -> v = g.stonits
          [] result.name = "focal"   -> IF g.focal = Nothing THEN v = NO_TIFF_35MM_EQUIV
                                        ELSE g.focal[1] < 32768 => v = g.focal[1]
          [] OTHER                   -> v = (g.alpha = result.name)

(* What one routine wrote, the routine of the same name reads, XYZ images  *)
(* apart; and libtiff refuses no row but of JPEG files, and of compressed  *)
(* files where the program jumps: not to the first row, and not on to the  *)
(* row after those just read.  Neither the directory, nor the tables, nor  *)
(* the predictors, nor the position in the file contradict each other.     *)
ReadAsWritten ==
  result.is = "exit" =>
    LET g == given[result.file]
        reads == CASE result.call = "read"                  -> {<<"write", result.kind>>}
                   [] result.call \in {"image", "filename"} -> {<<"to_file", result.kind>>}
                   [] OTHER                                 -> {}
    IN  /\ result.why = "type" => g.by \notin reads \ {<<"to_file", "XYZ">>}
        /\ result.why = "libtiff" => g.jpeg /\ g.type # "Gray"
        /\ result.why = "seek" => /\ g.packed /\ result.row # 1
                                 /\ (result.row - 1 \in result.after => result.row \in result.after)
=============================================================================
