# Specifications of the Radiance conversion tools

The programs of this repository (`rad2tiff`, `tiff2rad`, `rad2jpeg`, `rad2png`,
`tiff32_to_8`, `make-rad-test-image`) convert high-dynamic-range Radiance
pictures to and from TIFF, JPEG and PNG. This directory holds TLA+ modules of
the parts in which pictures can be silently corrupted, configurations that
check them with TLC, and proofs for TLAPS.

    tlc -config Calibration.cfg MCCalibration.tla      # one run
    tlapm RleProofs.tla                                # one proof module

`PROJECT.json` lists the runs, for every definition the lines it models, and
the hazards the properties are meant for.

## The system

| Component (source) | State it keeps | Operations | What makes it correct |
|---|---|---|---|
| Run-length codec (`radiance/color.c`: `fwritecolrs`, `freadcolrs`) | the scanline buffer of `tempbuffer`, the same for every row; positions in the row | write a row, read a row, byte by byte | every row that is accepted is the one written; a cut stream is noticed; foreign rows are read right or refused |
| Flat and old scanlines (`color.c`: `oldreadcolrs`, flat path of `fwritecolrs`) | position, `rshift` | read pixels and run-length markers | kinds of scanline are told apart; counts of several digits |
| Shared-exponent pixels (`color.c`: `setcolr`, `colr_color`) | none | colour to four bytes and back | closeness, no drift over repeated conversions, no pixel that looks like a marker |
| Header lines (`radiance/header.c`: `getheader`) | one buffer, one byte of `ungetc` | hand each line to a callback | no line lost, split wrongly, or taken for the end |
| Radiance header (`radiance-header.c`) | static variables of the file: format, views, exposure, text | `DeVAS_read_radiance_header`, `headline`, `DeVAS_write_radiance_header` | a picture gets its own header; text owned once |
| Resolution line (`radiance/resolu.c`), view parameters (`radiance/image.c`) | static string buffers | parse, print | round trip |
| Radiance images (`radianceIO.c`, `radiance-tiff.c`) | images, header in a record | five kinds of reader and writer each | units; all rows or exit |
| Units and exposure (the readers and writers, `rad2tiff.c`, `tiff2rad.c`) | `EXPOSURE` records, `STONITS` tag | read, write, convert | the luminance a file stands for is that of the scene |
| Brightness options (`rad2tiff.c`, `rad2jpeg.c`, `rad2png.c`) | the image, in place | `--exposure`, ranges, `--autoadjust` | order of options, end points, monotone |
| TIFF (`tifftools.c`, `tifftoolsimage.c`) | static scanline buffers and their sizes; the tags of an open file, which libtiff keeps | open, compress, read and write rows of many types and whole images, describe | rows and tags come back; buffer matches the file; tables of types agree |
| FOV and EXIF (`FOV.c`) | the current directory of libtiff | write and read a tag of a second directory | order of the directories |
| JPEG (`devas-jpeg.c`) | the library's: markers saved, rows done, warnings | compress, decompress, comment | an error is never called success; the own comment comes back |
| ICC profile (`iccjpeg.c`) | none; markers numbered in one byte | split over markers, reassemble | the profile comes back whole or not at all |
| PNG (`devas-png.c`) | the `format` of a `png_image` | write and read gray and RGB | all rows; pixels in the layout of the image |
| sRGB, primaries, images (`sRGB.c`, `spec_rgb.c`, `devas-image.c`) | none | arithmetic, allocation | numerical |

They interact by calls and through streams: a converter calls a reader, which
calls `DeVAS_read_radiance_header` (which calls `getheader`, which calls
`headline` for each line) and then `freadscan` for each row; it changes the
image in memory and calls a writer that does the same in reverse. Every program
is one thread. What makes the behaviour hard all the same:

* two programs at the ends of a pipe run at their own pace, and the writer may
  die at any byte (`tiff2rad x - | rad2tiff - y`);
* the stream of bytes has no separators: what a byte means follows from all
  bytes before it, and what kind a scanline is from the first four;
* static variables and buffers outlive the call that filled them;
* one convention about exposure and units is kept by a dozen functions in five
  files, each with its own part of it, and a second one about colours;
* what is written is in a buffer for a while: an error of the device may show
  rows later or at `fclose`, and each writer looks for it in its own way;
* other programs come between a writer and a reader: they indent VIEW lines,
  lose and reorder markers, write descriptions that look like records;
* limits: 127/128 pixels in a packet, 8 and 32767 pixels in a row, 2048 bytes
  in a line, one byte of exponent, 255 markers, six decimals of an EXPOSURE.

## The modules

### The codec: RleFormat, RleWriter, RleReader, RlePipe, RowTransfer

`RleFormat` has the constants of the format. `Half` stands for 128, and the
limits 126, 127, 128, 255 and 32767 of the code are written in terms of it, so
that TLC can work with bytes 0..7 and the proofs hold for 128. `RleWriter` is
the encoded path of `fwritecolrs`: an action per `putc`, and `FindRun` for one
step of the search loop. `RleReader` is `freadcolrs` with an action per `getc`;
`rpc = "old"` is the call of `oldreadcolrs`. `buf` begins as `Garbage`, the
value of fresh memory, and is kept from row to row as `tempbuffer` does.

`RlePipe` composes them. `Stop` is the death of the writer at any byte,
`EndOfFile` what `getc` returns once a writer that is done or dead has been read
out. A file written first and read later is one of the interleavings. The
history variable `mark` records what each byte was written as.

`RowTransfer` is the abstract specification: rows arrive in order and
unchanged, up to the end or to a break. `RlePipe` implements it with
`status` read off `rpc`; so does `OldScanline`.

`RleForeign` runs the same reader on every sequence of bytes after several
beginnings, and compares with a definition of the format over the sequence as a
whole (`Expansion`, `PacketEnds`) that knows nothing of the reader's variables.

### OldScanline, OldScanlineProofs

Flat rows, which `fwritecolrs` writes for widths outside of 8..32767, and old
rows with run-length markers, of which this repository has only the reader: the
writer may split runs in any way the format allows (`WriteMarker`). The stream
is counted in pixels. `PixelOf` is the assumption on pixels, and module `Rgbe`
shows that `setcolr` makes no others. It matters at one place: a flat row is
recognised by its first pixel, and a run-length marker by three mantissas of 1.

### Rgbe, RgbeProofs

`setcolr` and `colr_color` with the constants of the code, 255.9999 and 1e-32
included, over integers at a scale; `Pass` is one conversion there and back.
`TooBright` names the floats whose exponent does not fit a byte.

### HeaderLines, HeaderMeaning, RadianceHeader and their proofs

`HeaderLines` is `getheader`: `fgets` into a buffer of `MaxLine` bytes, the byte
`MaxLine-2` as evidence that a line was longer, `ungetc` of that byte. A line is
its length and whether it ends with CR LF; texts are left out. `nul` is the NUL
byte that is put back for a line of exactly `MaxLine-2` bytes.

`RadianceHeader` is the rest of the reading of a header: `headline` on each line
(`Line` lists the kinds it tells apart) with the static variables, the two rules
for VIEW lines, and the block of text on the heap. The readers of
`radianceIO.c` store the address of that block in the image, those of
`radiance-tiff.c` a copy (`copies`).

`HeaderMeaning` says the same of a header without a reader: `TextLines`,
`ViewOf` and `ExposureOf` are read off all lines at once. It is the abstract
specification that `RadianceHeader` is checked against (`OwnHeader`, `OwnText`),
and what `RadianceFiles` uses in place of the line by line reader.

### FileStream, RadianceFiles, JpegFiles, PngFiles, PictureFiles, PictureProofs

A picture goes to a file, and another program reads it. `FileStream` is the
stdio stream in between: `buf` has what is buffered, `Put` and `Drain` may write
it out or find the device full (`ferror`, which stays set), and `Killed` is the
death of the writer; `disk` has what arrived, in items (header lines, markers,
rows), the last of which may be `Torn`. Each of the three kinds of file has a
module with its writer and reader, and with the place at which its writer looks
for errors: `RowRefused` in `fwritecolrs`, `FinishStatus` in the destination
manager of libjpeg, the result of `png_image_write_to_stdio` in one of two PNG
writers. `PictureFiles` puts them together; what must hold for all three is
there, what is about one of them with it.

* `RadianceFiles`: `write_radiance_header` with the description as it is, VIEW
  only with a type, EXPOSURE in fixed decimals (`Printed`); the readers with the
  resolution line; `Rewrite` is a second program that writes what the first has
  read. `tt` tells `radiance-tiff.c`, which knows of a view only its angles.
* `JpegFiles`: comment and profile markers (`IccMarkers`, numbers modulo
  `ByteRange`), the reader with its loop over saved markers (`CommentRead`) and
  with warnings as errors (`NoWarnings`), `jpeg_read_icc_profile`. `EditMarkers`
  is what other programs do to a file: markers lost, doubled, moved, EXIF added.
* `PngFiles`: a kind of picture is its set of format flags. `FormatAsked` is
  the format in force when pixels are delivered, which `begin_read` overwrites.

### Calibration, CalibrationProofs

One pixel of a picture on its way through readers, writers, `rad2tiff`,
`tiff2rad` and `tiff32_to_8`, in any number and order. Its value is known by the
exponents of EXPOSURE, WHTEFFICACY (179) and 2 in it. `scene` is the luminance it
should stand for, changed only by the stops a user asks for. `mixed` records that
a program has met a picture for which it is wrong (below). `colours` is how the
numbers of the file code colours: the primaries, the curve, bytes or floats, and
the profile that says so. `ToSRGB`, `Encoded` and their inverses are what the
conversions do to a kind of numbers, and give `"wrong"` for any other kind.
`astray` records that a user gave `tiff2rad` a flag that contradicts the file,
or ran `tiff32_to_8` on other primaries than those of sRGB.

### Adjust

The steps between reading and writing that change brightness, on pictures of
rational numbers: `TT_RGBf_rescale`, `TT_RGBf_invert`, `find_glare_threshold`
and their order in the three programs. `order` is which of the programs runs.

### SmallFloats, TiffTypes, TiffFiles, TiffProofs

`SmallFloats` has the 16 and 24 bit numbers of `tifftools.c`: `float_to_half`
and its three companions on the fields of a number, with the bits that spill
from a mantissa into the exponent (`Assemble`). `Meaning`, `Middle` and
`IsNearest` are what such a number stands for, and what rounding should find;
they know nothing of the conversions.

`TiffTypes` has the table `TIFF_file_parms` and the smaller tables that the
macros `TT_READ`, `TT_GETROWBUF`, `TT_IMAGE_FROM_FILE` and `TT_IMAGE_TO_FILE`
spread over the two files.

`TiffFiles` is a program over `tifftools.c`, `tifftoolsimage.c` and the 35mm
functions of `FOV.c`. `disk` is what the file system holds, `handle` the open
`TIFF *` with its directory, the state of the codec (`datafmt`, `colormode`) and
the row written or read last, `given` what the program meant, `buffer` the static
`scanline_buffer` and `old_scanline_size` of four routines, `result` the last
call. A fatal error is a `result` of its own, after which nothing happens. Of
libtiff, which is in `external-libs`, the model has what these files lean on:
the tags that SGILOGDATAFMT changes (`SetLogFormat`, `OnDisk`), what the codecs
refuse (`CanEncode`, `CanDecode`), which rows of a compressed file can be sought
(`Seekable`: the next one and the first of a strip, whose size `RowsPerStrip`
follows from the other tags), and that a directory read again starts the
codec anew (`Reread`). A program may read rows in any order; `Scan` is
`TIFFReadScanline`, where the seek, then the decoder, may refuse. The order of calls is any that libtiff documents: tags
before the first row, focal length after the last, each file made once, one file
open at a time as in the programs here. Values and row sizes are as on a
little-endian machine.

## What is checked

| Run | Bounds | Shows |
|---|---|---|
| `rle_pipe` | two rows of 5 pixels, one component, bytes 0..7, `Half` 4, `MinRun` 3, two values | all 1024 pictures, every cut: types, losslessness, framing, refusal only where cut, nothing left over, the bound on the size of a row, the refinement of `RowTransfer`, and that every transfer comes to an end |
| `rle_foreign` | six beginnings, up to 7 bytes out of {0, 1, 2, 5} | the reader accepts the well-formed rows only, and stays within the row |
| `old_scanline` | widths 2, 3 and 7, two rows, bytes 0..5 | rows come back, however runs are split; no overrun; refinement |
| `rgbe` | all 840 values of one channel, 8 values of the two others, a middle scale, the darkest two and the brightest | normal form, closeness, no drift over four conversions |
| `header_lines` | buffer of 6 bytes, up to three lines of up to 11 | each line whole, end at the first empty line, for files without awkward lines |
| `header_reads` | three lines a header, two pictures with the readers that copy and one with the others | own header, own text |
| `calibration` | chains of 7 steps, stops -1, 0 and 2, floats and 8 bits | files, images, units and colours are right |
| `picture_files` | descriptions of up to 2 lines of 7 kinds, 4 views, 4 exposures, 1 or 2 rows; profiles of 0 to 6 markers numbered below 4, 4 comments, 2 edits; 6 kinds of PNG; a device that may fill up and a kill for one description or two of each kind | no reader returns a part of a picture; what is written is read back, and settles on the second trip; JPEG success is true; profile and comment are the own ones; layouts agree |
| `adjust` | 3 pixels of 2 channels out of 5 values, 3 exposures, both orders | end points, order of values, commutation |
| `tiff_files` | two files without tags (14 types) or one with them (6 types); widths 1, 4 and 6, 3 rows, strips of 12 bytes, 13 values, 2 focal lengths | rows, tags and types come back, buffers hold, libtiff refuses nothing but JPEG of a wrong type and jumps in compressed files |
| `each_line`, `photometric_units` | small | the first two findings below |

Why the bounds are enough. In `rle_pipe` the width exceeds
`Half`, so that runs are cut at `MaxRun` (3), non-runs at `MaxLit` (4), short
runs occur before, between and after long ones, and the second row finds the
buffer of the first. One of the two values, 5, is a run code and the other, 2,
is the magic byte, so that a reader out of step would take values for codes.
Rows of several components, and widths that need both bytes of the width, do not
occur in the run; they are in the proofs, which hold for every value of the
constants and cover all but the liveness. In `rle_foreign` one
byte announces a run, one begins a header, and 0 is the empty packet. The
7 pixels of `old_scanline` allow counts of two digits (6 = 0 + 1 * 6) in base 6;
the narrow rows have all pixels, which for 2 is a width that is not encoded. In
`header_lines` 11 bytes are three pieces of a buffer of 6. In `header_reads` a
header of three lines has the two VIEW lines and a third that may stand between.
In
`tiff_files` the widths make a buffer too small, too large and right for the next
file in both directions; the 13 values are 1, ties of both formats, carries into
the exponent and to infinity, denormalized numbers, infinities, NaN and 0, and a
row of 6 pixels of 3 samples has them all; three rows are one strip, or strips
of two rows and one, or of one each; -1 and 32767.4 mm are a focal length that is
refused and the longest that fits.
Chains of 7 steps pass each component of `Calibration` after every other; the
theorems need no bound. In `picture_files` two lines of description are enough
for one that ends the header and one that would follow, or for two records of a
kind; 12 bytes of profile make 6 markers of 2 with numbers of which 4 exist, so
that numbers wrap as they do at 256; a comment of 8 is longer than a marker (7);
the exposures 4 and 36 lose a digit, and 4 becomes 0; the two edits make any
pair of markers change places. One row is enough for the values of a header, two
for a row lost in the middle or at the end.

Fairness is assumed in one place, `FairSpec` of `RlePipe`: weak fairness of
`Write` and of `Read \/ EndOfFile`. Each stands for one process, and nothing in
either waits for anything but `getc`, which returns when a byte or the end of
the file has arrived. The writer may still stop at any byte.

Deadlock is checked in all runs but `rgbe`, whose conversions end with the bound
`MaxPasses`, and `tiff_files`, in which a program exits; elsewhere the ends are
steps of their own (`Finished`).

`TypeOK` is an invariant where sequences and indices run over each other (the
codec and `getheader`) and in `TiffFiles`, where it says that a directory still
tells the type of the file.

## What is proved

`RleProofs`, for every `Half`, `MinRun`, width, number of rows and components,
set of values and picture that satisfy `FormatAssumption` and `EncodedWidth`
(what color.c's own constants satisfy):

* `TypeCorrect`, `Lossless`, `Framing`, `OnlyCutsRefused`, `Complete`: the five
  invariants `TypeOK`, `DeliveredIsWritten`, `ReadAsMeant`, `RefusedOnlyIfCut`
  and `NothingLeftOver`;
* `PriceBounded`: `NeverExpands`, for `MinRun >= 3` (MINRUN is 4);
* `Refinement`: `Spec` implements `RowTransfer!Spec`.

None of the invariants is inductive: that the reader delivers the right row
depends on where in the stream the writer has put what. `IInv` adds that the
bytes form a chain in which each byte determines the place of the next
(`ChainInv`, with `Follow`), that each byte is right for its place in the
picture (`BytesInv`), that the writer stands at the end of the chain
(`WriterInv`) and the reader somewhere on it, with the pixels read so far in its
buffer (`ReaderInv`). A writer step extends the chain and leaves the reader's
place alone; a reader step follows one link. The refinement follows from
`IInv` before and after the step.

`ForeignAcceptance` and `ForeignStaysInRow`, in the same module, are
`AcceptsTheWellFormed` and `StaysInRow` of `RleForeign` (a run or a non-run that
is stored beyond the end of a component would leave the reader where no packet
ends), for every set of
beginnings and of bytes behind them (`ForeignAssumption`), any number of bytes and
a picture of one row.
The definition of a well-formed row is a recursion along the bytes, from a
packet to the one behind it. Such a recursion has one solution (`Unwound`),
which is found from its end, for a packet always leads to a later place. `ForeignInv` says
that the reader stands where a packet begins, or in one, that what remains
to be expanded there, put behind what it has stored, is the whole expansion, and that
the ends of the components it has passed were ends of packets (`ReadTo`). It accepts only
after the last of them, and refuses only where no packet can end as it should
(`Verdict`).

`PriceInv` is about the excess of the bytes of a component over its pixels. Each
non-run adds one, and a run of three pixels behind it takes one away, so that
where a search for a run begins the excess is at most the number of full
non-runs that would fit in front of it; inside a packet it may stand one or two
above that (`PriceAt`). The price holds because a non-run that is not full ends
at a run or at the end of the scanline (`Searched`), and it needs the three
pixels: with MINRUN 2 TLC finds a scanline that costs more.

`CalibrationProofs`, for every set of stops and any number of steps:
`Calibrated`, `CalibratedInMemory`, `InTheUnitsAsked` and `ColoursKept`. The
first three are inductive together, with the facts that an exposure that is not set counts as 1
(`UnsetIsOne`), that images of luminance have none set (`LuminanceUnset`), and
that the empty image has one form (`NothingRead`). The argument is in the laws
of the exponents (`Swap`, `Reciprocal`, `Neutral`): each reader and each writer
multiplies by what the difference of the two conventions requires. `EveryReader`
and `EveryWriter` reduce the eighteen routines to the four forms. `ColoursKept`
needs one fact besides (`ReadFromRadiance`): an image in memory was read from a
Radiance file, so that what a writer writes has the primaries of Radiance. That
is a fact about the programs, which keep no image over a conversion to TIFF.

`CalibrationProofs` also has the theorems about `Adjust`, for every set of
pixels and channels, every set of values and ratio of glare (`AdjustAssumption`):
`AdjustRange` (`RangeUsed`), `AdjustOrder` (`OrderIrrelevant`) and `AdjustUsual`
(`LeavesTheUsual`). The state of a converter is determined by the steps that are
left: `AdjustInv` says which picture it has after which steps (`Progress`), and
that the options do not exclude each other (`Request`). The rest is about
operators. The brightest and the darkest value of a picture are found by what
they are (`ExtremesUnique`), and so is the threshold (`ThresholdUnique`); an
exposure multiplies every value or the denominator by 1, 2, 4 or 8 (`ExposeIs`),
hence the extremes, the sum over the pixels (`SumTimesAsBright`) and the threshold by the same
factor, and leaves the same pixels without glare (`GlareScaled`). So the
factor leaves the rescaled values as a factor of both sides (`BothOrders`). The stops are
-3 to 3, as in the run, for the powers of two are a table.

`OldScanlineProofs`, for every width, base of the counts, picture and split of
its runs into markers (`OldAssumption`): `OldRowsLossless`, `OldRunsFit` and
`OldRefinement`, that is, `RowsAsWritten`, `LineIsPrefix` and the refinement of
`RowTransfer`. A token of the stream does not say how many pixels it stands for:
a marker counts for more the more markers stand before it. The inductive
invariant `OldInv` says that every position of the stream can be given a place
in the picture (row, pixels done, digits read) such that each token leads from
the place before it to the place behind it, the last place is the writer's, and
the place up to which the reader has read is the reader's. The places are
existentially quantified, no history variable is needed. That no row is taken
for an encoded one follows from `PixelOf`.

`RgbeProofs`, for every colour with channels -1 to 838 and every exponent of 12
to 255 (`RgbeAssumption`: as many digits as the model has of a float, and the
exponents for which a byte is enough), and any number of conversions:
`PixelsNormalised`, `PixelsStayClose` and `PixelsSettle`. `RgbeInv` says that
after the first conversion a pixel is black or the one that `setcolr` first made
of the colour (`Kept`), but for a power of two, whose largest mantissa 127 is
written once as 254 at half the scale (`Doubled`). What keeps it is the 0.5 that
`colr_color` adds and the 255.9999 of `setcolr`, whose products are bounded case
by case over a table of the eleven powers of two that occur.

`RadianceHeaderProofs`, for headers of any length, any set of options and any
number of pictures (`HeaderAssumption`): `HeaderOwned`, that is `OwnHeader`, and
`TextOwned`, that is `OwnText`, the latter under `MaxUncopied <= 1`: the readers
that do not copy the text are called once, as the programs here do (finding 4
is what happens otherwise). `HeaderInv` adds to `OwnHeader` that in the middle
of a read the static variables mean what `HeaderMeaning` says of the lines so
far (`Found`); the first half of the module says how each operator of
`HeaderMeaning` changes when a line is appended. `TextInv` has the block that
`headline` is filling, and that no two owners share a block.

`RadianceHeaderProofs` also has the theorems about `HeaderLines`, for every
length of the buffer and every file (`HeaderLinesAssumption`): `LinesTypeCorrect`, and for files without awkward
lines `LinesPassedWhole` and `HeaderEndsRight`. `WholeLines` and `HeaderEnd` are
not inductive, for a NUL put back would break them at a later call. `LinesInv`
adds that none ever is, and that inside a line the stream stands only at a
multiple of a piece, with more than an end of line in front of it (`AtCut`):
this is what the definition of `Awkward` is for, and the proof shows that no
other line does harm.

`PictureProofs`, for every set of pictures, size of markers and behaviour of the
device (`JpegAssumption`, `PictureAssumption`, `NullViewAssumption`):
`PicturesWholeOrRefused`, `PicturesReadBack`, `ReturnedPicturesSettle`,
`JpegReachesTheFile`, `ProfileReadAsWritten` (`OwnProfile`) and
`CommentReadAsWritten` (`OwnComment`). The assumptions say that texts, rows
and profiles are sequences, that exposures are numbers of the fixed point, that
views are records with the options of `DeVAS_null_view`, with a type other
than its own in the views `set_fov_in_view` makes, and with angles that are not
the -1 that stands for none, and that no comment is the mark that the model has
for a pointer left as it was.

`PictureInv` is about positions. While a writer goes on, what is in the file or
in the buffer (`Done`) and what is still to be written (`Left`) are the items of
the picture in this order (`InOrder`), as long as no error has occurred; a JPEG
or PNG writer stops at the first. A Radiance writer does not: `WritingShape`
says what holds all the same when parts of the header are missing, above all
that the k-th row still stands k places behind the resolution line, and that a
row follows a hole only in a flat picture. A full device or a kill leaves a
beginning with at most one torn item behind it (`Damaged`), or for flat pictures
`DiskShape`. On the reader's side, an empty line that is there is the one that
was written, so that all lines in front of it are too (`HeaderBack`), and the
lines of a plain description mean what the picture says (`RecordsText`,
`RecordsView`, `RecordsExposure`). `Settled` needs `SettledInv` besides: a
picture that a reader has returned can be described (`Returned`), and on a device
with room its file is complete when the writer is done, and then accepted
(`WholeAccepted`).

`OwnComment` and `OwnProfile` need `MarkerInv` besides: which markers a JPEG file
has is what was written, changed by the edits so far (`MarkersKept`). Of the
markers only two things count, the set of them and the number of those that
belong to a profile (`Has`): an edit changes these in the same way wherever it is
made, and a file cut off by a kill has an image only if it has all of them
(`HasDamaged`). If the numbers in the markers are right, each number finds the
chunk that was written with it, as long as `ByteRange` tells them apart
(`ProfileFound`), and the chunks one behind the other are the profile
(`ChunksJoin`). What was read stays true, for no edit comes after it.

`NatLemmas` takes the place of induction over data, which is out of the prover's
reach: a non-empty set of numbers with a bound has a largest element, so that
what holds of 0 and passes from each number to the next holds of all
(`FromZero`), and a recursive function along a sequence exists (`RunExists`);
what holds of the empty set, and of a set if it holds of the set without one
element, holds of every finite set (`SubsetByElement`), so that a sum over a set
exists and can be multiplied term by term (`SumExists`, `SumScaled`).
For that the modules define what is recursive as functions of a position
(`TextLines`, `ExposureOf`, `Weight`), not with SelectSeq or `^`.

`TiffProofs`, for any files, types, widths, number of rows, images, words, focal
lengths and sessions that satisfy `TiffAssumption`, and any order of calls:
`TiffDirectories` (`TypeOK`), `TiffRowsReadBack`, `TiffRowsFit`,
`TiffTagsReadBack` and `TiffReadAsWritten`. The assumption says of the types only
that no program asks for YCbCr, "file format only" in `tifftools.h`; the images
are cut from any sequence of floats of 32 bits. Four of the five properties are
about what the last call reported, so the work is in `FilesOK`: a file is not
made yet, or being written, or complete, or being read (`FileOK`), and in each
of these its directory in memory and the one on disk match the type
it was made with (`DirOK`), have the tags that the program set (`SameTags`, and
`FocalOK` for the one in the EXIF directory) and name a predictor or codec only
if that can encode the type, JPEG apart. The rows are those of the image, coded as the directory
says (`RowsOK`), and they were written by a routine for their type
(`ByOK`). Where a file stands is in `RowPoised`: after the last of the rows that
were just read, so that the row behind them is never refused. It is needed that a handle for rows decodes SGILOG to floats whenever
the file is compressed so (`Reading`), and that a scanline buffer is never smaller
than `old_scanline_size` says (`BufferOK`). One lemma for each action
(`Step_TT_write`, ...) shows that the invariant is kept.

Behind it are two parts without state. The table of types is turned into
what an entry that matches leaves for the tags (`LooksTells`), from which
follows that no two types look alike (`LooksType`), that YCBCR and the two forms
of the logarithmic types still tell the same type (`LooksYCbCr`, `LooksLog`),
and that a row fits the program's pixels (`RowBytes`). And `ThereAndBack` is
about each of the floats of 32 bits: what `float_to_half` and `float_to_triple`
make of it is the nearest number of 16 or 24 bits, with denormalized results,
carries, overflow, infinities and NaN, and `half_to_float` and `triple_to_float`
find what that number stands for, but for denormalized numbers of 24 bits
(finding 6). The powers of two are a table there (`TwoTo`), for the provers know
no law of powers.

Only model-checked: `ReadToTheEnd`, which is liveness.

## What the code does not keep

Found while modelling. The first two have a run with a counterexample.

1. `each_line`, `radiance/header.c:220`. A line of exactly 2046 bytes makes the
   next one arrive as an empty string: the NUL that `fgets` wrote is put back.
   If the next line is the empty one, the header has no end. A CR LF line of
   2048 bytes has its end split off as a line of its own that looks empty:
   the header ends too early. `Awkward` names these lines.
2. `photometric_units`, `radiance-tiff.c:242`. The readers of `radiance-tiff.c`
   do not divide an xyze pixel by WHTEFFICACY, so that `rad2tiff` of an xyze
   file is off by 179.
3. `radianceIO.c:266`. `DeVAS_luminance_image_from_radfile` multiplies by the
   exposure where it must divide; line 229 promises candela/m^2. `LuminanceRead`
   sets `mixed` when a file with an exposure is read with it. No program here
   does.
4. `radiance-header.c:187`. A second picture read by `radianceIO.c`
   frees the text that the first image points to. No program here reads two.
   Setting `MaxUncopied = 2` in `HeaderReads.cfg` shows it.
5. `tifftools.c:190` says that a YCbCr file is seen as RGB by the program, and
   `tifftools.h:66` that JPEG is supported for YCbCr. `TT_file_type` returns RGB
   for it, so that the case for YCbCr of `TT_open_read` (line 283) is never
   taken, JPEGCOLORMODE is not set, and libtiff refuses to decode the
   downsampled rows: what `TT_set_compression_jpeg` makes of an RGB file cannot
   be read here. For other types but gray that routine warns after COMPRESSION
   is set, and the first row is refused if its samples have not 8 bits.
   `ReadAsWritten` leaves out both.
6. `tifftools.c:1714`. `triple_to_float` looks for the leading 1 of a
   denormalized number at bit 13 of the 16: some come back 8 times too large,
   some as other numbers, and with the low 14 bits 0 the loop has no end.
7. `tifftoolsimage.c:188`. `TT_XYZ_image_from_filename` accepts a type that
   `TT_XYZ_image_from_file`, which it calls, refuses: it never succeeds.
8. `FOV.c:277`. A focal length below half a millimetre is kept as 0, one above
   32767 mm as a negative number, that is, as none.
9. `rad2tiff.c:584` says of `find_glare_threshold` that the average is
   recomputed without glare; line 635 returns the largest value below the first
   cutoff. `man/tiff2rad.1` documents `--RGBencoding`, the code has
   `--sRGBencoding`.
10. `radianceIO.c:133`, `devas-png.c:132`. The writers of Radiance and PNG files
    do not look at the result of `fclose`, and that of gray PNG pictures not at
    that of libpng either (line 195): they report success for a file that is cut
    off. `WholeOrRefused` shows that the readers refuse it.
11. `radiance/color.c:59`. A flat row asks `fwrite` alone and does not see that an
    earlier line of the header was lost. The picture is then read with a part of
    its description; `ReadBack` leaves it out.
12. `radiance-header.c:338`. Nothing in a description is escaped: an empty line
    ends the header, `FORMAT=` and `EXPOSURE=` become records, and a line of the
    shape of a resolution line behind an empty one is taken for it. `Plain` in
    `ReadBack` and `WholeOrRefused` names the descriptions without them.
13. `radiance-header.c:345`. An EXPOSURE below 0.0000005 is written as 0. A VIEW
    without a type is not written (line 348), and `set_fov_in_view` tests
    `hFOV` twice, never `vFOV` (`radiance-tiff.c:693`).
14. `devas-jpeg.c:171`. Every saved marker sets the comment, so that an EXIF
    record behind the comment hides it. A comment of more than 65533 bytes ends
    the program.
15. `devas-png.c:41`. The reader of RGB pictures sets the format before the call
    that overwrites it: a picture with alpha, of 16 bits or gray is delivered in
    its own layout. The reader of gray pictures sets it after ("has to come
    after"). No run states this: it is the first line of `FormatAsked`.
16. `radiance/color.c:287`. Floats of 2^127 and more get exponent 0 modulo 256:
    the brightest pixels are written as black. `Normalised` shows that no pixel
    read from a file has such a value.
17. `tiff32_to_8` copies none of STONITS, description and profile, and converts
    no primaries, although `tiff2rad` takes every file of 8 bits for sRGB;
    with `--linear` its result is read with the wrong curve. `tiff2rad` does not
    look at profiles. `mixed` and `astray` name these uses.
18. `radiance-header.c:145` prints a message to standard output, to which a
    converter may write a picture. It is in the reader, and no program here reads
    a Radiance file and writes one to standard output.

## What is not modelled, and why

Floating-point arithmetic other than that of `setcolr` (sRGB curves,
primaries, the trigonometry of `FOV.c`): TLC has no reals, and these functions
have no state. Parsing of command lines and texts: a conversion of strings that
the properties do not look at. The libraries in `external-libs`. Rendering
functions of the Radiance sources that no program here calls.

The share of the repository that the definitions stand for is small because
most of it, over nine tenths of the lines, is in `external-libs` (libtiff,
libjpeg, libpng, libexif, zlib, xz). Those are other projects, unchanged, and
are modelled only as far as this code leans on them; of the repository's own
sources about a third of all lines is modelled, and the rest is arithmetic,
command lines, declarations, tables and copies of loops.

Abstractions that matter: `Calibration` follows one pixel, leaves out
rounding (`Rgbe` has it), and knows kinds of colours, not colours; `HeaderLines`
and `RadianceHeader` are apart, that is, `RadianceHeader` is given whole lines;
`RadianceFiles` takes rows for granted if they are whole, as `RlePipe` and
`OldScanline` show of them, and `RowsRead` allows any outcome for items that are
not rows; in `JpegFiles` and `PngFiles` the libraries do not compress, and
their buffers and that of the stream are one; memory never runs out (the programs
exit then); in `TiffFiles` the codecs of
libtiff neither change samples nor compress, the warning that a predictor
corrupts the caller's row (`tifftools.c:1140`) is taken at its word (rows are
not used again), and integer and double rows, which have no reader, are left out.

## Plan

Ordered by what can go wrong unnoticed. Done in this state of the project, with
proofs: the codec, old scanlines, pixels, header lines, the header's variables
and its writer, Radiance, JPEG and PNG files, calibration, colours and
brightness, TIFF files.

1. `rad2tiff` and `tiff2rad` as a whole: which type, compression and tags they
   choose, composed with `TiffFiles`.
2. The focal length in the EXIF record of a JPEG picture, once an abstraction
   of libexif is worth its length.
