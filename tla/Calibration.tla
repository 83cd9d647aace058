----------------------------- MODULE Calibration -----------------------------
(***************************************************************************)
(* What the pixel values of a picture stand for on its way through readers,*)
(* writers and converters.  In an rgbe file they are radiance times the    *)
(* product of the EXPOSURE records, in an xyze file luminance times that   *)
(* product, in a TIFF file luminance divided by STONITS.  Each component   *)
(* keeps its own part of that convention: radianceIO.c, radiance-tiff.c,   *)
(* rad2tiff.c and tiff2rad.c.  How the numbers code a colour is a second   *)
(* convention, which tiff32_to_8.c has a part in.                          *)
(*                                                                         *)
(* One pixel is followed.  Its value is known up to powers of what it was  *)
(* multiplied and divided by, [e, w, s] for the EXPOSURE of the first file *)
(* to the e, WHTEFFICACY to the w and two (a stop) to the s, so that a     *)
(* result holds for every exposure and efficacy.  Quantization, the limits *)
(* of 8 bits and the six digits of an EXPOSURE record are not looked at,   *)
(* and nor are the options (the ranges, --offset) after which a pixel      *)
(* stands for nothing.                                                     *)
(***************************************************************************)
EXTENDS Integers

CONSTANTS
  Stops,      (* what --exposure=stop may be; 0 for none                   *)
  MaxSteps    (* bound of the exploration: reads, writes and conversions   *)

ASSUME CalibrationAssumption == Stops \subseteq Int /\ MaxSteps \in Nat

Value == [e : Int, w : Int, s : Int]

One         == [e |-> 0, w |-> 0, s |-> 0]
Exposure    == [e |-> 1, w |-> 0, s |-> 0]
WHTEFFICACY == [e |-> 0, w |-> 1, s |-> 0]
TwoTo(k)    == [e |-> 0, w |-> 0, s |-> k]
Times(a, b) == [e |-> a.e + b.e, w |-> a.w + b.w, s |-> a.s + b.s]
Over(a, b)  == [e |-> a.e - b.e, w |-> a.w - b.w, s |-> a.s - b.s]

(* The images of radianceIO.c and those of radiance-tiff.c.                *)
Radiometric == {"brightness", "RGBf"}
Photometric == {"XYZ", "xyY"}
TTSpaces    == {"TT_float", "TT_RGBf", "TT_XYZ", "TT_xyY"}
Spaces      == Radiometric \cup Photometric \cup TTSpaces \cup {"luminance"}
Units       == {"as they are", "original", "photometric"}
Encodings   == {"none", "sRGBencoding", "ldr"}

Formats == {"rgbe", "xyze"}

NoImage == [space |-> "none", pix |-> One, exposure_set |-> FALSE, exposure |-> One]

VARIABLES
  file,     (* the last file written: format "rgbe", "xyze" or "tiff", its *)
            (* pixel, EXPOSURE (1 if it has none) or STONITS, and the      *)
            (* units that rad2tiff was asked for                           *)
  image,    (* the picture in memory, and what its header or description   *)
            (* of it says of the exposure                                  *)
  scene,    (* the luminance that the picture should stand for             *)
  mixed,    (* a program has met a case that it is not right for           *)
  colours,  (* how the pixels of the file code colours, whether in 8 bits, *)
            (* and the ICC profile of a TIFF                               *)
  astray,   (* a program was told something else of the colours of its     *)
            (* input than the input says, or changed them by half          *)
  steps

vars == <<file, image, scene, mixed, colours, astray, steps>>

colourvars == <<colours, astray>>

RadFile(format, pix, set, exposure) ==
  [format |-> format, pix |-> pix, tag_set |-> set,
   tag |-> IF set THEN exposure ELSE One, units |-> "as they are"]
Tiff(pix, set, stonits, units) ==
  [format |-> "tiff", pix |-> pix, tag_set |-> set, tag |-> stonits, units |-> units]

Coding(primaries, curve, bytes, profile) ==
  [primaries |-> primaries, curve |-> curve, bytes |-> bytes, profile |-> profile]

(* What is said of the colours of a Radiance file, and of TIFF files with  *)
(* floats and with 8 bits.                                                 *)
RadianceColours == Coding("Radiance", "linear", FALSE, "none")
LinearSRGB      == Coding("sRGB", "linear", FALSE, "linear sRGB")
SRGB            == {Coding("sRGB", "sRGB", TRUE, profile) : profile \in {"none", "sRGB"}}
TiffColours     == {RadianceColours, LinearSRGB} \cup SRGB

(* The luminance that a file stands for.  A TIFF without STONITS is taken  *)
(* for a Radiance picture without EXPOSURE.                                *)
FileLuminance(f) ==
  CASE f.format = "rgbe" -> Over(Times(f.pix, WHTEFFICACY), f.tag)
    [] f.format = "xyze" -> Over(f.pix, f.tag)
    [] OTHER             -> Times(f.pix, IF f.tag_set THEN f.tag ELSE WHTEFFICACY)

(* And an image. *)
ImageLuminance(im) ==
  CASE im.space \in Radiometric \cup TTSpaces ->
         Over(Times(im.pix, WHTEFFICACY), im.exposure)
    [] im.space \in Photometric -> Over(im.pix, im.exposure)
    [] OTHER                    -> im.pix

Init ==
  /\ \E set \in BOOLEAN :
       \/ /\ \E format \in Formats : file = RadFile(format, One, set, Exposure)
          /\ colours = RadianceColours
       \/ file = Tiff(One, set, Exposure, "as they are") /\ colours \in TiffColours
  /\ image = NoImage /\ scene = FileLuminance(file) /\ mixed = FALSE /\ steps = 0
  /\ astray = FALSE

Step == steps < MaxSteps /\ steps' = steps + 1

-----------------------------------------------------------------------------
(* The readers of Radiance files.                                          *)

(* Mutated form: xyze is not converted to radiance.                        *)
BugDeVASPixel(space) == IF space \in Photometric /\ file.format = "rgbe"
                        THEN Times(file.pix, WHTEFFICACY) ELSE file.pix

(* What the DeVAS readers make of a pixel of the file, but for luminance.  *)
DeVASPixel(space) ==
  CASE space \in Radiometric /\ file.format = "xyze" -> Over(file.pix, WHTEFFICACY)
    [] space \in Photometric /\ file.format = "rgbe" -> Times(file.pix, WHTEFFICACY)
    [] OTHER                                         -> file.pix

(* Mutated form: the exposure is not copied.                               *)
BugDeVASRead(space) ==
  /\ Step /\ file.format \in Formats /\ space \in Radiometric \cup Photometric
  /\ image' = [space |-> space, pix |-> DeVASPixel(space),
               exposure_set |-> FALSE, exposure |-> One]
  /\ UNCHANGED <<file, scene, mixed, colourvars>>

DeVASRead(space) ==
  /\ Step /\ file.format \in Formats /\ space \in Radiometric \cup Photometric
  /\ image' = [space |-> space, pix |-> DeVASPixel(space),
               exposure_set |-> file.tag_set, exposure |-> file.tag]
  /\ UNCHANGED <<file, scene, mixed, colourvars>>

(* Cd/m^2: the exposure is worked into the values and not copied.          *)
LuminanceRead ==
  /\ Step /\ file.format \in Formats
  /\ image' = [space |-> "luminance",
               pix |-> Times(file.tag, IF file.format = "rgbe"
                                       THEN Times(file.pix, WHTEFFICACY)
                                       ELSE file.pix),
               exposure_set |-> FALSE, exposure |-> One]
  /\ mixed' = (mixed \/ file.tag_set)
  /\ UNCHANGED <<file, scene, colourvars>>

(* The readers of radiance-tiff.c convert the colours and nothing else.    *)
TTRead(space) ==
  /\ Step /\ file.format \in Formats /\ space \in TTSpaces
  /\ image' = [space |-> space, pix |-> file.pix,
               exposure_set |-> file.tag_set, exposure |-> file.tag]
  /\ mixed' = (mixed \/ file.format = "xyze")
  /\ UNCHANGED <<file, scene, colourvars>>

(* The writers: an rgbe file in all cases.  The picture stays in memory.   *)
WrittenPixel ==
  IF image.space \in Photometric \cup {"luminance"}
  THEN Over(image.pix, WHTEFFICACY) ELSE image.pix

Write ==
  /\ Step /\ image # NoImage
  /\ file' = RadFile("rgbe", WrittenPixel, image.exposure_set, image.exposure)
  /\ UNCHANGED <<image, scene, mixed, colourvars>>

-----------------------------------------------------------------------------
(* One routine of each kind for every kind of image, opened by name or     *)
(* already open.                                                           *)
DeVAS_brightness_image_from_radfile == DeVASRead("brightness")
DeVAS_RGBf_image_from_radfile       == DeVASRead("RGBf")
DeVAS_XYZ_image_from_radfile        == DeVASRead("XYZ")
DeVAS_xyY_image_from_radfile        == DeVASRead("xyY")
DeVAS_luminance_image_from_radfile  == LuminanceRead
TT_float_image_from_radfile         == TTRead("TT_float")
TT_RGBf_image_from_radfile          == TTRead("TT_RGBf")
TT_XYZ_image_from_radfile           == TTRead("TT_XYZ")
TT_xyY_image_from_radfile           == TTRead("TT_xyY")

FromRadfile == \/ DeVAS_brightness_image_from_radfile
               \/ DeVAS_RGBf_image_from_radfile
               \/ DeVAS_XYZ_image_from_radfile
               \/ DeVAS_xyY_image_from_radfile
               \/ DeVAS_luminance_image_from_radfile
               \/ TT_float_image_from_radfile
               \/ TT_RGBf_image_from_radfile
               \/ TT_XYZ_image_from_radfile
               \/ TT_xyY_image_from_radfile

DeVAS_brightness_image_to_radfile == image.space = "brightness" /\ Write
DeVAS_RGBf_image_to_radfile       == image.space = "RGBf" /\ Write
DeVAS_XYZ_image_to_radfile        == image.space = "XYZ" /\ Write
DeVAS_xyY_image_to_radfile        == image.space = "xyY" /\ Write
DeVAS_luminance_image_to_radfile  == image.space = "luminance" /\ Write
TT_float_image_to_radfile         == image.space = "TT_float" /\ Write
TT_RGBf_image_to_radfile          == image.space = "TT_RGBf" /\ Write
TT_XYZ_image_to_radfile           == image.space = "TT_XYZ" /\ Write
TT_xyY_image_to_radfile           == image.space = "TT_xyY" /\ Write

ToRadfile == \/ DeVAS_brightness_image_to_radfile
             \/ DeVAS_RGBf_image_to_radfile
             \/ DeVAS_XYZ_image_to_radfile
             \/ DeVAS_xyY_image_to_radfile
             \/ DeVAS_luminance_image_to_radfile
             \/ TT_float_image_to_radfile
             \/ TT_RGBf_image_to_radfile
             \/ TT_XYZ_image_to_radfile
             \/ TT_xyY_image_to_radfile

-----------------------------------------------------------------------------
(* rad2tiff: original_units and photometric_units set header.exposure to   *)
(* 1.0; the tag goes by the options.                                       *)

(* Mutated form: the exposure is applied once more.                        *)
BugInUnits(units) ==
  CASE units = "original"    -> Times(file.pix, file.tag)
    [] units = "photometric" -> Times(file.pix, Times(WHTEFFICACY, file.tag))
    [] OTHER                 -> file.pix

InUnits(units) ==
  CASE units = "original"    -> Over(file.pix, file.tag)
    [] units = "photometric" -> Times(file.pix, Over(WHTEFFICACY, file.tag))
    [] OTHER                 -> file.pix

STONITS(units) ==
  CASE units = "original"    -> WHTEFFICACY
    [] units = "photometric" -> One
    [] OTHER                 -> Over(WHTEFFICACY, file.tag)

(* comprgb2rgbWBmat, right for numbers in the other primaries only.        *)
ToSRGB(c)     == IF c.primaries = "Radiance" THEN "sRGB" ELSE "wrong"
ToRadiance(c) == IF c.primaries = "sRGB" THEN "Radiance" ELSE "wrong"

(* Y_to_gray and RGBf_to_sRGB, gray_to_Y and sRGB_to_RGBf.                 *)
Encoded(c) == IF c.curve = "linear" THEN "sRGB" ELSE "wrong"
Decoded(c) == IF c.curve = "sRGB" THEN "linear" ELSE "wrong"

(* Mutated form: --ldr does not imply --sRGBencoding.                      *)
Bugsrgb_encoding_flag(encoding) == encoding = "sRGBencoding"

(* "implied by --ldr" *)
srgb_encoding_flag(encoding) == encoding # "none"

Rad2tiff(units, stops, encoding) ==
  /\ Step /\ file.format \in Formats
  /\ file' = Tiff(Times(InUnits(units), TwoTo(stops)), TRUE, STONITS(units), units)
  /\ scene' = Times(scene, TwoTo(stops))       \* what the user asked for
  /\ image' = NoImage
  /\ mixed' = (mixed \/ file.format = "xyze")
  /\ colours' = Coding(
       IF srgb_encoding_flag(encoding) THEN ToSRGB(colours) ELSE colours.primaries,
       IF encoding = "ldr" THEN Encoded(colours) ELSE colours.curve,
       encoding = "ldr",
       CASE encoding = "none"         -> "none"
         [] encoding = "sRGBencoding" -> "linear sRGB"
         [] encoding = "ldr"          -> "sRGB")
  /\ UNCHANGED astray

(* It does not look at the profile: --sRGBencoding tells it the primaries  *)
(* of floats.                                                              *)
Tiff2rad(flag) ==
  /\ Step /\ file.format = "tiff"
  /\ file' = RadFile("rgbe", file.pix, file.tag_set, Over(WHTEFFICACY, file.tag))
  /\ image' = NoImage
  /\ colours' = Coding(
       IF flag \/ colours.bytes THEN ToRadiance(colours) ELSE colours.primaries,
       IF colours.bytes THEN Decoded(colours) ELSE colours.curve, FALSE, "none")
  /\ astray' = (astray \/ (~colours.bytes /\ flag # (colours.profile = "linear sRGB")))
  /\ UNCHANGED <<scene, mixed>>

(* Of the tags of its input the new file has none.  Primaries are never    *)
(* converted, although all programs take 8 bits for sRGB.                  *)
Tiff32_to_8(linear_flag) ==
  /\ Step /\ file.format = "tiff" /\ ~colours.bytes
  /\ file' = Tiff(file.pix, FALSE, One, "as they are")
  /\ image' = NoImage
  /\ mixed' = (mixed \/ file.tag_set \/ linear_flag)
  /\ colours' = Coding(colours.primaries,
       IF linear_flag THEN colours.curve ELSE Encoded(colours), TRUE, "none")
  /\ astray' = (astray \/ linear_flag \/ colours.profile # "linear sRGB")
  /\ UNCHANGED scene

Finished == steps = MaxSteps /\ UNCHANGED vars

Next == \/ FromRadfile
        \/ ToRadfile
        \/ \E units \in Units, stops \in Stops, encoding \in Encodings :
             Rad2tiff(units, stops, encoding)
        \/ \E flag \in BOOLEAN : Tiff2rad(flag)
        \/ \E linear_flag \in BOOLEAN : Tiff32_to_8(linear_flag)
        \/ Finished

Spec == Init /\ [][Next]_vars

-----------------------------------------------------------------------------
(* However a picture is read, written and converted, it goes on standing   *)
(* for the luminance of its scene, changed by the stops that were asked    *)
(* for: no conversion forgets the exposure, takes it twice, or mixes the   *)
(* photometric and the radiometric.  Not so once an xyze file has gone     *)
(* through radiance-tiff.c, the EXPOSURE of a file through the reader of   *)
(* luminance, or STONITS through tiff32_to_8.                              *)
FileCalibrated == ~mixed => FileLuminance(file) = scene

(* The same for pictures in memory. *)
ImageCalibrated == ~mixed /\ image # NoImage => ImageLuminance(image) = scene

(* --original-units and --photometric-units make pixels that need no tag,  *)
(* radiance and luminance.                                                 *)
UnitsAsAsked ==
  ~mixed /\ file.format = "tiff" =>
    /\ file.units = "original" => Times(file.pix, WHTEFFICACY) = scene
    /\ file.units = "photometric" => file.pix = scene

(* The numbers of a file are what its kind and its profile say: after any  *)
(* chain of conversions a Radiance file has its own primaries, a TIFF with *)
(* a profile those of the profile, and one of 8 bits is sRGB throughout,   *)
(* although tiff2rad looks at no profile and is told by its user.          *)
ColoursTold ==
  ~astray => colours \in IF file.format = "tiff" THEN TiffColours ELSE {RadianceColours}

(* "This will result in correctly scaled photometric units in the output   *)
(* TIFF file".                                                             *)
PhotometricUnits ==
  file.format = "tiff" /\ file.units = "photometric" => file.pix = scene
=============================================================================
