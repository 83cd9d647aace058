-------------------------- MODULE CalibrationProofs --------------------------
(***************************************************************************)
(* The invariants of Calibration for every set of stops and any number of  *)
(* conversions.                                                            *)
(*                                                                         *)
(* Inductive they are together, and with two facts on the exposure: a      *)
(* picture that has none set counts as exposed by 1, in a file and in      *)
(* memory; and the image of luminance has none.  That of the colours rests *)
(* on one more: an image was read from a Radiance file.                    *)
(*                                                                         *)
(* The second part is about Adjust.                                        *)
(***************************************************************************)
EXTENDS Calibration, Adjust, NatLemmas

FileType  == [format : Formats \cup {"tiff"}, pix : Value, tag_set : BOOLEAN,
              tag : Value, units : Units]
ImageType == [space : Spaces \cup {"none"}, pix : Value,
              exposure_set : BOOLEAN, exposure : Value]

TypeInv ==
  /\ file \in FileType /\ image \in ImageType /\ scene \in Value
  /\ mixed \in BOOLEAN

UnsetIsOne ==
  /\ file.format \in Formats /\ ~file.tag_set => file.tag = One
  /\ ~image.exposure_set => image.exposure = One

LuminanceUnset == image.space = "luminance" => ~image.exposure_set

NothingRead == image.space = "none" => image = NoImage

IInv == /\ TypeInv /\ UnsetIsOne /\ LuminanceUnset /\ NothingRead
        /\ FileCalibrated /\ ImageCalibrated /\ UnitsAsAsked

-----------------------------------------------------------------------------
(* Values are closed under what the code does with them.                   *)
LEMMA Closed ==
  /\ One \in Value /\ Exposure \in Value /\ WHTEFFICACY \in Value
  /\ \A k \in Int : TwoTo(k) \in Value
  /\ \A a, b \in Value : Times(a, b) \in Value /\ Over(a, b) \in Value
BY DEF Value, One, Exposure, WHTEFFICACY, TwoTo, Times, Over

(* And they are a commutative group; these laws are used by name.          *)
LEMMA Swap ==
  \A a, b, c \in Value : Times(Times(a, b), c) = Times(Times(a, c), b)
BY DEF Value, Times

LEMMA Reciprocal ==
  \A a, b, c \in Value : Over(Times(a, b), Over(b, c)) = Times(a, c)
BY DEF Value, Times, Over

LEMMA Neutral ==
  \A a \in Value : Times(a, One) = a /\ Over(a, One) = a
BY DEF Value, Times, Over, One

(* The names of spaces and formats are different.                          *)
LEMMA Names ==
  /\ Radiometric \cap Photometric = {} /\ TTSpaces \cap Photometric = {}
  /\ \A space \in Radiometric \cup Photometric \cup TTSpaces :
       space \in Spaces /\ space # "luminance" /\ space # "none"
  /\ "luminance" \in Spaces /\ "tiff" \notin Formats
  /\ "luminance" \notin Radiometric \cup Photometric \cup TTSpaces
  /\ Formats = {"rgbe", "xyze"}
BY DEF Radiometric, Photometric, TTSpaces, Spaces, Formats

(* In every initial state the scene is what the file says.                 *)
LEMMA InitIInv == Init => IInv
<1> SUFFICES ASSUME Init PROVE IInv
  OBVIOUS
<1>1. image = NoImage /\ scene = FileLuminance(file) /\ mixed = FALSE
  BY DEF Init
<1>2. /\ file \in FileType
      /\ file.units = "as they are"
      /\ file.format \in Formats /\ ~file.tag_set => file.tag = One
  <2>1. PICK set \in BOOLEAN :
          \/ \E format \in Formats : file = RadFile(format, One, set, Exposure)
          \/ file = Tiff(One, set, Exposure, "as they are")
    BY Zenon DEF Init
  <2>2. CASE \E format \in Formats : file = RadFile(format, One, set, Exposure)
    <3>1. PICK format \in Formats : file = RadFile(format, One, set, Exposure)
      BY <2>2
    <3> QED
      BY <2>1, <3>1, Closed DEF RadFile, FileType, Units
  <2>3. CASE file = Tiff(One, set, Exposure, "as they are")
    BY <2>1, <2>3, Closed, Names DEF Tiff, FileType, Units
  <2> QED
    BY <2>1, <2>2, <2>3
<1>3. scene \in Value
  BY <1>1, <1>2, Closed DEF FileLuminance, FileType
<1>4. image \in ImageType
  BY <1>1, Closed DEF NoImage, ImageType
<1> QED
  BY <1>1, <1>2, <1>3, <1>4, Names
  DEF IInv, TypeInv, UnsetIsOne, LuminanceUnset, NothingRead, NoImage,
      FileCalibrated, ImageCalibrated, UnitsAsAsked

-----------------------------------------------------------------------------
(* The DeVAS readers: photometric images hold luminance, the others        *)
(* radiance, whatever the format of the file.                              *)
LEMMA DeVASReadIInv ==
  ASSUME IInv, NEW space \in Spaces, DeVASRead(space)
  PROVE  IInv'
<1> DEFINE im == [space |-> space, pix |-> DeVASPixel(space),
                  exposure_set |-> file.tag_set, exposure |-> file.tag]
<1>1. /\ image' = im /\ UNCHANGED <<file, scene, mixed>>
      /\ file.format \in Formats /\ space \in Radiometric \cup Photometric
  BY DEF DeVASRead
<1>2. /\ file.pix \in Value /\ file.tag \in Value /\ file.tag_set \in BOOLEAN
      /\ DeVASPixel(space) \in Value
  BY Closed DEF IInv, TypeInv, FileType, DeVASPixel
<1>3. im \in ImageType /\ im.space = space
  BY <1>1, <1>2, Names DEF ImageType
<1>4. ImageLuminance(im) = FileLuminance(file)
  <2>1. CASE space \in Radiometric /\ file.format = "xyze"
    <3>1. ImageLuminance(im) = Over(Times(Over(file.pix, WHTEFFICACY), WHTEFFICACY),
                                    file.tag)
      <4>1. DeVASPixel(space) = Over(file.pix, WHTEFFICACY)
        BY <2>1, Names DEF DeVASPixel
      <4> QED
        BY <2>1, <4>1, Names DEF ImageLuminance
    <3>2. FileLuminance(file) = Over(file.pix, file.tag)
      BY <2>1 DEF FileLuminance
    <3> QED
      BY <3>1, <3>2, <1>2 DEF Value, Times, Over, One, WHTEFFICACY
  <2>2. CASE space \in Radiometric /\ file.format = "rgbe"
    BY <2>2, <1>2, Names DEF ImageLuminance, DeVASPixel, FileLuminance
  <2>3. CASE space \in Photometric
    BY <2>3, <1>1, <1>2, Names DEF ImageLuminance, DeVASPixel, FileLuminance, TTSpaces,
       Radiometric, Photometric, Formats
  <2> QED
    BY <1>1, <2>1, <2>2, <2>3, Names
<1>5. ImageCalibrated'
  BY <1>1, <1>4 DEF ImageCalibrated, IInv, FileCalibrated, FileLuminance, ImageLuminance
<1>6. TypeInv' /\ FileCalibrated' /\ UnitsAsAsked'
  BY <1>1, <1>3
  DEF IInv, TypeInv, FileCalibrated, UnitsAsAsked, FileLuminance
<1>7. UnsetIsOne' /\ LuminanceUnset' /\ NothingRead'
  BY <1>1, <1>3, Names DEF IInv, UnsetIsOne, LuminanceUnset, NothingRead
<1> QED
  BY <1>5, <1>6, <1>7 DEF IInv

(* The readers of radiance-tiff.c, right for rgbe.                         *)
LEMMA TTReadIInv ==
  ASSUME IInv, NEW space \in Spaces, TTRead(space)
  PROVE  IInv'
<1> DEFINE im == [space |-> space, pix |-> file.pix,
                  exposure_set |-> file.tag_set, exposure |-> file.tag]
<1>1. /\ image' = im /\ UNCHANGED <<file, scene>>
      /\ file.format \in Formats /\ space \in TTSpaces
      /\ mixed' = (mixed \/ file.format = "xyze")
  BY DEF TTRead
<1>2. /\ file.pix \in Value /\ file.tag \in Value /\ file.tag_set \in BOOLEAN
      /\ mixed \in BOOLEAN
  BY DEF IInv, TypeInv, FileType
<1>3. im \in ImageType /\ im.space = space
  BY <1>1, <1>2, Names DEF ImageType
<1>4. ~mixed' => ~mixed /\ file.format = "rgbe"
  BY <1>1, <1>2, Names
<1>5. file.format = "rgbe" => ImageLuminance(im) = FileLuminance(file)
  BY <1>1, <1>2, Names DEF ImageLuminance, FileLuminance
<1>6. ImageCalibrated' /\ FileCalibrated' /\ UnitsAsAsked'
  BY <1>1, <1>4, <1>5
  DEF ImageCalibrated, IInv, FileCalibrated, UnitsAsAsked, FileLuminance, ImageLuminance
<1>7. TypeInv' /\ UnsetIsOne' /\ LuminanceUnset' /\ NothingRead'
  BY <1>1, <1>2, <1>3, Names
  DEF IInv, TypeInv, UnsetIsOne, LuminanceUnset, NothingRead
<1> QED
  BY <1>6, <1>7 DEF IInv

(* The reader of luminance, right where no exposure is set.                *)
LEMMA LuminanceReadIInv ==
  ASSUME IInv, LuminanceRead
  PROVE  IInv'
<1> DEFINE pix == IF file.format = "rgbe" THEN Times(file.pix, WHTEFFICACY)
                                          ELSE file.pix
           im == [space |-> "luminance", pix |-> Times(file.tag, pix),
                  exposure_set |-> FALSE, exposure |-> One]
<1>1. /\ image' = im /\ UNCHANGED <<file, scene>> /\ file.format \in Formats
      /\ mixed' = (mixed \/ file.tag_set)
  BY DEF LuminanceRead
<1>2. /\ file.pix \in Value /\ file.tag \in Value /\ file.tag_set \in BOOLEAN
      /\ mixed \in BOOLEAN /\ pix \in Value
  BY Closed DEF IInv, TypeInv, FileType
<1>3. im \in ImageType
  BY <1>2, Closed, Names DEF ImageType
<1>4. ~mixed' => ~mixed /\ file.tag = One
  BY <1>1, <1>2 DEF IInv, UnsetIsOne
<1>5. file.tag = One => ImageLuminance(im) = FileLuminance(file)
  <2>1. SUFFICES ASSUME file.tag = One PROVE ImageLuminance(im) = FileLuminance(file)
    OBVIOUS
  <2>2. ImageLuminance(im) = Times(One, pix)
    BY <2>1, Names DEF ImageLuminance
  <2>3. FileLuminance(file) = Over(pix, One)
    BY <2>1, <1>1, Names DEF FileLuminance
  <2> QED
    BY <2>2, <2>3, <1>2 DEF Times, Over, One, Value
<1>6. ImageCalibrated' /\ FileCalibrated' /\ UnitsAsAsked'
  BY <1>1, <1>4, <1>5
  DEF ImageCalibrated, IInv, FileCalibrated, UnitsAsAsked, FileLuminance, ImageLuminance
<1>7. TypeInv' /\ UnsetIsOne' /\ LuminanceUnset' /\ NothingRead'
  BY <1>1, <1>2, <1>3, Names
  DEF IInv, TypeInv, UnsetIsOne, LuminanceUnset, NothingRead
<1> QED
  BY <1>6, <1>7 DEF IInv

(* The writers undo what the readers did. *)
LEMMA WriteIInv ==
  ASSUME IInv, Write
  PROVE  IInv'
<1>1. /\ file' = RadFile("rgbe", WrittenPixel, image.exposure_set, image.exposure)
      /\ image # NoImage /\ UNCHANGED <<image, scene, mixed>>
  BY DEF Write
<1>2. /\ image.pix \in Value /\ image.exposure \in Value
      /\ image.exposure_set \in BOOLEAN /\ image.space \in Spaces
      /\ WrittenPixel \in Value
  BY <1>1, Closed DEF IInv, TypeInv, ImageType, WrittenPixel, NothingRead
<1>3. file'.tag = image.exposure /\ file'.pix = WrittenPixel /\ file'.format = "rgbe"
  BY <1>1, <1>2 DEF RadFile, IInv, UnsetIsOne
<1>4. FileLuminance(file') = Over(Times(WrittenPixel, WHTEFFICACY), image.exposure)
  BY <1>3 DEF FileLuminance
<1>5. FileLuminance(file') = ImageLuminance(image)
  <2>1. CASE image.space \in Radiometric \cup TTSpaces
    BY <2>1, <1>4, Names DEF WrittenPixel, ImageLuminance
  <2>2. CASE image.space \in Photometric
    <3>1. FileLuminance(file') =
            Over(Times(Over(image.pix, WHTEFFICACY), WHTEFFICACY), image.exposure)
      BY <2>2, <1>4 DEF WrittenPixel
    <3>2. ImageLuminance(image) = Over(image.pix, image.exposure)
      BY <2>2, Names DEF ImageLuminance, TTSpaces, Radiometric, Photometric
    <3> QED
      BY <3>1, <3>2, <1>2 DEF Value, Times, Over, One, WHTEFFICACY
  <2>3. CASE image.space = "luminance"
    <3>1. image.exposure = One
      BY <2>3 DEF IInv, LuminanceUnset, UnsetIsOne
    <3>2. FileLuminance(file') =
            Over(Times(Over(image.pix, WHTEFFICACY), WHTEFFICACY), One)
      BY <2>3, <1>4, <3>1 DEF WrittenPixel
    <3>3. ImageLuminance(image) = image.pix
      BY <2>3, Names DEF ImageLuminance
    <3> QED
      BY <3>2, <3>3, <1>2 DEF Value, Times, Over, One, WHTEFFICACY
  <2> QED
    BY <1>2, <2>1, <2>2, <2>3 DEF Spaces
<1>6. FileCalibrated' /\ ImageCalibrated'
  BY <1>1, <1>5 DEF IInv, FileCalibrated, ImageCalibrated, FileLuminance, ImageLuminance
<1>7. file' \in FileType /\ file'.units = "as they are"
  BY <1>1, <1>2, Closed, Names DEF RadFile, FileType, Units
<1>8. TypeInv' /\ UnsetIsOne' /\ LuminanceUnset' /\ NothingRead' /\ UnitsAsAsked'
  BY <1>1, <1>2, <1>3, <1>7, Names
  DEF IInv, TypeInv, UnsetIsOne, LuminanceUnset, NothingRead, UnitsAsAsked, RadFile
<1> QED
  BY <1>6, <1>8 DEF IInv

(* rad2tiff: units and STONITS go together.                                *)
LEMMA Rad2tiffIInv ==
  ASSUME CalibrationAssumption, IInv, NEW units \in Units, NEW by \in Stops,
         NEW encoding \in Encodings, Rad2tiff(units, by, encoding)
  PROVE  IInv'
<1> DEFINE f == Tiff(Times(InUnits(units), TwoTo(by)), TRUE, STONITS(units), units)
<1>1. /\ file' = f /\ image' = NoImage /\ scene' = Times(scene, TwoTo(by))
      /\ mixed' = (mixed \/ file.format = "xyze") /\ file.format \in Formats
  BY DEF Rad2tiff
<1>2. /\ file.pix \in Value /\ file.tag \in Value /\ mixed \in BOOLEAN
      /\ scene \in Value /\ TwoTo(by) \in Value
      /\ InUnits(units) \in Value /\ STONITS(units) \in Value
  BY Closed DEF IInv, TypeInv, FileType, InUnits, STONITS, CalibrationAssumption
<1>3. /\ f \in FileType /\ f.units = units /\ f.format = "tiff"
      /\ f.pix = Times(InUnits(units), TwoTo(by)) /\ f.tag = STONITS(units)
      /\ f.tag_set = TRUE
  BY <1>2, Closed, Names DEF Tiff, FileType
<1>4. ~mixed' => ~mixed /\ scene = Over(Times(file.pix, WHTEFFICACY), file.tag)
  BY <1>1, <1>2, Names DEF IInv, FileCalibrated, FileLuminance
<1>5. FileLuminance(f) = Times(Times(InUnits(units), TwoTo(by)), STONITS(units))
  BY <1>3, Names DEF FileLuminance, Formats
<1>6. Times(InUnits(units), STONITS(units)) = Over(Times(file.pix, WHTEFFICACY), file.tag)
  <2>1. CASE units = "original"
    <3>1. InUnits(units) = Over(file.pix, file.tag) /\ STONITS(units) = WHTEFFICACY
      BY <2>1 DEF InUnits, STONITS
    <3> QED
      BY <3>1, <1>2 DEF Value, Times, Over, One, WHTEFFICACY
  <2>2. CASE units = "photometric"
    <3>1. /\ InUnits(units) = Times(file.pix, Over(WHTEFFICACY, file.tag))
          /\ STONITS(units) = One
      BY <2>2 DEF InUnits, STONITS
    <3> QED
      BY <3>1, <1>2 DEF Value, Times, Over, One, WHTEFFICACY
  <2>3. CASE units = "as they are"
    <3>1. InUnits(units) = file.pix /\ STONITS(units) = Over(WHTEFFICACY, file.tag)
      BY <2>3 DEF InUnits, STONITS
    <3> QED
      BY <3>1, <1>2 DEF Value, Times, Over, One, WHTEFFICACY
  <2> QED
    BY <2>1, <2>2, <2>3 DEF Units
<1>7. FileLuminance(f)
        = Times(Over(Times(file.pix, WHTEFFICACY), file.tag), TwoTo(by))
  <2>1. Times(Times(InUnits(units), TwoTo(by)), STONITS(units))
          = Times(Times(InUnits(units), STONITS(units)), TwoTo(by))
    BY <1>2, Swap
  <2> QED
    BY <2>1, <1>5, <1>6
<1>8. FileCalibrated'
  <2>1. FileLuminance(file') = FileLuminance(f)
    BY <1>1
  <2> QED
    BY <2>1, <1>1, <1>4, <1>7 DEF FileCalibrated, FileLuminance
<1>9. UnitsAsAsked'
  <2>1. SUFFICES ASSUME ~mixed'
                 PROVE  /\ units = "original" =>
                             Times(f.pix, WHTEFFICACY) = scene'
                        /\ units = "photometric" => f.pix = scene'
    BY <1>1, <1>3 DEF UnitsAsAsked
  <2>2. scene' = FileLuminance(f)
    BY <2>1, <1>1, <1>4, <1>7
  <2>3. FileLuminance(f) = Times(f.pix, STONITS(units))
    BY <1>3, <1>5
  <2>4. units = "original" => STONITS(units) = WHTEFFICACY
    BY DEF STONITS
  <2>5. units = "photometric" => STONITS(units) = One
    BY DEF STONITS
  <2>6. f.pix \in Value
    BY <1>2, <1>3, Closed
  <2> QED
    BY <2>2, <2>3, <2>4, <2>5, <2>6, Neutral
<1>10. TypeInv' /\ UnsetIsOne'
  BY <1>1, <1>2, <1>3, Closed, Names
  DEF IInv, TypeInv, UnsetIsOne, NoImage, ImageType
<1>11. LuminanceUnset' /\ NothingRead' /\ ImageCalibrated'
  BY <1>1 DEF LuminanceUnset, NothingRead, NoImage, ImageCalibrated
<1> QED
  BY <1>8, <1>9, <1>10, <1>11 DEF IInv

(* tiff2rad turns STONITS back into an exposure. *)
LEMMA Tiff2radIInv ==
  ASSUME IInv, NEW flag \in BOOLEAN, Tiff2rad(flag)
  PROVE  IInv'
<1> DEFINE f == RadFile("rgbe", file.pix, file.tag_set, Over(WHTEFFICACY, file.tag))
<1>1. /\ file.format = "tiff" /\ file' = f /\ image' = NoImage
      /\ UNCHANGED <<scene, mixed>>
  BY DEF Tiff2rad
<1>2. file.pix \in Value /\ file.tag \in Value /\ file.tag_set \in BOOLEAN
  BY DEF IInv, TypeInv, FileType
<1>3. /\ f \in FileType /\ f.format = "rgbe" /\ f.pix = file.pix
      /\ f.tag = IF file.tag_set THEN Over(WHTEFFICACY, file.tag) ELSE One
      /\ f.tag_set = file.tag_set /\ f.units = "as they are"
  BY <1>2, Closed, Names DEF RadFile, FileType, Units
<1>4. FileLuminance(f) = FileLuminance(file)
  <2>1. FileLuminance(f) = Over(Times(file.pix, WHTEFFICACY), f.tag)
    BY <1>3 DEF FileLuminance
  <2>2. FileLuminance(file)
          = Times(file.pix, IF file.tag_set THEN file.tag ELSE WHTEFFICACY)
    BY <1>1 DEF FileLuminance
  <2>3. CASE file.tag_set
    <3>1. f.tag = Over(WHTEFFICACY, file.tag)
      BY <2>3, <1>3
    <3>2. Over(Times(file.pix, WHTEFFICACY), Over(WHTEFFICACY, file.tag))
            = Times(file.pix, file.tag)
      BY <1>2, Closed, Reciprocal
    <3> QED
      BY <2>1, <2>2, <2>3, <3>1, <3>2
  <2>4. CASE ~file.tag_set
    <3>1. f.tag = One
      BY <2>4, <1>3
    <3>2. Times(file.pix, WHTEFFICACY) \in Value
      BY <1>2, Closed
    <3> QED
      BY <2>1, <2>2, <2>4, <3>1, <3>2, Neutral
  <2> QED
    BY <2>3, <2>4
<1>5. FileCalibrated'
  BY <1>1, <1>4 DEF IInv, FileCalibrated, FileLuminance
<1>6. TypeInv' /\ UnsetIsOne'
  BY <1>1, <1>3, Closed DEF IInv, TypeInv, UnsetIsOne, NoImage, ImageType
<1>7. LuminanceUnset' /\ NothingRead' /\ ImageCalibrated' /\ UnitsAsAsked'
  BY <1>1, <1>3 DEF LuminanceUnset, NothingRead, NoImage, ImageCalibrated, UnitsAsAsked
<1> QED
  BY <1>5, <1>6, <1>7 DEF IInv

(* tiff32_to_8 makes of a picture without STONITS another.                 *)
LEMMA Tiff32to8IInv ==
  ASSUME IInv, NEW linear_flag \in BOOLEAN, Tiff32_to_8(linear_flag)
  PROVE  IInv'
<1> DEFINE f == Tiff(file.pix, FALSE, One, "as they are")
<1>1. /\ file.format = "tiff" /\ file' = f /\ image' = NoImage
      /\ mixed' = (mixed \/ file.tag_set \/ linear_flag) /\ UNCHANGED scene
  BY DEF Tiff32_to_8
<1>2. /\ file.pix \in Value /\ file.tag_set \in BOOLEAN /\ mixed \in BOOLEAN
  BY DEF IInv, TypeInv, FileType
<1>3. /\ f \in FileType /\ f.format = "tiff" /\ f.pix = file.pix
      /\ f.tag_set = FALSE /\ f.units = "as they are"
  BY <1>2, Closed, Names DEF Tiff, FileType, Units
<1>4. ~file.tag_set => FileLuminance(f) = FileLuminance(file)
  BY <1>1, <1>3 DEF FileLuminance
<1>5. ~mixed' => ~mixed /\ ~file.tag_set
  BY <1>1, <1>2
<1>6. FileCalibrated'
  BY <1>1, <1>4, <1>5 DEF IInv, FileCalibrated, FileLuminance
<1>7. TypeInv' /\ UnsetIsOne'
  BY <1>1, <1>2, <1>3, Closed, Names DEF IInv, TypeInv, UnsetIsOne, NoImage, ImageType
<1>8. LuminanceUnset' /\ NothingRead' /\ ImageCalibrated' /\ UnitsAsAsked'
  BY <1>1, <1>3 DEF LuminanceUnset, NothingRead, NoImage, ImageCalibrated, UnitsAsAsked
<1> QED
  BY <1>6, <1>7, <1>8 DEF IInv

(* A step that changes none of the variables but the counter.              *)
LEMMA StutterIInv ==
  ASSUME IInv, UNCHANGED vars
  PROVE  IInv'
BY DEF vars, IInv, TypeInv, UnsetIsOne, LuminanceUnset, NothingRead, FileCalibrated,
       ImageCalibrated, UnitsAsAsked, FileLuminance, ImageLuminance

(* Whatever kind of image a routine is for, it reads or writes as above.   *)
LEMMA EveryReader ==
  FromRadfile => \/ \E space \in Spaces : DeVASRead(space) \/ TTRead(space)
                 \/ LuminanceRead
BY DEF FromRadfile, Spaces, Radiometric, Photometric, TTSpaces,
       DeVAS_brightness_image_from_radfile, DeVAS_RGBf_image_from_radfile,
       DeVAS_XYZ_image_from_radfile, DeVAS_xyY_image_from_radfile,
       DeVAS_luminance_image_from_radfile,
       TT_float_image_from_radfile, TT_RGBf_image_from_radfile,
       TT_XYZ_image_from_radfile, TT_xyY_image_from_radfile

LEMMA EveryWriter == ToRadfile => Write
BY DEF ToRadfile,
       DeVAS_brightness_image_to_radfile, DeVAS_RGBf_image_to_radfile,
       DeVAS_XYZ_image_to_radfile, DeVAS_xyY_image_to_radfile,
       DeVAS_luminance_image_to_radfile,
       TT_float_image_to_radfile, TT_RGBf_image_to_radfile,
       TT_XYZ_image_to_radfile, TT_xyY_image_to_radfile

(* IInv holds in every initial state and no step of any routine breaks it. *)
THEOREM Inductive == Spec => []IInv
<1>1. ASSUME IInv, [Next]_vars PROVE IInv'
  <2>1. CASE \E space \in Spaces : DeVASRead(space) \/ TTRead(space)
    BY <1>1, <2>1, DeVASReadIInv, TTReadIInv
  <2>2. CASE LuminanceRead
    BY <1>1, <2>2, LuminanceReadIInv
  <2>3. CASE ToRadfile
    <3>1. Write
      BY <2>3, EveryWriter
    <3> QED
      BY <1>1, <3>1, WriteIInv
  <2>4. CASE \E units \in Units, by \in Stops, encoding \in Encodings :
               Rad2tiff(units, by, encoding)
    BY <1>1, <2>4, CalibrationAssumption, Rad2tiffIInv
  <2>5. CASE \E flag \in BOOLEAN : Tiff2rad(flag)
    BY <1>1, <2>5, Tiff2radIInv
  <2>6. CASE \E linear_flag \in BOOLEAN : Tiff32_to_8(linear_flag)
    BY <1>1, <2>6, Tiff32to8IInv
  <2>7. CASE UNCHANGED vars
    BY <1>1, <2>7, StutterIInv
  <2> QED
    BY <1>1, <2>1, <2>2, <2>3, <2>4, <2>5, <2>6, <2>7, EveryReader DEF Next, Finished
<1> QED
  BY InitIInv, <1>1, PTL DEF Spec

(* Every file that the writers and converters make of a calibrated picture *)
(* is calibrated, for any exposure, any efficacy and any stops.            *)
THEOREM Calibrated == Spec => []FileCalibrated
<1>1. IInv => FileCalibrated
  BY DEF IInv
<1> QED
  BY Inductive, <1>1, PTL

(* And so is every image that the readers make.                            *)
THEOREM CalibratedInMemory == Spec => []ImageCalibrated
<1>1. IInv => ImageCalibrated
  BY DEF IInv
<1> QED
  BY Inductive, <1>1, PTL

(* The pixels of rad2tiff are in the units that were asked for.            *)
THEOREM InTheUnitsAsked == Spec => []UnitsAsAsked
<1>1. IInv => UnitsAsAsked
  BY DEF IInv
<1> QED
  BY Inductive, <1>1, PTL

-----------------------------------------------------------------------------
(* What the colours rest on: a writer finds an image in memory only while  *)
(* the last file is a Radiance file, which the converters do not leave.    *)
ReadFromRadiance == image # NoImage => file.format \in Formats

ColourInv == ColoursTold /\ ReadFromRadiance /\ astray \in BOOLEAN

(* One file and its colours.                                               *)
Told(f, c) == c \in IF f.format = "tiff" THEN TiffColours ELSE {RadianceColours}

(* sRGB with 8 bits, with and without its profile.                         *)
LEMMA InSRGB ==
  /\ \A c \in SRGB : /\ c.primaries = "sRGB" /\ c.curve = "sRGB" /\ c.bytes
                     /\ c.profile # "linear sRGB"
  /\ Coding("sRGB", "sRGB", TRUE, "none") \in SRGB
<1>1. ASSUME NEW c \in SRGB
      PROVE  /\ c.primaries = "sRGB" /\ c.curve = "sRGB" /\ c.bytes
             /\ c.profile # "linear sRGB"
  <2>1. PICK profile \in {"none", "sRGB"} : c = Coding("sRGB", "sRGB", TRUE, profile)
    BY DEF SRGB
  <2> QED
    BY <2>1 DEF Coding
<1>2. Coding("sRGB", "sRGB", TRUE, "none") \in SRGB
  BY DEF SRGB
<1> QED
  BY <1>1, <1>2

LEMMA InitColours == Init => ColourInv
<1> SUFFICES ASSUME Init PROVE ColourInv
  OBVIOUS
<1>1. image = NoImage /\ astray = FALSE
  BY DEF Init
<1>2. Told(file, colours)
  <2>1. PICK set \in BOOLEAN :
          \/ /\ \E format \in Formats : file = RadFile(format, One, set, Exposure)
             /\ colours = RadianceColours
          \/ /\ file = Tiff(One, set, Exposure, "as they are")
             /\ colours \in TiffColours
    BY Zenon DEF Init
  <2>2. CASE /\ \E format \in Formats : file = RadFile(format, One, set, Exposure)
             /\ colours = RadianceColours
    <3>1. PICK format \in Formats : file = RadFile(format, One, set, Exposure)
      BY <2>2
    <3>2. file.format \in Formats
      BY <3>1 DEF RadFile
    <3> QED
      BY <2>2, <3>2, Names DEF Told
  <2>3. CASE file = Tiff(One, set, Exposure, "as they are") /\ colours \in TiffColours
    BY <2>3 DEF Tiff, Told
  <2> QED
    BY <2>1, <2>2, <2>3
<1> QED
  BY <1>1, <1>2 DEF ColourInv, ColoursTold, ReadFromRadiance, Told

(* The readers leave the file alone.                                       *)
LEMMA ReadColours ==
  ASSUME ColourInv, UNCHANGED <<file, colourvars>>, file.format \in Formats
  PROVE  ColourInv'
BY DEF ColourInv, ColoursTold, ReadFromRadiance, colourvars

(* The writers replace a Radiance file by a Radiance file.                 *)
LEMMA WriteColours ==
  ASSUME ColourInv, Write
  PROVE  ColourInv'
<1>1. /\ image # NoImage /\ file.format \in Formats /\ file'.format = "rgbe"
      /\ UNCHANGED <<image, colours, astray>>
  BY DEF ColourInv, ReadFromRadiance, Write, colourvars, RadFile
<1> QED
  BY <1>1, Names DEF ColourInv, ColoursTold, ReadFromRadiance

(* rad2tiff names in the profile what it made of the colours.              *)
LEMMA Rad2tiffColours ==
  ASSUME ColourInv, NEW units \in Units, NEW by \in Stops,
         NEW encoding \in Encodings, Rad2tiff(units, by, encoding)
  PROVE  ColourInv'
<1>1. /\ file.format \in Formats /\ file'.format = "tiff" /\ image' = NoImage
      /\ UNCHANGED astray
  BY DEF Rad2tiff, Tiff
<1>2. ~astray => colours = RadianceColours
  BY <1>1, Names DEF ColourInv, ColoursTold
<1>3. colours = RadianceColours => colours' \in TiffColours
  <2> SUFFICES ASSUME colours = RadianceColours PROVE colours' \in TiffColours
    OBVIOUS
  <2>1. colours.primaries = "Radiance" /\ colours.curve = "linear"
    BY DEF RadianceColours, Coding
  <2>2. CASE encoding = "none"
    BY <2>1, <2>2
    DEF Rad2tiff, srgb_encoding_flag, TiffColours, RadianceColours, Coding
  <2>3. CASE encoding = "sRGBencoding"
    BY <2>1, <2>3
    DEF Rad2tiff, srgb_encoding_flag, ToSRGB, TiffColours, LinearSRGB, Coding
  <2>4. CASE encoding = "ldr"
    BY <2>1, <2>4
    DEF Rad2tiff, srgb_encoding_flag, ToSRGB, Encoded, TiffColours, SRGB, Coding
  <2> QED
    BY <2>2, <2>3, <2>4 DEF Encodings
<1> QED
  BY <1>1, <1>2, <1>3 DEF ColourInv, ColoursTold, ReadFromRadiance

(* tiff2rad undoes it, if its flag is that of the profile.                 *)
LEMMA Tiff2radColours ==
  ASSUME ColourInv, NEW flag \in BOOLEAN, Tiff2rad(flag)
  PROVE  ColourInv'
<1>1. /\ file.format = "tiff" /\ file'.format = "rgbe" /\ image' = NoImage
      /\ astray' = (astray \/ (~colours.bytes
                                  /\ flag # (colours.profile = "linear sRGB")))
  BY DEF Tiff2rad, RadFile
<1>2. ~astray' => /\ colours \in TiffColours
                  /\ colours.bytes \/ flag = (colours.profile = "linear sRGB")
  BY <1>1 DEF ColourInv, ColoursTold
<1>3. ~astray' => colours' = RadianceColours
  <2> SUFFICES ASSUME ~astray' PROVE colours' = RadianceColours
    OBVIOUS
  <2>1. CASE colours = RadianceColours
    BY <1>2, <2>1 DEF Tiff2rad, RadianceColours, Coding
  <2>2. CASE colours = LinearSRGB
    BY <1>2, <2>2 DEF Tiff2rad, ToRadiance, RadianceColours, LinearSRGB, Coding
  <2>3. CASE colours \in SRGB
    <3>1. /\ ToRadiance(colours) = "Radiance" /\ Decoded(colours) = "linear"
          /\ colours.bytes
      BY <2>3, InSRGB DEF ToRadiance, Decoded
    <3> QED
      BY <3>1 DEF Tiff2rad, RadianceColours
  <2> QED
    BY <1>2, <2>1, <2>2, <2>3 DEF TiffColours
<1>4. astray' \in BOOLEAN
  BY <1>1
<1> QED
  BY <1>1, <1>3, <1>4, Names DEF ColourInv, ColoursTold, ReadFromRadiance

(* tiff32_to_8 makes sRGB of what has the primaries of sRGB.               *)
LEMMA Tiff32to8Colours ==
  ASSUME ColourInv, NEW linear_flag \in BOOLEAN, Tiff32_to_8(linear_flag)
  PROVE  ColourInv'
<1>1. /\ file.format = "tiff" /\ file'.format = "tiff" /\ image' = NoImage
      /\ astray' = (astray \/ linear_flag \/ colours.profile # "linear sRGB")
  BY DEF Tiff32_to_8, Tiff
<1>2. ~astray' => /\ colours \in TiffColours /\ ~linear_flag
                  /\ colours.profile = "linear sRGB"
  BY <1>1 DEF ColourInv, ColoursTold
<1>3. ~astray' => colours = LinearSRGB
  <2>1. RadianceColours.profile = "none"
    BY DEF RadianceColours, Coding
  <2> QED
    BY <1>2, <2>1, InSRGB DEF TiffColours
<1>4. ~astray' => colours' \in TiffColours
  <2>0. SUFFICES ASSUME ~astray' PROVE colours' \in TiffColours
    OBVIOUS
  <2>1. colours' = Coding("sRGB", "sRGB", TRUE, "none")
    <3>1. colours.primaries = "sRGB" /\ Encoded(colours) = "sRGB"
      <4>1. colours = LinearSRGB
        BY <2>0, <1>3
      <4>2. colours.primaries = "sRGB" /\ colours.curve = "linear"
        BY <4>1 DEF LinearSRGB, Coding
      <4> QED
        BY <4>2 DEF Encoded
    <3> QED
      BY <2>0, <3>1, <1>2 DEF Tiff32_to_8
  <2> QED
    BY <2>1, InSRGB DEF TiffColours
<1>5. astray' \in BOOLEAN
  BY <1>1
<1> QED
  BY <1>1, <1>4, <1>5 DEF ColourInv, ColoursTold, ReadFromRadiance

(* In any chain of conversions, run with the options that the files call   *)
(* for, the colours of a file are what its kind and its profile say.       *)
THEOREM ColoursKept == Spec => []ColoursTold
<1>1. ASSUME ColourInv, [Next]_vars PROVE ColourInv'
  <2>1. CASE FromRadfile
    <3>1. UNCHANGED <<file, colourvars>> /\ file.format \in Formats
      BY <2>1, EveryReader DEF DeVASRead, TTRead, LuminanceRead
    <3> QED
      BY <1>1, <3>1, ReadColours
  <2>2. CASE ToRadfile
    BY <1>1, <2>2, EveryWriter, WriteColours
  <2>3. CASE \E units \in Units, by \in Stops, encoding \in Encodings :
               Rad2tiff(units, by, encoding)
    BY <1>1, <2>3, Rad2tiffColours
  <2>4. CASE \E flag \in BOOLEAN : Tiff2rad(flag)
    BY <1>1, <2>4, Tiff2radColours
  <2>5. CASE \E linear_flag \in BOOLEAN : Tiff32_to_8(linear_flag)
    BY <1>1, <2>5, Tiff32to8Colours
  <2>6. CASE UNCHANGED vars
    BY <1>1, <2>6 DEF vars, ColourInv, ColoursTold, ReadFromRadiance
  <2> QED
    BY <1>1, <2>1, <2>2, <2>3, <2>4, <2>5, <2>6 DEF Next, Finished
<1>2. ColourInv => ColoursTold
  BY DEF ColourInv
<1> QED
  BY InitColours, <1>1, <1>2, PTL DEF Spec


-----------------------------------------------------------------------------
(***************************************************************************)
(* Adjust: the brightness of a picture on its way through a converter, for *)
(* pictures of any size and any values.                                    *)
(***************************************************************************)
Pictures == [px : [Pixel -> [Channel -> Int]], den : Nat \ {0}]

(* Extreme values of finite sets, and of a picture.                        *)
LEMMA ImageFinite ==
  ASSUME NEW T, IsFiniteSet(T), NEW S, NEW f, DOMAIN f = T, f = [t \in T |-> f[t]],
         \A t \in T : f[t] \in S, \A x \in S : \E t \in T : f[t] = x
  PROVE  IsFiniteSet(S)
<1>1. f \in Surjection(T, S)
  BY DEF Surjection
<1> QED
  BY <1>1, FS_Surjection

LEMMA MaxOf ==
  ASSUME NEW S \in SUBSET Int, IsFiniteSet(S), S # {}
  PROVE  Max(S) \in S /\ \A n \in S : n <= Max(S)
<1>1. PICK m \in S : \A n \in S : m >= n
  BY LargestOf
<1> QED
  BY <1>1 DEF Max

LEMMA MinOf ==
  ASSUME NEW S \in SUBSET Int, IsFiniteSet(S), S # {}
  PROVE  Min(S) \in S /\ \A n \in S : Min(S) <= n
<1>1. PICK m \in S : \A n \in S : m <= n
  BY SmallestOf
<1> QED
  BY <1>1 DEF Min

LEMMA PixelMaxIs ==
  ASSUME NEW im \in Pictures, NEW p \in Pixel
  PROVE  /\ PixelMax(im, p) \in Int
         /\ \E c \in Channel : PixelMax(im, p) = im.px[p][c]
         /\ \A c \in Channel : im.px[p][c] <= PixelMax(im, p)
<1>1. PICK f : f = im.px[p]
  OBVIOUS
<1>2. f \in [Channel -> Int]
  BY <1>1 DEF Pictures
<1>3. PICK S : S = {f[c] : c \in Channel}
  OBVIOUS
<1>4. IsFiniteSet(S)
  <2>1. DOMAIN f = Channel /\ f = [c \in Channel |-> f[c]]
    BY <1>2
  <2>2. \A c \in Channel : f[c] \in S
    BY <1>3
  <2>3. \A x \in S : \E c \in Channel : f[c] = x
    BY <1>3
  <2>4. IsFiniteSet(Channel)
    BY AdjustAssumption DEF AdjustAssumption
  <2> QED
    BY <2>1, <2>2, <2>3, <2>4, ImageFinite
<1>5. S \in SUBSET Int /\ S # {}
  <2>1. Channel # {}
    BY AdjustAssumption DEF AdjustAssumption
  <2>2. \A c \in Channel : f[c] \in Int
    BY <1>2
  <2> QED
    BY <1>3, <2>1, <2>2
<1>6. PixelMax(im, p) = Max(S)
  BY <1>1, <1>3 DEF PixelMax
<1>7. Max(S) \in S /\ \A n \in S : n <= Max(S)
  BY <1>4, <1>5, MaxOf
<1> QED
  BY <1>1, <1>3, <1>5, <1>6, <1>7

LEMMA ExtremesAre ==
  ASSUME NEW im \in Pictures
  PROVE  /\ Brightest(im) \in Int /\ Darkest(im) \in Int
         /\ \E p \in Pixel, c \in Channel : im.px[p][c] = Brightest(im)
         /\ \E p \in Pixel, c \in Channel : im.px[p][c] = Darkest(im)
         /\ \A p \in Pixel, c \in Channel :
              /\ im.px[p][c] \in Int
              /\ im.px[p][c] <= Brightest(im)
              /\ Darkest(im) <= im.px[p][c]
<1>1. PICK f : f = [t \in Pixel \X Channel |-> im.px[t[1]][t[2]]]
  OBVIOUS
<1>2. PICK S : S = Values(im)
  OBVIOUS
<1>3. S = {im.px[p][c] : p \in Pixel, c \in Channel}
  BY <1>2 DEF Values
<1>4. \A p \in Pixel, c \in Channel : im.px[p][c] \in Int
  BY DEF Pictures
<1>5. IsFiniteSet(S)
  <2>1. IsFiniteSet(Pixel \X Channel)
    BY AdjustAssumption, FS_Product DEF AdjustAssumption
  <2>2. \A t \in Pixel \X Channel : f[t] \in S
    BY <1>1, <1>3
  <2>3. ASSUME NEW x \in S PROVE \E t \in Pixel \X Channel : f[t] = x
    <3>1. PICK p \in Pixel, c \in Channel : x = im.px[p][c]
      BY <1>3
    <3>2. <<p, c>> \in Pixel \X Channel /\ f[<<p, c>>] = x
      BY <1>1, <3>1
    <3> QED
      BY <3>2
  <2>4. DOMAIN f = Pixel \X Channel /\ f = [t \in Pixel \X Channel |-> f[t]]
    BY <1>1
  <2> QED
    BY <2>1, <2>2, <2>3, <2>4, ImageFinite
<1>6. S \in SUBSET Int /\ S # {}
  <2>1. Pixel # {} /\ Channel # {}
    BY AdjustAssumption DEF AdjustAssumption
  <2>2. PICK p \in Pixel, c \in Channel : TRUE
    BY <2>1
  <2>3. im.px[p][c] \in S
    BY <1>3
  <2>4. ASSUME NEW x \in S PROVE x \in Int
    <3>1. PICK q \in Pixel, d \in Channel : x = im.px[q][d]
      BY <1>3
    <3> QED
      BY <1>4, <3>1
  <2> QED
    BY <2>3, <2>4
<1>7. /\ Brightest(im) \in S /\ \A n \in S : n <= Brightest(im)
      /\ Darkest(im) \in S /\ \A n \in S : Darkest(im) <= n
  BY <1>2, <1>5, <1>6, MaxOf, MinOf DEF Brightest, Darkest
<1> QED
  BY <1>3, <1>4, <1>6, <1>7

(* The extremes are known by what they are. *)
HasBrightest(im, v) == /\ \E p \in Pixel, c \in Channel : im.px[p][c] = v
                       /\ \A p \in Pixel, c \in Channel : im.px[p][c] <= v
HasDarkest(im, v)   == /\ \E p \in Pixel, c \in Channel : im.px[p][c] = v
                       /\ \A p \in Pixel, c \in Channel : v <= im.px[p][c]

LEMMA ExtremesUnique ==
  ASSUME NEW im \in Pictures, NEW v \in Int
  PROVE  /\ HasBrightest(im, v) => Brightest(im) = v
         /\ HasDarkest(im, v) => Darkest(im) = v
<1>1. PICK B \in Int, D \in Int : B = Brightest(im) /\ D = Darkest(im)
  BY ExtremesAre
<1>2. HasBrightest(im, B) /\ HasDarkest(im, D)
  BY <1>1, ExtremesAre DEF HasBrightest, HasDarkest
<1>3. HasBrightest(im, v) => B = v
  <2> SUFFICES ASSUME HasBrightest(im, v) PROVE B = v
    OBVIOUS
  <2>1. B <= v
    BY <1>2 DEF HasBrightest
  <2>2. v <= B
    BY <1>2 DEF HasBrightest
  <2> QED
    BY <2>1, <2>2
<1>4. HasDarkest(im, v) => D = v
  <2> SUFFICES ASSUME HasDarkest(im, v) PROVE D = v
    OBVIOUS
  <2>1. D <= v
    BY <1>2 DEF HasDarkest
  <2>2. v <= D
    BY <1>2 DEF HasDarkest
  <2> QED
    BY <2>1, <2>2
<1> QED
  BY <1>1, <1>3, <1>4

-----------------------------------------------------------------------------
(* Pictures of which one is m times the other.                             *)
Factor == {1, 2, 4, 8}

TimesAsBright(im, jm, m) ==
  \A p \in Pixel, c \in Channel : jm.px[p][c] = m * im.px[p][c]

LEMMA OrderScaled ==
  ASSUME NEW m \in Factor, NEW a \in Int, NEW b \in Int
  PROVE  m * a \in Int /\ (m * a <= m * b <=> a <= b) /\ (m * a = m * b <=> a = b)
BY DEF Factor

LEMMA ExtremesScaled ==
  ASSUME NEW im \in Pictures, NEW jm \in Pictures, NEW m \in Factor,
         TimesAsBright(im, jm, m)
  PROVE  /\ Brightest(jm) = m * Brightest(im)
         /\ Darkest(jm) = m * Darkest(im)
<1>1. PICK B \in Int, D \in Int : B = Brightest(im) /\ D = Darkest(im)
  BY ExtremesAre
<1>2. /\ \E p \in Pixel, c \in Channel : im.px[p][c] = B
      /\ \E p \in Pixel, c \in Channel : im.px[p][c] = D
      /\ \A p \in Pixel, c \in Channel : im.px[p][c] \in Int /\ im.px[p][c] <= B /\ D <= im.px[p][c]
  BY <1>1, ExtremesAre
<1>3. m * B \in Int /\ m * D \in Int
  BY OrderScaled
<1>4. HasBrightest(jm, m * B)
  <2>1. \E p \in Pixel, c \in Channel : jm.px[p][c] = m * B
    BY <1>2 DEF TimesAsBright
  <2>2. ASSUME NEW p \in Pixel, NEW c \in Channel PROVE jm.px[p][c] <= m * B
    <3>1. im.px[p][c] \in Int /\ im.px[p][c] <= B /\ jm.px[p][c] = m * im.px[p][c]
      BY <1>2 DEF TimesAsBright
    <3> QED
      BY <3>1, OrderScaled
  <2> QED
    BY <2>1, <2>2 DEF HasBrightest
<1>5. HasDarkest(jm, m * D)
  <2>1. \E p \in Pixel, c \in Channel : jm.px[p][c] = m * D
    BY <1>2 DEF TimesAsBright
  <2>2. ASSUME NEW p \in Pixel, NEW c \in Channel PROVE m * D <= jm.px[p][c]
    <3>1. im.px[p][c] \in Int /\ D <= im.px[p][c] /\ jm.px[p][c] = m * im.px[p][c]
      BY <1>2 DEF TimesAsBright
    <3> QED
      BY <3>1, OrderScaled
  <2> QED
    BY <2>1, <2>2 DEF HasDarkest
<1> QED
  BY <1>1, <1>3, <1>4, <1>5, ExtremesUnique

LEMMA PixelMaxScaled ==
  ASSUME NEW im \in Pictures, NEW jm \in Pictures, NEW m \in Factor,
         TimesAsBright(im, jm, m), NEW p \in Pixel
  PROVE  PixelMax(jm, p) = m * PixelMax(im, p)
<1>1. PICK a \in Int, b \in Int : a = PixelMax(im, p) /\ b = PixelMax(jm, p)
  BY PixelMaxIs
<1>2. PICK c \in Channel : a = im.px[p][c] /\ \A e \in Channel : im.px[p][e] <= a
  BY <1>1, PixelMaxIs
<1>3. PICK d \in Channel : b = jm.px[p][d] /\ \A e \in Channel : jm.px[p][e] <= b
  BY <1>1, PixelMaxIs
<1>4. jm.px[p][c] = m * a /\ b = m * im.px[p][d] /\ im.px[p][d] <= a /\ m * a <= b
  BY <1>2, <1>3 DEF TimesAsBright
<1>5. im.px[p][d] \in Int
  BY DEF Pictures
<1>6. b <= m * a
  BY <1>4, <1>5, OrderScaled
<1>7. m * a \in Int
  BY OrderScaled
<1> QED
  BY <1>1, <1>4, <1>6, <1>7

LEMMA CardinalityOf ==
  Cardinality(Pixel) \in Nat
<1>1. IsFiniteSet(Pixel)
  BY AdjustAssumption DEF AdjustAssumption
<1>2. Cardinality(Pixel) \in Nat
  BY <1>1, FS_CardinalityType
<1> QED
  BY <1>2 DEF Cardinality, Cardinality

(* The sum of find_glare_threshold. *)
MaxOfPixels(im) == [p \in Pixel |-> PixelMax(im, p)]

LEMMA SumIs ==
  ASSUME NEW im \in Pictures
  PROVE  \E it : IsSum(MaxOfPixels(im), Pixel, it) /\ SumOver(im, Pixel) = it[Pixel]
<1>1. PICK f : f = MaxOfPixels(im)
  OBVIOUS
<1>2. f \in [Pixel -> Int]
  BY <1>1, PixelMaxIs DEF MaxOfPixels
<1>3. \E it : IsSum(f, Pixel, it)
  <2>1. IsFiniteSet(Pixel)
    BY AdjustAssumption DEF AdjustAssumption
  <2> QED
    BY <1>2, <2>1, SumExists
<1> DEFINE Element(s) == CHOOSE x \in s : TRUE
           Body(it) == [s \in SUBSET Pixel |->
                          IF s = {} THEN 0
                          ELSE PixelMax(im, Element(s)) + it[s \ {Element(s)}]]
<1>4. SumOver(im, Pixel) = (CHOOSE it : it = Body(it))[Pixel]
  BY DEF SumOver, MapThenSumSet, MapThenFoldSet
<1>5. ASSUME NEW it PROVE IsSum(f, Pixel, it) <=> it = Body(it)
  <2>1. ASSUME NEW s \in SUBSET Pixel, s # {}
        PROVE  f[Picked(s)] = PixelMax(im, Element(s)) /\ Picked(s) = Element(s)
    <3>1. Picked(s) \in Pixel /\ Picked(s) = Element(s)
      BY <2>1 DEF Picked
    <3> QED
      BY <1>1, <3>1 DEF MaxOfPixels
  <2>2. PICK g : g = [s \in SUBSET Pixel |->
                        IF s = {} THEN 0 ELSE f[Picked(s)] + it[s \ {Picked(s)}]]
    OBVIOUS
  <2>3. g = Body(it)
    <3> HIDE DEF Element
    <3> QED
      BY <2>1, <2>2
  <2> HIDE DEF Body
  <2> QED
    BY <2>2, <2>3 DEF IsSum
<1>6. PICK it : it = (CHOOSE jt : jt = Body(jt))
  OBVIOUS
<1>7. it = Body(it)
  <2> HIDE DEF Body
  <2>1. \E jt : jt = Body(jt)
    BY <1>3, <1>5
  <2> QED
    BY <1>6, <2>1
<1>8. IsSum(f, Pixel, it)
  <2> HIDE DEF Body
  <2> QED
    BY <1>5, <1>7
<1>9. SumOver(im, Pixel) = it[Pixel]
  <2> HIDE DEF Body
  <2> QED
    BY <1>4, <1>6
<1> QED
  BY <1>1, <1>8, <1>9

LEMMA SumTimesAsBright ==
  ASSUME NEW im \in Pictures, NEW jm \in Pictures, NEW m \in Factor,
         TimesAsBright(im, jm, m)
  PROVE  /\ SumOver(im, Pixel) \in Int
         /\ SumOver(jm, Pixel) = m * SumOver(im, Pixel)
<1>1. PICK f, g : f = MaxOfPixels(im) /\ g = MaxOfPixels(jm)
  OBVIOUS
<1>2. f \in [Pixel -> Int] /\ g \in [Pixel -> Int]
  BY <1>1, PixelMaxIs DEF MaxOfPixels
<1>3. \A p \in Pixel : g[p] = m * f[p]
  BY <1>1, PixelMaxScaled DEF MaxOfPixels
<1>4. PICK it : IsSum(f, Pixel, it) /\ SumOver(im, Pixel) = it[Pixel]
  BY <1>1, SumIs
<1>5. PICK jt : IsSum(g, Pixel, jt) /\ SumOver(jm, Pixel) = jt[Pixel]
  BY <1>1, SumIs
<1>6. IsFiniteSet(Pixel)
  BY AdjustAssumption DEF AdjustAssumption
<1>7. m \in Int
  BY DEF Factor
<1>8. \A s \in SUBSET Pixel : it[s] \in Int /\ jt[s] = m * it[s]
  BY <1>2, <1>3, <1>4, <1>5, <1>6, <1>7, SumScaled
<1> QED
  BY <1>4, <1>5, <1>8

-----------------------------------------------------------------------------
(* The threshold.                                                          *)
LEMMA SameCutoff ==
  ASSUME NEW m \in Factor, NEW a \in Int, NEW n \in Int, NEW s \in Int, NEW r \in Int
  PROVE  (m * a) * n <= r * (m * s) <=> a * n <= r * s
<1>1. PICK x \in Int, y \in Int : x = a * n /\ y = r * s
  OBVIOUS
<1>2. (m * a) * n = m * x /\ r * (m * s) = m * y
  BY <1>1 DEF Factor
<1> QED
  BY <1>1, <1>2, OrderScaled

LEMMA GlareScaled ==
  ASSUME NEW im \in Pictures, NEW jm \in Pictures, NEW m \in Factor,
         TimesAsBright(im, jm, m)
  PROVE  /\ NotGlare(jm) = NotGlare(im)
         /\ NoGlare(jm) <=> NoGlare(im)
<1>1. PICK N \in Int, R \in Int : N = Cardinality(Pixel) /\ R = GLARE_LEVEL_RATIO
  <2>1. Cardinality(Pixel) \in Int
    BY CardinalityOf
  <2>2. GLARE_LEVEL_RATIO \in Nat \ {0}
    BY AdjustAssumption DEF AdjustAssumption
  <2> QED
    BY <2>1, <2>2
<1>2. PICK s \in Int : s = SumOver(im, Pixel) /\ SumOver(jm, Pixel) = m * s
  BY SumTimesAsBright
<1>3. ASSUME NEW p \in Pixel
      PROVE  PixelMax(jm, p) * Cardinality(Pixel) <= Cutoff(jm)
             <=> PixelMax(im, p) * Cardinality(Pixel) <= Cutoff(im)
  <2>1. PICK a \in Int : a = PixelMax(im, p)
    BY PixelMaxIs
  <2>2. PixelMax(jm, p) = m * a
    BY <2>1, PixelMaxScaled
  <2>3. Cutoff(im) = R * s /\ Cutoff(jm) = R * (m * s)
    BY <1>1, <1>2 DEF Cutoff
  <2> QED
    BY <1>1, <2>1, <2>2, <2>3, SameCutoff
<1>4. NotGlare(jm) = NotGlare(im)
  BY <1>3 DEF NotGlare
<1>5. NoGlare(jm) <=> NoGlare(im)
  BY <1>3 DEF NoGlare
<1> QED
  BY <1>4, <1>5

(* What the threshold is, and that nothing else is.                        *)
IsThreshold(im, n) ==
  /\ n = 0 \/ \E p \in NotGlare(im) : n = PixelMax(im, p)
  /\ 0 <= n
  /\ \A p \in NotGlare(im) : PixelMax(im, p) <= n

LEMMA ThresholdIs ==
  ASSUME NEW im \in Pictures
  PROVE  \E n \in Int : /\ find_glare_threshold(im) = [n |-> n, d |-> im.den]
                        /\ IsThreshold(im, n)
<1>1. PICK G : G = NotGlare(im)
  OBVIOUS
<1>2. PICK f : f = [p \in G |-> PixelMax(im, p)]
  OBVIOUS
<1>3. PICK I : I = {f[p] : p \in G}
  OBVIOUS
<1>4. G \subseteq Pixel /\ IsFiniteSet(G)
  <2>1. IsFiniteSet(Pixel)
    BY AdjustAssumption DEF AdjustAssumption
  <2>2. G \subseteq Pixel
    BY <1>1 DEF NotGlare
  <2> QED
    BY <2>1, <2>2, FS_Subset
<1>5. \A p \in G : f[p] \in Int /\ f[p] = PixelMax(im, p)
  BY <1>2, <1>4, PixelMaxIs
<1>6. IsFiniteSet(I)
  <2>1. DOMAIN f = G /\ f = [p \in G |-> f[p]]
    BY <1>2
  <2>2. (\A p \in G : f[p] \in I) /\ \A x \in I : \E p \in G : f[p] = x
    BY <1>3
  <2> QED
    BY <1>4, <2>1, <2>2, ImageFinite
<1>7. PICK S : S = {0} \cup I
  OBVIOUS
<1>8. S \in SUBSET Int /\ S # {} /\ IsFiniteSet(S)
  <2>1. IsFiniteSet({0} \cup I)
    BY <1>6, FS_Singleton, FS_Union
  <2>2. \A x \in I : x \in Int
    BY <1>3, <1>5
  <2> QED
    BY <1>7, <2>1, <2>2
<1>9. PICK n : n = Max(S)
  OBVIOUS
<1>10. n \in S /\ \A x \in S : x <= n
  BY <1>8, <1>9, MaxOf
<1>11. find_glare_threshold(im) = [n |-> n, d |-> im.den]
  <2>1. I = {PixelMax(im, p) : p \in NotGlare(im)}
    BY <1>1, <1>2, <1>3
  <2> QED
    BY <1>7, <1>9, <2>1 DEF find_glare_threshold
<1>12. IsThreshold(im, n)
  <2>1. n = 0 \/ \E p \in G : n = PixelMax(im, p)
    BY <1>3, <1>5, <1>7, <1>10
  <2>2. 0 <= n /\ \A p \in G : PixelMax(im, p) <= n
    BY <1>3, <1>5, <1>7, <1>10
  <2> QED
    BY <1>1, <2>1, <2>2 DEF IsThreshold
<1>13. n \in Int
  BY <1>8, <1>10
<1> QED
  BY <1>11, <1>12, <1>13

LEMMA ThresholdUnique ==
  ASSUME NEW im \in Pictures, NEW n \in Int, IsThreshold(im, n),
         NEW k \in Int, IsThreshold(im, k)
  PROVE  n = k
<1>1. n <= k /\ k <= n
  BY DEF IsThreshold
<1> QED
  BY <1>1

LEMMA ThresholdScaled ==
  ASSUME NEW im \in Pictures, NEW jm \in Pictures, NEW m \in Factor,
         TimesAsBright(im, jm, m),
         NEW n \in Int, find_glare_threshold(im) = [n |-> n, d |-> im.den]
  PROVE  find_glare_threshold(jm) = [n |-> m * n, d |-> jm.den]
<1>1. PICK i \in Int : /\ find_glare_threshold(im) = [n |-> i, d |-> im.den]
                       /\ IsThreshold(im, i)
  BY ThresholdIs
<1>2. i = n
  BY <1>1
<1>3. PICK k \in Int : /\ find_glare_threshold(jm) = [n |-> k, d |-> jm.den]
                       /\ IsThreshold(jm, k)
  BY ThresholdIs
<1>4. NotGlare(jm) = NotGlare(im)
  BY GlareScaled
<1>5. ASSUME NEW p \in NotGlare(im)
      PROVE  /\ PixelMax(im, p) \in Int
             /\ PixelMax(jm, p) = m * PixelMax(im, p)
  <2>1. p \in Pixel
    BY DEF NotGlare
  <2> QED
    BY <2>1, PixelMaxIs, PixelMaxScaled
<1>6. m * n \in Int /\ m * 0 = 0 /\ 0 <= m * n
  BY <1>1, <1>2, OrderScaled DEF IsThreshold, Factor
<1>7. IsThreshold(jm, m * n)
  <2>1. m * n = 0 \/ \E p \in NotGlare(jm) : m * n = PixelMax(jm, p)
    <3>1. CASE n = 0
      BY <1>6, <3>1
    <3>2. CASE n # 0
      <4>1. PICK p \in NotGlare(im) : n = PixelMax(im, p)
        BY <1>1, <1>2, <3>2 DEF IsThreshold
      <4> QED
        BY <1>4, <1>5, <4>1
    <3> QED
      BY <3>1, <3>2
  <2>2. ASSUME NEW p \in NotGlare(jm) PROVE PixelMax(jm, p) <= m * n
    <3>1. PICK a \in Int : a = PixelMax(im, p)
      BY <1>4, <1>5
    <3>2. a <= n /\ PixelMax(jm, p) = m * a
      BY <1>1, <1>2, <1>4, <1>5, <3>1 DEF IsThreshold
    <3> QED
      BY <3>2, OrderScaled
  <2> QED
    BY <1>6, <2>1, <2>2 DEF IsThreshold
<1>8. k = m * n
  BY <1>3, <1>6, <1>7, ThresholdUnique
<1> QED
  BY <1>3, <1>8

-----------------------------------------------------------------------------
(* The steps of a converter.                                               *)
LEMMA Mapped ==
  ASSUME NEW im \in Pictures, NEW f, DOMAIN f = Values(im),
         NEW p \in Pixel, NEW c \in Channel
  PROVE  MapValues(f, im)[p][c] = f[im.px[p][c]]
BY DEF MapValues

LEMMA MappedType ==
  ASSUME NEW im \in Pictures, NEW f \in [Values(im) -> Int]
  PROVE  MapValues(f, im) \in [Pixel -> [Channel -> Int]]
<1>1. \A p \in Pixel, c \in Channel : f[im.px[p][c]] \in Int
  BY DEF Values
<1> QED
  BY <1>1 DEF MapValues

LEMMA ValuesType ==
  ASSUME NEW im \in Pictures
  PROVE  Values(im) \subseteq Int
<1> SUFFICES ASSUME NEW v \in Values(im) PROVE v \in Int
  OBVIOUS
<1>1. PICK p \in Pixel, c \in Channel : v = im.px[p][c]
  BY DEF Values
<1> QED
  BY <1>1 DEF Pictures

LEMMA TwoTo3 ==
  ASSUME NEW s \in 0 .. 3
  PROVE  2 ^ s \in Factor
<1>1. PICK g : g = [i \in 0 .. 3 |-> 2 ^ i]
  OBVIOUS
<1>2. g[s] = 2 ^ s
  BY <1>1
<1>3. g[0] = 1 /\ g[1] = 2 /\ g[2] = 4 /\ g[3] = 8
  BY <1>1
<1> QED
  BY <1>2, <1>3 DEF Factor

(* An exposure multiplies the values or the denominator.                   *)
IsExposed(im, jm, m, q) == TimesAsBright(im, jm, m) /\ jm.den = q * im.den

LEMMA DenExposed ==
  ASSUME NEW q \in Factor, NEW d \in Nat \ {0}
  PROVE  d * q \in Nat \ {0} /\ d * q = q * d /\ 1 * d = d
BY DEF Factor

LEMMA ExposeIs ==
  ASSUME NEW s \in -3 .. 3
  PROVE  \E m \in Factor, q \in Factor : \A im \in Pictures :
           /\ Expose(im, s) \in Pictures
           /\ IsExposed(im, Expose(im, s), m, q)
<1>1. CASE s >= 0
  <2>1. PICK m \in Factor : m = 2 ^ s
    <3>1. s \in 0 .. 3
      BY <1>1
    <3> QED
      BY <3>1, TwoTo3
  <2>2. ASSUME NEW im \in Pictures
        PROVE  /\ Expose(im, s) \in Pictures
               /\ IsExposed(im, Expose(im, s), m, 1)
    <3>1. PICK f : f = [v \in Values(im) |-> v * 2 ^ s]
      OBVIOUS
    <3>2. PICK jm : jm = [im EXCEPT !.px = MapValues(f, im)]
      OBVIOUS
    <3>3. Expose(im, s) = jm
      BY <1>1, <3>1, <3>2 DEF Expose
    <3>4. \A v \in Values(im) : f[v] = v * m
      BY <2>1, <3>1
    <3>5. \A v \in Int : v * m \in Int /\ v * m = m * v
      BY DEF Factor
    <3>6. f \in [Values(im) -> Int]
      BY <3>1, <3>4, <3>5, ValuesType
    <3>7. jm = [px |-> MapValues(f, im), den |-> im.den]
      BY <3>2 DEF Pictures
    <3>8. jm \in Pictures
      <4>1. im.den \in Nat \ {0}
        BY DEF Pictures
      <4> QED
        BY <3>6, <3>7, <4>1, MappedType DEF Pictures
    <3>9. ASSUME NEW p \in Pixel, NEW c \in Channel PROVE jm.px[p][c] = m * im.px[p][c]
      <4>1. im.px[p][c] \in Values(im) /\ im.px[p][c] \in Int
        BY DEF Values, Pictures
      <4>2. jm.px[p][c] = f[im.px[p][c]]
        BY <3>6, <3>7, Mapped
      <4> QED
        BY <3>4, <3>5, <4>1, <4>2
    <3>10. jm.den = 1 * im.den
      BY <3>7, DenExposed DEF Pictures
    <3> QED
      BY <3>3, <3>8, <3>9, <3>10 DEF IsExposed, TimesAsBright
  <2>3. 1 \in Factor
    BY DEF Factor
  <2> QED
    BY <2>2, <2>3
<1>2. CASE ~(s >= 0)
  <2>1. PICK q \in Factor : q = 2 ^ (-s)
    <3>1. PICK k : k = -s
      OBVIOUS
    <3>2. k \in 0 .. 3
      BY <1>2, <3>1
    <3> QED
      BY <3>1, <3>2, TwoTo3
  <2>2. ASSUME NEW im \in Pictures
        PROVE  /\ Expose(im, s) \in Pictures
               /\ IsExposed(im, Expose(im, s), 1, q)
    <3>1. PICK jm : jm = [im EXCEPT !.den = im.den * q]
      OBVIOUS
    <3>2. Expose(im, s) = jm
      BY <1>2, <2>1, <3>1 DEF Expose
    <3>3. jm = [px |-> im.px, den |-> im.den * q]
      BY <3>1 DEF Pictures
    <3>4. im.den \in Nat \ {0} /\ im.px \in [Pixel -> [Channel -> Int]]
      BY DEF Pictures
    <3>5. im.den * q \in Nat \ {0} /\ im.den * q = q * im.den
      BY <3>4, DenExposed
    <3>6. jm \in Pictures
      BY <3>3, <3>4, <3>5 DEF Pictures
    <3>7. \A p \in Pixel, c \in Channel : jm.px[p][c] = 1 * im.px[p][c]
      BY <3>3, <3>4
    <3> QED
      BY <3>2, <3>3, <3>5, <3>6, <3>7 DEF IsExposed, TimesAsBright
  <2>3. 1 \in Factor
    BY DEF Factor
  <2> QED
    BY <2>2, <2>3
<1> QED
  BY <1>1, <1>2

LEMMA NotExposed ==
  ASSUME NEW im \in Pictures
  PROVE  /\ Expose(im, 0) \in Pictures
         /\ IsExposed(im, Expose(im, 0), 1, 1)
<1>1. PICK m \in Factor, q \in Factor :
        Expose(im, 0) \in Pictures /\ IsExposed(im, Expose(im, 0), m, q)
  BY ExposeIs
<1>2. PICK f : f = [v \in Values(im) |-> v * 2 ^ 0]
  OBVIOUS
<1>3. 2 ^ 0 = 1
  <2>1. PICK g : g = [i \in 0 .. 3 |-> 2 ^ i]
    OBVIOUS
  <2>2. g[0] = 1
    BY <2>1
  <2>3. g[0] = 2 ^ 0
    BY <2>1
  <2> QED
    BY <2>2, <2>3
<1>4. Expose(im, 0) = [im EXCEPT !.px = MapValues(f, im)]
  BY <1>2 DEF Expose
<1>5. Expose(im, 0) = [px |-> MapValues(f, im), den |-> im.den]
  BY <1>4 DEF Pictures
<1>6. ASSUME NEW p \in Pixel, NEW c \in Channel
      PROVE  Expose(im, 0).px[p][c] = 1 * im.px[p][c]
  <2>1. im.px[p][c] \in Values(im) /\ im.px[p][c] \in Int
    BY DEF Values, Pictures
  <2>2. Expose(im, 0).px[p][c] = f[im.px[p][c]]
    BY <1>2, <1>5, Mapped
  <2>3. f[im.px[p][c]] = im.px[p][c] * 1
    BY <1>2, <1>3, <2>1
  <2> QED
    BY <2>1, <2>2, <2>3
<1>7. Expose(im, 0).den = 1 * im.den
  <2>1. im.den \in Nat \ {0}
    BY DEF Pictures
  <2> QED
    BY <1>5, <2>1
<1> QED
  BY <1>1, <1>6, <1>7 DEF IsExposed, TimesAsBright

(* TT_RGBf_rescale, for a picture whose extremes are B and D.              *)
LEMMA RescaleIs ==
  ASSUME NEW im \in Pictures, NEW B \in Int, NEW D \in Int,
         B = Brightest(im), D = Darkest(im),
         NEW max \in Int, NEW min \in Int, NEW unit \in Nat \ {0},
         NEW jm, jm = Rescale(im, max, min, unit)
  PROVE  /\ D <= B /\ jm \in Pictures
         /\ B = D => /\ jm.den = 2 * unit
                     /\ \A p \in Pixel, c \in Channel : jm.px[p][c] = max + min
         /\ B # D => /\ jm.den = unit * (B - D)
                     /\ \A p \in Pixel, c \in Channel :
                          jm.px[p][c] = (max - min) * (im.px[p][c] - D) + min * (B - D)
<1>1. D <= B
  <2>1. PICK p \in Pixel, c \in Channel : im.px[p][c] = B
    BY ExtremesAre
  <2>2. D <= im.px[p][c]
    BY ExtremesAre
  <2> QED
    BY <2>1, <2>2
<1>2. PICK f : f = [v \in Values(im) |-> (max - min) * (v - D) + min * (B - D)]
  OBVIOUS
<1> DEFINE one == [px |-> [p \in Pixel |-> [c \in Channel |-> max + min]], den |-> 2 * unit]
           many == [px |-> MapValues(f, im), den |-> unit * (B - D)]
<1>3. jm = IF B - D = 0 THEN one ELSE many
  BY <1>2 DEF Rescale
<1>4. CASE B = D
  <2>0. B - D = 0
    BY <1>4
  <2>1. jm = one
    <3> HIDE DEF one, many
    <3> QED
      BY <1>3, <2>0
  <2>2. jm \in Pictures
    BY <2>1 DEF Pictures
  <2> QED
    BY <1>1, <1>4, <2>1, <2>2
<1>5. CASE B # D
  <2>1. jm = many
    <3>1. B - D # 0
      BY <1>5
    <3> HIDE DEF one, many
    <3> QED
      BY <1>3, <3>1
  <2>2. f \in [Values(im) -> Int]
    <3>1. \A v \in Int : (max - min) * (v - D) + min * (B - D) \in Int
      OBVIOUS
    <3> QED
      BY <1>2, <3>1, ValuesType
  <2>3. unit * (B - D) \in Nat \ {0}
    <3>1. PICK r \in Nat \ {0} : r = B - D
      BY <1>1, <1>5
    <3>2. unit * r \in Nat \ {0}
      OBVIOUS
    <3> QED
      BY <3>1, <3>2
  <2>4. jm \in Pictures
    BY <2>1, <2>2, <2>3, MappedType DEF Pictures
  <2>5. ASSUME NEW p \in Pixel, NEW c \in Channel
        PROVE  jm.px[p][c] = (max - min) * (im.px[p][c] - D) + min * (B - D)
    <3>1. im.px[p][c] \in Values(im)
      BY DEF Values
    <3>2. jm.px[p][c] = f[im.px[p][c]]
      BY <2>1, <2>2, Mapped
    <3> QED
      BY <1>2, <3>1, <3>2
  <2> QED
    BY <1>1, <1>5, <2>1, <2>4, <2>5
<1> QED
  BY <1>4, <1>5

LEMMA InvertIs ==
  ASSUME NEW im \in Pictures, NEW B \in Int, NEW D \in Int,
         B = Brightest(im), D = Darkest(im),
         NEW jm, jm = Invert(im)
  PROVE  /\ jm \in Pictures /\ jm.den = im.den
         /\ \A p \in Pixel, c \in Channel : jm.px[p][c] = B - (im.px[p][c] - D)
         /\ Brightest(jm) = B /\ Darkest(jm) = D
<1>1. PICK f : f = [v \in Values(im) |-> B - (v - D)]
  OBVIOUS
<1>2. jm = [im EXCEPT !.px = MapValues(f, im)]
  BY <1>1 DEF Invert
<1>3. jm = [px |-> MapValues(f, im), den |-> im.den]
  BY <1>2 DEF Pictures
<1>4. f \in [Values(im) -> Int]
  BY <1>1, ValuesType
<1>5. jm \in Pictures
  <2>1. im.den \in Nat \ {0}
    BY DEF Pictures
  <2> QED
    BY <1>3, <1>4, <2>1, MappedType DEF Pictures
<1>6. ASSUME NEW p \in Pixel, NEW c \in Channel
      PROVE  jm.px[p][c] = B - (im.px[p][c] - D)
  <2>1. im.px[p][c] \in Values(im)
    BY DEF Values
  <2>2. jm.px[p][c] = f[im.px[p][c]]
    BY <1>3, <1>4, Mapped
  <2> QED
    BY <1>1, <2>1, <2>2
<1>7. /\ \E p \in Pixel, c \in Channel : im.px[p][c] = B
      /\ \E p \in Pixel, c \in Channel : im.px[p][c] = D
      /\ \A p \in Pixel, c \in Channel : im.px[p][c] \in Int /\ im.px[p][c] <= B /\ D <= im.px[p][c]
  BY ExtremesAre
<1>8. HasBrightest(jm, B)
  <2>1. PICK p \in Pixel, c \in Channel : im.px[p][c] = D
    BY <1>7
  <2>2. jm.px[p][c] = B
    BY <1>6, <2>1
  <2>3. \A q \in Pixel, d \in Channel : jm.px[q][d] <= B
    BY <1>6, <1>7
  <2> QED
    BY <2>2, <2>3 DEF HasBrightest
<1>9. HasDarkest(jm, D)
  <2>1. PICK p \in Pixel, c \in Channel : im.px[p][c] = B
    BY <1>7
  <2>2. jm.px[p][c] = D
    BY <1>6, <2>1
  <2>3. \A q \in Pixel, d \in Channel : D <= jm.px[q][d]
    BY <1>6, <1>7
  <2> QED
    BY <2>2, <2>3 DEF HasDarkest
<1> QED
  BY <1>3, <1>5, <1>6, <1>8, <1>9, ExtremesUnique

-----------------------------------------------------------------------------
(* --autoadjust, for a picture whose threshold is n.                       *)
Autoadjusted(im) == Adjusted(im, find_glare_threshold(im))

LEMMA AutoIs ==
  ASSUME NEW im \in Pictures, NEW B \in Int, NEW D \in Int,
         B = Brightest(im), D = Darkest(im), NEW n \in Int,
         find_glare_threshold(im) = [n |-> n, d |-> im.den]
  PROVE  /\ Autoadjusted(im) \in Pictures
         /\ ~(n > 0) => Autoadjusted(im) = im
         /\ n > 0 /\ B = D =>
              /\ Autoadjusted(im).den = 2 * im.den
              /\ \A p \in Pixel, c \in Channel : Autoadjusted(im).px[p][c] = n
         /\ n > 0 /\ B # D =>
              /\ Autoadjusted(im).den = im.den * (B - D)
              /\ \A p \in Pixel, c \in Channel : Autoadjusted(im).px[p][c] = n * (im.px[p][c] - D)
<1>1. CASE n > 0
  <2>1. im.den \in Nat \ {0}
    BY DEF Pictures
  <2>2. PICK jm : jm = Rescale(im, n, 0, im.den)
    OBVIOUS
  <2>3. Autoadjusted(im) = jm
    BY <1>1, <2>2 DEF Autoadjusted, Adjusted
  <2>4. /\ jm \in Pictures
        /\ B = D => /\ jm.den = 2 * im.den
                    /\ \A p \in Pixel, c \in Channel : jm.px[p][c] = n + 0
        /\ B # D => /\ jm.den = im.den * (B - D)
                    /\ \A p \in Pixel, c \in Channel :
                         jm.px[p][c] = (n - 0) * (im.px[p][c] - D) + 0 * (B - D)
    BY <2>1, <2>2, RescaleIs
  <2>5. ASSUME NEW p \in Pixel, NEW c \in Channel
        PROVE  (n - 0) * (im.px[p][c] - D) + 0 * (B - D) = n * (im.px[p][c] - D)
    <3>1. im.px[p][c] \in Int
      BY DEF Pictures
    <3> QED
      BY <3>1
  <2> QED
    BY <1>1, <2>3, <2>4, <2>5
<1>2. CASE ~(n > 0)
  BY <1>2 DEF Autoadjusted, Adjusted
<1> QED
  BY <1>1, <1>2

LEMMA AutoType ==
  ASSUME NEW im \in Pictures
  PROVE  Autoadjusted(im) \in Pictures
<1>1. PICK B \in Int, D \in Int : B = Brightest(im) /\ D = Darkest(im)
  BY ExtremesAre
<1>2. PICK n \in Int : find_glare_threshold(im) = [n |-> n, d |-> im.den]
  BY ThresholdIs
<1> QED
  BY <1>1, <1>2, AutoIs

(* Adjusting before and after an exposure.                                 *)
LEMMA BothOrders ==
  ASSUME NEW m \in Factor, NEW q \in Factor, NEW n \in Int, NEW v \in Int,
         NEW D \in Int, NEW r \in Int, NEW d \in Int
  PROVE  ((m * n) * (m * v - m * D)) * (q * (d * r)) = (m * (n * (v - D))) * ((q * d) * (m * r))
<1>1. PICK k \in Int : k = v - D
  OBVIOUS
<1>2. PICK x \in Int : x = n * k
  OBVIOUS
<1>3. PICK y \in Int : y = d * r
  OBVIOUS
<1>4. m * v - m * D = m * k
  BY <1>1 DEF Factor
<1>5. (m * n) * (m * k) = m * (m * x)
  BY <1>2 DEF Factor
<1>6. (q * d) * (m * r) = q * (m * y)
  BY <1>3 DEF Factor
<1>7. PICK z \in Int : z = x * y
  OBVIOUS
<1>8. (m * (m * x)) * (q * y) = (m * x) * (q * (m * y))
  BY <1>7 DEF Factor
<1> QED
  BY <1>1, <1>2, <1>3, <1>4, <1>5, <1>6, <1>8

LEMMA OrdersAgree ==
  ASSUME NEW im \in Pictures, NEW jm \in Pictures, NEW km \in Pictures,
         NEW m \in Factor, NEW q \in Factor,
         IsExposed(im, jm, m, q), IsExposed(Autoadjusted(im), km, m, q)
  PROVE  Same(Autoadjusted(jm), km)
<1>1. PICK B \in Int, D \in Int : B = Brightest(im) /\ D = Darkest(im)
  BY ExtremesAre
<1>2. PICK n \in Int : find_glare_threshold(im) = [n |-> n, d |-> im.den]
  BY ThresholdIs
<1>3. TimesAsBright(im, jm, m) /\ TimesAsBright(Autoadjusted(im), km, m)
  BY DEF IsExposed
<1>4. jm.den = q * im.den /\ km.den = q * Autoadjusted(im).den
  BY DEF IsExposed
<1>5. PICK d \in Nat \ {0} : d = im.den
  BY DEF Pictures
<1>6. m * B = Brightest(jm) /\ m * D = Darkest(jm)
  BY <1>1, <1>3, ExtremesScaled
<1>7. find_glare_threshold(jm) = [n |-> m * n, d |-> jm.den]
  BY <1>2, <1>3, ThresholdScaled
<1>8. /\ m * B \in Int /\ m * D \in Int /\ m * n \in Int
      /\ (m * B = m * D <=> B = D) /\ (m * n <= m * 0 <=> n <= 0) /\ m * 0 = 0
  <2>1. m * 0 = 0
    BY DEF Factor
  <2> QED
    BY <2>1, OrderScaled
<1>9. m * n > 0 <=> n > 0
  BY <1>8
<1>10. /\ ~(m * n > 0) => Autoadjusted(jm) = jm
       /\ m * n > 0 /\ m * B = m * D =>
            /\ Autoadjusted(jm).den = 2 * jm.den
            /\ \A p \in Pixel, c \in Channel : Autoadjusted(jm).px[p][c] = m * n
       /\ m * n > 0 /\ m * B # m * D =>
            /\ Autoadjusted(jm).den = jm.den * (m * B - m * D)
            /\ \A p \in Pixel, c \in Channel :
                 Autoadjusted(jm).px[p][c] = (m * n) * (jm.px[p][c] - m * D)
  BY <1>6, <1>7, <1>8, AutoIs
<1>11. /\ ~(n > 0) => Autoadjusted(im) = im
       /\ n > 0 /\ B = D =>
            /\ Autoadjusted(im).den = 2 * im.den
            /\ \A p \in Pixel, c \in Channel : Autoadjusted(im).px[p][c] = n
       /\ n > 0 /\ B # D =>
            /\ Autoadjusted(im).den = im.den * (B - D)
            /\ \A p \in Pixel, c \in Channel : Autoadjusted(im).px[p][c] = n * (im.px[p][c] - D)
  BY <1>1, <1>2, AutoIs
<1>12. SUFFICES ASSUME NEW p \in Pixel, NEW c \in Channel
                PROVE  Autoadjusted(jm).px[p][c] * km.den = km.px[p][c] * Autoadjusted(jm).den
  BY DEF Same
<1>13. PICK v \in Int : v = im.px[p][c]
  BY DEF Pictures
<1>14. jm.px[p][c] = m * v /\ km.px[p][c] = m * Autoadjusted(im).px[p][c]
  BY <1>3, <1>13 DEF TimesAsBright
<1>15. CASE ~(n > 0)
  <2>1. Autoadjusted(jm) = jm /\ Autoadjusted(im) = im
    BY <1>9, <1>10, <1>11, <1>15
  <2>2. km.den = jm.den /\ km.px[p][c] = jm.px[p][c]
    BY <1>4, <1>13, <1>14, <2>1
  <2> QED
    BY <2>1, <2>2
<1>16. CASE n > 0 /\ B = D
  <2>1. Autoadjusted(jm).px[p][c] = m * n /\ Autoadjusted(jm).den = 2 * (q * d)
    BY <1>4, <1>5, <1>8, <1>9, <1>10, <1>16
  <2>2. Autoadjusted(im).px[p][c] = n /\ Autoadjusted(im).den = 2 * d
    BY <1>5, <1>11, <1>16
  <2>3. km.px[p][c] = m * n /\ km.den = q * (2 * d)
    BY <1>4, <1>14, <2>2
  <2>4. q * (2 * d) = 2 * (q * d)
    BY DEF Factor
  <2> QED
    BY <2>1, <2>3, <2>4
<1>17. CASE n > 0 /\ B # D
  <2>1. PICK r \in Int : r = B - D
    OBVIOUS
  <2>2. m * B - m * D = m * r
    BY <2>1 DEF Factor
  <2>3. /\ Autoadjusted(jm).px[p][c] = (m * n) * (m * v - m * D)
        /\ Autoadjusted(jm).den = (q * d) * (m * r)
    BY <1>4, <1>5, <1>8, <1>9, <1>10, <1>14, <1>17, <2>2
  <2>4. Autoadjusted(im).px[p][c] = n * (v - D) /\ Autoadjusted(im).den = d * r
    BY <1>5, <1>11, <1>13, <1>17, <2>1
  <2>5. km.px[p][c] = m * (n * (v - D)) /\ km.den = q * (d * r)
    BY <1>4, <1>14, <2>4
  <2> QED
    BY <2>3, <2>5, BothOrders
<1> QED
  BY <1>15, <1>16, <1>17

(* A picture that --autoadjust has nothing to do for: its threshold is its *)
(* brightest value, and it has black in it.                                *)
Usual(im) == /\ NoGlare(im) /\ Darkest(im) = 0 /\ ~Flat(im)

LEMMA UsualThreshold ==
  ASSUME NEW im \in Pictures, Usual(im)
  PROVE  /\ find_glare_threshold(im)
              = [n |-> Brightest(im), d |-> im.den]
         /\ Brightest(im) > 0
<1>1. PICK B \in Int, D \in Int : B = Brightest(im) /\ D = Darkest(im)
  BY ExtremesAre
<1>2. D = 0 /\ B # D
  BY <1>1 DEF Usual, Flat
<1>3. PICK p \in Pixel, c \in Channel : im.px[p][c] = B
  BY <1>1, ExtremesAre
<1>4. \A q \in Pixel, d \in Channel : im.px[q][d] <= B /\ D <= im.px[q][d]
  BY <1>1, ExtremesAre
<1>5. B > 0
  BY <1>2, <1>3, <1>4
<1>6. NotGlare(im) = Pixel
  BY DEF Usual, NoGlare, NotGlare
<1>7. ASSUME NEW q \in Pixel
      PROVE  PixelMax(im, q) \in Int /\ PixelMax(im, q) <= B
  <2>1. PICK d \in Channel : PixelMax(im, q) = im.px[q][d]
    BY PixelMaxIs
  <2> QED
    BY <1>4, <2>1, PixelMaxIs
<1>8. PixelMax(im, p) = B
  <2>1. B <= PixelMax(im, p)
    BY <1>3, PixelMaxIs
  <2> QED
    BY <1>7, <2>1
<1>9. IsThreshold(im, B)
  BY <1>5, <1>6, <1>7, <1>8 DEF IsThreshold
<1>10. PICK n \in Int : /\ find_glare_threshold(im) = [n |-> n, d |-> im.den]
                        /\ IsThreshold(im, n)
  BY ThresholdIs
<1>11. n = B
  BY <1>9, <1>10, ThresholdUnique
<1> QED
  BY <1>1, <1>5, <1>10, <1>11

LEMMA UsualUnchanged ==
  ASSUME NEW im \in Pictures, Usual(im)
  PROVE  Same(Autoadjusted(im), im)
<1>1. PICK B \in Int, D \in Int : B = Brightest(im) /\ D = Darkest(im)
  BY ExtremesAre
<1>2. D = 0 /\ B # D
  BY <1>1 DEF Usual, Flat
<1>3. PICK n \in Int : find_glare_threshold(im) = [n |-> n, d |-> im.den]
  BY ThresholdIs
<1>4. n > 0 /\ B # D =>
        /\ Autoadjusted(im).den = im.den * (B - D)
        /\ \A p \in Pixel, c \in Channel : Autoadjusted(im).px[p][c] = n * (im.px[p][c] - D)
  BY <1>1, <1>3, AutoIs
<1>10. n = B /\ n > 0
  BY <1>1, <1>3, UsualThreshold
<1>5. PICK d \in Nat \ {0} : d = im.den
  BY DEF Pictures
<1>6. SUFFICES ASSUME NEW p \in Pixel, NEW c \in Channel
               PROVE  Autoadjusted(im).px[p][c] * im.den = im.px[p][c] * Autoadjusted(im).den
  BY DEF Same
<1>7. PICK v \in Int : v = im.px[p][c]
  BY DEF Pictures
<1>8. Autoadjusted(im).px[p][c] = B * v /\ Autoadjusted(im).den = d * B
  BY <1>2, <1>4, <1>5, <1>7, <1>10
<1>9. (B * v) * d = v * (d * B)
  OBVIOUS
<1> QED
  BY <1>5, <1>7, <1>8, <1>9

LEMMA UsualExposed ==
  ASSUME NEW im \in Pictures, NEW jm \in Pictures, NEW m \in Factor,
         TimesAsBright(im, jm, m), Usual(im)
  PROVE  Usual(jm)
<1>1. PICK B \in Int, D \in Int : B = Brightest(im) /\ D = Darkest(im)
  BY ExtremesAre
<1>2. D = 0 /\ B # D /\ NoGlare(im)
  BY <1>1 DEF Usual, Flat
<1>3. Brightest(jm) = m * B /\ Darkest(jm) = m * D
  BY <1>1, ExtremesScaled
<1>4. m * D = 0 /\ m * B # m * D
  BY <1>2 DEF Factor
<1>5. NoGlare(jm)
  BY <1>2, GlareScaled
<1> QED
  BY <1>3, <1>4, <1>5 DEF Usual, Flat

(* What is the same is the same when it is exposed.                        *)
LEMMA SameExposed ==
  ASSUME NEW im \in Pictures, NEW jm \in Pictures, Same(im, jm),
         NEW em, NEW fm, NEW m \in Factor, NEW q \in Factor,
         IsExposed(im, em, m, q), IsExposed(jm, fm, m, q)
  PROVE  Same(em, fm)
<1>1. SUFFICES ASSUME NEW p \in Pixel, NEW c \in Channel
               PROVE  em.px[p][c] * fm.den = fm.px[p][c] * em.den
  BY DEF Same
<1>2. PICK v \in Int, w \in Int, d \in Int, e \in Int :
        v = im.px[p][c] /\ w = jm.px[p][c] /\ d = im.den /\ e = jm.den
  BY DEF Pictures
<1>3. v * e = w * d
  BY <1>2 DEF Same
<1>4. em.px[p][c] = m * v /\ fm.px[p][c] = m * w /\ em.den = q * d /\ fm.den = q * e
  BY <1>2 DEF IsExposed, TimesAsBright
<1>5. PICK x \in Int : x = v * e
  OBVIOUS
<1>6. (m * v) * (q * e) = m * (q * x)
  BY <1>5 DEF Factor
<1>7. (m * w) * (q * d) = m * (q * x)
  BY <1>3, <1>5 DEF Factor
<1> QED
  BY <1>4, <1>6, <1>7

-----------------------------------------------------------------------------
(* The range options.                                                      *)
RangeOf(opt, im) ==
  IF opt = "none" THEN im
  ELSE IF opt = "autoadjust" THEN Autoadjusted(im)
  ELSE IF opt \in {"fullrange", "halfrange"}
  THEN Rescale(im, 95, RangeMin(opt), 100)
  ELSE Rescale(Invert(im), 95, RangeMin(opt), 100)

LEMMA RangeMinIs ==
  \A opt : RangeMin(opt) \in {0, 22}
BY DEF RangeMin

LEMMA RangeType ==
  ASSUME NEW im \in Pictures, NEW opt
  PROVE  RangeOf(opt, im) \in Pictures
<1>1. PICK B \in Int, D \in Int : B = Brightest(im) /\ D = Darkest(im)
  BY ExtremesAre
<1>2. PICK min \in Int : min = RangeMin(opt)
  BY RangeMinIs
<1>3. Rescale(im, 95, min, 100) \in Pictures
  <2>1. PICK jm : jm = Rescale(im, 95, min, 100)
    OBVIOUS
  <2>2. 95 \in Int /\ 100 \in Nat \ {0}
    OBVIOUS
  <2> QED
    BY <1>1, <2>1, <2>2, RescaleIs
<1>4. Rescale(Invert(im), 95, min, 100) \in Pictures
  <2>1. PICK jm : jm = Invert(im)
    OBVIOUS
  <2>2. jm \in Pictures /\ B = Brightest(jm) /\ D = Darkest(jm)
    BY <1>1, <2>1, InvertIs
  <2>3. PICK km : km = Rescale(jm, 95, min, 100)
    OBVIOUS
  <2>4. 95 \in Int /\ 100 \in Nat \ {0}
    OBVIOUS
  <2>5. km \in Pictures
    BY <2>2, <2>3, <2>4, RescaleIs
  <2> QED
    BY <2>1, <2>3, <2>5
<1>5. Autoadjusted(im) \in Pictures
  BY AutoType
<1> QED
  BY <1>2, <1>3, <1>4, <1>5 DEF RangeOf

(* jm: im, of the extremes B and D, rescaled to end at 95 and min, of 100. *)
RangeEnds(im, B, D, min, jm) ==
  /\ jm.den = 100 * (B - D)
  /\ Brightest(jm) = 95 * (B - D)
  /\ Darkest(jm) = min * (B - D)
  /\ \A p \in Pixel, c \in Channel :
       jm.px[p][c] = (95 - min) * (im.px[p][c] - D) + min * (B - D)

LEMMA EndsOfRange ==
  ASSUME NEW im \in Pictures, NEW B \in Int, NEW D \in Int,
         B = Brightest(im), D = Darkest(im), B # D,
         NEW min \in {0, 22}, NEW jm, jm = Rescale(im, 95, min, 100)
  PROVE  RangeEnds(im, B, D, min, jm)
<1>1. PICK max \in Int, unit \in Nat \ {0}, low \in Int : max = 95 /\ unit = 100 /\ low = min
  OBVIOUS
<1>2. /\ jm \in Pictures
      /\ jm.den = 100 * (B - D)
      /\ \A p \in Pixel, c \in Channel :
           jm.px[p][c] = (95 - min) * (im.px[p][c] - D) + min * (B - D)
  <2>1. jm = Rescale(im, max, low, unit)
    BY <1>1
  <2>2. /\ jm \in Pictures
        /\ jm.den = unit * (B - D)
        /\ \A p \in Pixel, c \in Channel :
             jm.px[p][c] = (max - low) * (im.px[p][c] - D) + low * (B - D)
    BY <2>1, RescaleIs
  <2> QED
    BY <1>1, <2>2
<1>3. /\ \E p \in Pixel, c \in Channel : im.px[p][c] = B
      /\ \E p \in Pixel, c \in Channel : im.px[p][c] = D
      /\ \A p \in Pixel, c \in Channel : im.px[p][c] \in Int /\ im.px[p][c] <= B /\ D <= im.px[p][c]
  BY ExtremesAre
<1>4. \A v \in Int : v <= B /\ D <= v =>
        /\ (95 - min) * (v - D) + min * (B - D) <= 95 * (B - D)
        /\ min * (B - D) <= (95 - min) * (v - D) + min * (B - D)
  OBVIOUS
<1>5. HasBrightest(jm, 95 * (B - D))
  <2>1. PICK p \in Pixel, c \in Channel : im.px[p][c] = B
    BY <1>3
  <2>2. (95 - min) * (B - D) + min * (B - D) = 95 * (B - D)
    OBVIOUS
  <2>3. jm.px[p][c] = 95 * (B - D)
    BY <1>2, <2>1, <2>2
  <2>4. ASSUME NEW q \in Pixel, NEW d \in Channel PROVE jm.px[q][d] <= 95 * (B - D)
    <3>1. PICK v \in Int : v = im.px[q][d]
      BY <1>3
    <3>2. v <= B /\ D <= v
      BY <1>3, <3>1
    <3>3. (95 - min) * (v - D) + min * (B - D) <= 95 * (B - D)
      BY <1>4, <3>2
    <3> QED
      BY <1>2, <3>1, <3>3
  <2> QED
    BY <2>3, <2>4 DEF HasBrightest
<1>6. HasDarkest(jm, min * (B - D))
  <2>1. PICK p \in Pixel, c \in Channel : im.px[p][c] = D
    BY <1>3
  <2>2. (95 - min) * (D - D) + min * (B - D) = min * (B - D)
    OBVIOUS
  <2>3. jm.px[p][c] = min * (B - D)
    BY <1>2, <2>1, <2>2
  <2>4. ASSUME NEW q \in Pixel, NEW d \in Channel PROVE min * (B - D) <= jm.px[q][d]
    <3>1. PICK v \in Int : v = im.px[q][d]
      BY <1>3
    <3>2. v <= B /\ D <= v
      BY <1>3, <3>1
    <3>3. min * (B - D) <= (95 - min) * (v - D) + min * (B - D)
      BY <1>4, <3>2
    <3> QED
      BY <1>2, <3>1, <3>3
  <2> QED
    BY <2>3, <2>4 DEF HasDarkest
<1>7. 95 * (B - D) \in Int /\ min * (B - D) \in Int
  OBVIOUS
<1> QED
  BY <1>2, <1>5, <1>6, <1>7, ExtremesUnique DEF RangeEnds

(* What RangeUsed says of a picture im of which jm was made, with two      *)
(* values of im and those they became.                                     *)
Turned(x) == IF Inverting THEN -x ELSE x

InStep(im, jm, v, w, vv, ww) ==
  100 * (vv - ww) * (Brightest(im) - Darkest(im))
    = Turned(v - w) * (95 - RangeMin(option)) * jm.den

UsesRange(im, jm) ==
  /\ 100 * Brightest(jm) = 95 * jm.den
  /\ 100 * Darkest(jm) = RangeMin(option) * jm.den
  /\ \A p, q \in Pixel, c, d \in Channel :
       InStep(im, jm, im.px[p][c], im.px[q][d], jm.px[p][c], jm.px[q][d])

InTheMiddle(jm) ==
  \A p \in Pixel, c \in Channel :
    200 * jm.px[p][c] = (95 + RangeMin(option)) * jm.den

LEMMA Proportion ==
  ASSUME NEW min \in {0, 22}, NEW x \in Int, NEW y \in Int, NEW k \in Int,
         y = (95 - min) * x
  PROVE  100 * y * k = x * (95 - min) * (100 * k)
<1>1. CASE min = 0
  <2>1. y = 95 * x
    BY <1>1
  <2>2. 100 * (95 * x) * k = x * 95 * (100 * k)
    BY SMT
  <2> QED
    BY <1>1, <2>1, <2>2
<1>2. CASE min = 22
  <2>1. y = 73 * x
    BY <1>2
  <2>2. 100 * (73 * x) * k = x * 73 * (100 * k)
    BY SMT
  <2>3. 95 - min = 73
    BY <1>2
  <2> QED
    BY <2>1, <2>2, <2>3
<1> QED
  BY <1>1, <1>2

LEMMA RangeMiddle ==
  ASSUME NEW im \in Pictures, Flat(im),
         NEW em \in Pictures, IsExposed(im, em, 1, 1),
         option \in Options \ {"none", "autoadjust"}
  PROVE  InTheMiddle(RangeOf(option, em))
<1>1. PICK B \in Int, D \in Int : B = Brightest(em) /\ D = Darkest(em)
  BY ExtremesAre
<1>2. B = D
  <2>1. 1 \in Factor /\ TimesAsBright(im, em, 1)
    BY DEF Factor, IsExposed
  <2>2. PICK C \in Int, E \in Int : C = Brightest(im) /\ E = Darkest(im)
    BY ExtremesAre
  <2>3. B = 1 * C /\ D = 1 * E
    BY <1>1, <2>1, <2>2, ExtremesScaled
  <2> QED
    BY <2>2, <2>3 DEF Flat
<1>3. PICK min \in {0, 22} : min = RangeMin(option)
  BY RangeMinIs
<1>4. PICK max \in Int, unit \in Nat \ {0}, low \in Int : max = 95 /\ unit = 100 /\ low = min
  OBVIOUS
<1>5. ASSUME NEW fm \in Pictures, B = Brightest(fm), D = Darkest(fm),
             NEW jm, jm = Rescale(fm, 95, min, 100)
      PROVE  InTheMiddle(jm)
  <2>1. jm = Rescale(fm, max, low, unit)
    BY <1>4, <1>5
  <2>ends. B = Brightest(fm) /\ D = Darkest(fm)
    BY <1>5
  <2>all. /\ D <= B /\ jm \in Pictures
          /\ B = D => /\ jm.den = 2 * unit
                      /\ \A p \in Pixel, c \in Channel : jm.px[p][c] = max + low
          /\ B # D => /\ jm.den = unit * (B - D)
                      /\ \A p \in Pixel, c \in Channel :
                           jm.px[p][c] = (max - low) * (fm.px[p][c] - D) + low * (B - D)
    BY <2>1, <2>ends, RescaleIs
  <2>flat. B = D => /\ jm.den = 2 * unit
                    /\ \A p \in Pixel, c \in Channel : jm.px[p][c] = max + low
    BY <2>all
  <2>2. jm.den = 2 * unit /\ \A p \in Pixel, c \in Channel : jm.px[p][c] = max + low
    BY <1>2, <2>flat
  <2>3. 200 * (95 + min) = (95 + min) * (2 * 100)
    OBVIOUS
  <2> QED
    BY <1>3, <1>4, <2>2, <2>3 DEF InTheMiddle
<1>6. CASE option \in {"fullrange", "halfrange"}
  <2>1. PICK jm : jm = Rescale(em, 95, min, 100)
    OBVIOUS
  <2>2. RangeOf(option, em) = jm
    BY <1>3, <1>6, <2>1 DEF RangeOf
  <2> QED
    BY <1>1, <1>5, <2>1, <2>2
<1>7. CASE option \in {"fullrangeinvert", "halfrangeinvert"}
  <2>1. PICK fm \in Pictures : fm = Invert(em)
    BY <1>1, InvertIs
  <2>2. B = Brightest(fm) /\ D = Darkest(fm)
    BY <1>1, <2>1, InvertIs
  <2>3. PICK jm : jm = Rescale(fm, 95, min, 100)
    OBVIOUS
  <2>4. RangeOf(option, em) = jm
    BY <1>3, <1>7, <2>1, <2>3 DEF RangeOf
  <2> QED
    BY <1>5, <2>2, <2>3, <2>4
<1> QED
  BY <1>6, <1>7 DEF Options

LEMMA RangeUses ==
  ASSUME NEW im \in Pictures, ~Flat(im),
         NEW em \in Pictures, IsExposed(im, em, 1, 1),
         option \in Options \ {"none", "autoadjust"}
  PROVE  UsesRange(im, RangeOf(option, em))
<1>1. PICK B \in Int, D \in Int : B = Brightest(em) /\ D = Darkest(em)
  BY ExtremesAre
<1>2. \A p \in Pixel, c \in Channel : em.px[p][c] = im.px[p][c] /\ im.px[p][c] \in Int
  <2>1. \A p \in Pixel, c \in Channel : im.px[p][c] \in Int
    BY DEF Pictures
  <2> QED
    BY <2>1 DEF IsExposed, TimesAsBright
<1>3. B # D /\ Brightest(im) = B /\ Darkest(im) = D
  <2>1. 1 \in Factor /\ TimesAsBright(im, em, 1)
    BY DEF Factor, IsExposed
  <2>2. PICK C \in Int, E \in Int : C = Brightest(im) /\ E = Darkest(im)
    BY ExtremesAre
  <2>3. B = 1 * C /\ D = 1 * E
    BY <1>1, <2>1, <2>2, ExtremesScaled
  <2> QED
    BY <2>2, <2>3 DEF Flat
<1>4. PICK min \in {0, 22} : min = RangeMin(option)
  BY RangeMinIs
<1>5. CASE option \in {"fullrange", "halfrange"}
  <2>1. PICK jm : jm = Rescale(em, 95, min, 100)
    OBVIOUS
  <2>2. RangeOf(option, em) = jm /\ ~Inverting
    BY <1>4, <1>5, <2>1 DEF RangeOf, Inverting
  <2>ends. B = Brightest(em) /\ D = Darkest(em) /\ B # D /\ jm = Rescale(em, 95, min, 100)
    BY <1>1, <1>3, <2>1
  <2>range. RangeEnds(em, B, D, min, jm)
    BY <2>ends, EndsOfRange
  <2>3. /\ jm.den = 100 * (B - D)
        /\ Brightest(jm) = 95 * (B - D)
        /\ Darkest(jm) = min * (B - D)
        /\ \A p \in Pixel, c \in Channel :
             jm.px[p][c] = (95 - min) * (em.px[p][c] - D) + min * (B - D)
    BY <2>range DEF RangeEnds
  <2>4. ASSUME NEW p \in Pixel, NEW q \in Pixel, NEW c \in Channel, NEW d \in Channel
        PROVE  InStep(im, jm, im.px[p][c], im.px[q][d], jm.px[p][c], jm.px[q][d])
    <3>1. PICK v \in Int, w \in Int : v = im.px[p][c] /\ w = im.px[q][d]
      BY <1>2
    <3>2. /\ jm.px[p][c] = (95 - min) * (v - D) + min * (B - D)
          /\ jm.px[q][d] = (95 - min) * (w - D) + min * (B - D)
      BY <1>2, <2>3, <3>1
    <3>3. PICK x \in Int, k \in Int : x = v - w /\ k = B - D
      OBVIOUS
    <3>change. PICK y : y = jm.px[p][c] - jm.px[q][d]
      OBVIOUS
    <3>4. ((95 - min) * (v - D) + min * (B - D)) - ((95 - min) * (w - D) + min * (B - D))
            = (95 - min) * (v - w)
      OBVIOUS
    <3>5. y = (95 - min) * x
      BY <3>2, <3>3, <3>4, <3>change
    <3>6. 100 * y * k = x * (95 - min) * (100 * k)
      BY <3>5, Proportion
    <3>7. /\ Turned(im.px[p][c] - im.px[q][d]) = x
          /\ Brightest(im) - Darkest(im) = k /\ jm.den = 100 * k
          /\ RangeMin(option) = min
      BY <1>3, <1>4, <2>2, <2>3, <3>1, <3>3 DEF Turned
    <3> QED
      BY <3>3, <3>6, <3>7, <3>change DEF InStep
  <2>5. 100 * (95 * (B - D)) = 95 * (100 * (B - D)) /\ 100 * (min * (B - D)) = min * (100 * (B - D))
    OBVIOUS
  <2> QED
    BY <1>4, <2>2, <2>3, <2>4, <2>5 DEF UsesRange
<1>6. CASE option \in {"fullrangeinvert", "halfrangeinvert"}
  <2>1. PICK fm \in Pictures : fm = Invert(em)
    BY <1>1, InvertIs
  <2>2. \A p \in Pixel, c \in Channel : fm.px[p][c] = B - (em.px[p][c] - D)
    BY <1>1, <2>1, InvertIs
  <2>8. B = Brightest(fm) /\ D = Darkest(fm)
    BY <1>1, <2>1, InvertIs
  <2>3. PICK jm : jm = Rescale(fm, 95, min, 100)
    OBVIOUS
  <2>4. RangeOf(option, em) = jm /\ Inverting
    BY <1>4, <1>6, <2>1, <2>3 DEF RangeOf, Inverting
  <2>range. RangeEnds(fm, B, D, min, jm)
    BY <1>3, <2>3, <2>8, EndsOfRange
  <2>5. /\ jm.den = 100 * (B - D)
        /\ Brightest(jm) = 95 * (B - D)
        /\ Darkest(jm) = min * (B - D)
        /\ \A p \in Pixel, c \in Channel :
             jm.px[p][c] = (95 - min) * (fm.px[p][c] - D) + min * (B - D)
    BY <2>range DEF RangeEnds
  <2>6. ASSUME NEW p \in Pixel, NEW q \in Pixel, NEW c \in Channel, NEW d \in Channel
        PROVE  InStep(im, jm, im.px[p][c], im.px[q][d], jm.px[p][c], jm.px[q][d])
    <3>1. PICK v \in Int, w \in Int : v = im.px[p][c] /\ w = im.px[q][d]
      BY <1>2
    <3>2. fm.px[p][c] = B - (v - D) /\ fm.px[q][d] = B - (w - D)
      BY <1>2, <2>2, <3>1
    <3>3. /\ jm.px[p][c] = (95 - min) * ((B - (v - D)) - D) + min * (B - D)
          /\ jm.px[q][d] = (95 - min) * ((B - (w - D)) - D) + min * (B - D)
      <4>1. PICK x, y : x = fm.px[p][c] /\ y = fm.px[q][d]
        OBVIOUS
      <4>2. /\ jm.px[p][c] = (95 - min) * (x - D) + min * (B - D)
            /\ jm.px[q][d] = (95 - min) * (y - D) + min * (B - D)
        BY <2>5, <4>1
      <4>3. x = B - (v - D) /\ y = B - (w - D)
        BY <3>2, <4>1
      <4> QED
        BY <4>2, <4>3
    <3>4. PICK x \in Int, k \in Int : x = w - v /\ k = B - D
      OBVIOUS
    <3>change. PICK y : y = jm.px[p][c] - jm.px[q][d]
      OBVIOUS
    <3>5. ((95 - min) * ((B - (v - D)) - D) + min * (B - D))
            - ((95 - min) * ((B - (w - D)) - D) + min * (B - D)) = (95 - min) * (w - v)
      OBVIOUS
    <3>6. y = (95 - min) * x
      BY <3>3, <3>4, <3>5, <3>change
    <3>7. 100 * y * k = x * (95 - min) * (100 * k)
      BY <3>6, Proportion
    <3>8. /\ Turned(im.px[p][c] - im.px[q][d]) = x
          /\ Brightest(im) - Darkest(im) = k /\ jm.den = 100 * k
          /\ RangeMin(option) = min
      <4>1. -(v - w) = w - v
        OBVIOUS
      <4> QED
        BY <1>3, <1>4, <2>4, <2>5, <3>1, <3>4, <4>1 DEF Turned
    <3> QED
      BY <3>4, <3>7, <3>8, <3>change DEF InStep
  <2>7. 100 * (95 * (B - D)) = 95 * (100 * (B - D)) /\ 100 * (min * (B - D)) = min * (100 * (B - D))
    OBVIOUS
  <2> QED
    BY <1>4, <2>4, <2>5, <2>6, <2>7 DEF UsesRange
<1> QED
  BY <1>5, <1>6 DEF Options

-----------------------------------------------------------------------------
(* Where a converter is, and what it has made of the picture until then.   *)
Progress ==
  \/ order = "exposure first" /\ todo = <<"exposure", "range">> /\ picture = original
  \/ order = "exposure first" /\ todo = <<"range">>
     /\ picture = Expose(original, stops)
  \/ order = "exposure first" /\ todo = <<>>
     /\ picture = RangeOf(option, Expose(original, stops))
  \/ order = "adjust first" /\ todo = <<"range", "exposure">> /\ picture = original
  \/ order = "adjust first" /\ todo = <<"exposure">> /\ picture = RangeOf(option, original)
  \/ order = "adjust first" /\ todo = <<>>
     /\ picture = Expose(RangeOf(option, original), stops)

Request ==
  /\ original \in Pictures /\ stops \in -3 .. 3 /\ option \in Options
  /\ option \in {"none", "autoadjust"} \/ stops = 0
  /\ order = "adjust first" => option \in {"none", "autoadjust"}

AdjustInv == Request /\ Progress

LEMMA AdjustStarts ==
  ASSUME AdjustInit
  PROVE  AdjustInv
<1>1. original \in [px : [Pixel -> [Channel -> Sample]], den : {1}]
  BY DEF AdjustInit
<1>2. original \in Pictures
  <2>1. Sample \subseteq Int
    BY AdjustAssumption DEF AdjustAssumption
  <2>2. original = [px |-> original.px, den |-> original.den] /\ original.den = 1
    BY <1>1
  <2>3. original.px \in [Pixel -> [Channel -> Int]]
    BY <1>1, <2>1
  <2> QED
    BY <2>2, <2>3 DEF Pictures
<1>3. stops \in -3 .. 3
  <2>1. Exposures \subseteq -3 .. 3
    BY AdjustAssumption DEF AdjustAssumption
  <2> QED
    BY <2>1 DEF AdjustInit
<1>4. Request
  BY <1>2, <1>3 DEF Request, AdjustInit
<1>5. order \in {"exposure first", "adjust first"}
  <2>1. Orders \subseteq {"exposure first", "adjust first"}
    BY AdjustAssumption DEF AdjustAssumption
  <2> QED
    BY <2>1 DEF AdjustInit
<1>6. Progress
  BY <1>5 DEF AdjustInit, Progress
<1> QED
  BY <1>4, <1>6 DEF AdjustInv

(* The first step that is left. *)
LEMMA StepTaken ==
  ASSUME NEW name, Take(name)
  PROVE  /\ todo = <<"exposure", "range">> => name = "exposure" /\ todo' = <<"range">>
         /\ todo = <<"range", "exposure">> => name = "range" /\ todo' = <<"exposure">>
         /\ todo = <<"exposure">> => name = "exposure" /\ todo' = <<>>
         /\ todo = <<"range">> => name = "range" /\ todo' = <<>>
         /\ todo # <<>>
<1>1. todo # <<>> /\ todo[1] = name /\ todo' = SubSeq(todo, 2, Len(todo))
  BY DEF Take
<1>2. ASSUME NEW a, NEW b
      PROVE  SubSeq(<<a, b>>, 2, Len(<<a, b>>)) = <<b>> /\ SubSeq(<<a>>, 2, Len(<<a>>)) = <<>>
  <2>1. PICK s : s = <<a, b>>
    OBVIOUS
  <2>2. Len(s) = 2 /\ s[2] = b
    BY <2>1
  <2>3. SubSeq(s, 2, 2) = [i \in 1 .. 1 |-> s[i + 1]]
    OBVIOUS
  <2>4. SubSeq(s, 2, 2) = <<b>>
    <3>1. \A i \in 1 .. 1 : s[i + 1] = b
      BY <2>2
    <3>2. <<b>> = [i \in 1 .. 1 |-> b]
      OBVIOUS
    <3> QED
      BY <2>3, <3>1, <3>2
  <2>5. PICK t : t = <<a>>
    OBVIOUS
  <2>6. Len(t) = 1
    BY <2>5
  <2>7. SubSeq(t, 2, 1) = <<>>
    OBVIOUS
  <2> QED
    BY <2>1, <2>2, <2>4, <2>5, <2>6, <2>7
<1> QED
  BY <1>1, <1>2

LEMMA RangeTaken ==
  ASSUME Request,
         \/ RangeStep \/ InvertStep
         \/ AutoadjustStep \/ NoRangeStep
  PROVE  /\ Take("range") /\ picture' = RangeOf(option, picture)
         /\ UNCHANGED <<original, order, stops, option>>
<1>1. CASE RangeStep
  BY <1>1 DEF RangeStep, RangeOf, RANGE_MAX
<1>2. CASE InvertStep
  BY <1>2 DEF InvertStep, RangeOf, RANGE_MAX
<1>3. CASE AutoadjustStep
  BY <1>3 DEF AutoadjustStep, RangeOf, Autoadjusted
<1>4. CASE NoRangeStep
  BY <1>4 DEF NoRangeStep, RangeOf
<1> QED
  BY <1>1, <1>2, <1>3, <1>4

LEMMA AdjustSteps ==
  ASSUME AdjustInv, [AdjustNext]_adjustVars
  PROVE  AdjustInv'
<1>1. Request /\ Progress
  BY DEF AdjustInv
<1>2. CASE ExposureStep
  <2>1. /\ Take("exposure") /\ picture' = Expose(picture, stops)
        /\ original' = original /\ order' = order /\ stops' = stops /\ option' = option
    BY <1>2 DEF ExposureStep
  <2>2. Request'
    BY <1>1, <2>1 DEF Request
  <2>3. Progress'
    BY <1>1, <2>1, StepTaken DEF Progress
  <2> QED
    BY <2>2, <2>3 DEF AdjustInv
<1>3. CASE \/ RangeStep \/ InvertStep
           \/ AutoadjustStep \/ NoRangeStep
  <2>1. /\ Take("range") /\ picture' = RangeOf(option, picture)
        /\ original' = original /\ order' = order /\ stops' = stops /\ option' = option
    BY <1>1, <1>3, RangeTaken
  <2>2. Request'
    BY <1>1, <2>1 DEF Request
  <2>3. Progress'
    BY <1>1, <2>1, StepTaken DEF Progress
  <2> QED
    BY <2>2, <2>3 DEF AdjustInv
<1>4. CASE UNCHANGED adjustVars
  <2>1. /\ original' = original /\ order' = order /\ stops' = stops /\ option' = option
        /\ picture' = picture /\ todo' = todo
    BY <1>4 DEF adjustVars
  <2>2. Request' /\ Progress'
    BY <1>1, <2>1 DEF Request, Progress
  <2> QED
    BY <2>2 DEF AdjustInv
<1> QED
  BY <1>2, <1>3, <1>4 DEF AdjustNext, AdjustFinished

LEMMA AdjustedRange ==
  ASSUME AdjustInv
  PROVE  RangeUsed
<1> SUFFICES ASSUME todo = <<>>, option \in Options \ {"none", "autoadjust"}
             PROVE  IF Flat(original) THEN InTheMiddle(picture)
                                      ELSE UsesRange(original, picture)
  BY DEF RangeUsed, InTheMiddle, UsesRange, InStep, Turned, RANGE_MAX
<1>1. original \in Pictures /\ stops = 0 /\ order # "adjust first"
  BY DEF AdjustInv, Request
<1>2. picture = RangeOf(option, Expose(original, stops))
  BY <1>1 DEF AdjustInv, Progress
<1>3. PICK em \in Pictures : em = Expose(original, 0) /\ IsExposed(original, em, 1, 1)
  BY <1>1, NotExposed
<1>4. picture = RangeOf(option, em)
  BY <1>1, <1>2, <1>3
<1> QED
  BY <1>1, <1>3, <1>4, RangeUses, RangeMiddle

(* What comes out of both programs, with --autoadjust.                     *)
LEMMA Autoadjusts ==
  ASSUME AdjustInv, todo = <<>>, option = "autoadjust"
  PROVE  picture = IF order = "exposure first"
                   THEN Autoadjusted(Expose(original, stops))
                   ELSE Expose(Autoadjusted(original), stops)
BY DEF AdjustInv, Progress, RangeOf

LEMMA AdjustedOrder ==
  ASSUME AdjustInv
  PROVE  OrderIrrelevant
<1> SUFFICES ASSUME todo = <<>>, option = "autoadjust"
             PROVE  Same(picture,
                      IF order = "exposure first"
                      THEN Expose(Autoadjusted(original), stops)
                      ELSE Autoadjusted(Expose(original, stops)))
  BY DEF OrderIrrelevant, Autoadjusted
<1>1. original \in Pictures /\ stops \in -3 .. 3
  BY DEF AdjustInv, Request
<1>2. PICK m \in Factor, q \in Factor : \A im \in Pictures :
        /\ Expose(im, stops) \in Pictures
        /\ IsExposed(im, Expose(im, stops), m, q)
  BY <1>1, ExposeIs
<1>3. PICK am \in Pictures : am = Autoadjusted(original)
  BY <1>1, AutoType
<1>4. PICK jm \in Pictures : jm = Expose(original, stops) /\ IsExposed(original, jm, m, q)
  BY <1>1, <1>2
<1>5. PICK km \in Pictures : km = Expose(am, stops) /\ IsExposed(am, km, m, q)
  BY <1>2
<1>6. Same(Autoadjusted(jm), km)
  BY <1>1, <1>3, <1>4, <1>5, OrdersAgree
<1>7. Same(km, Autoadjusted(jm))
  BY <1>6 DEF Same
<1>8. picture = IF order = "exposure first" THEN Autoadjusted(jm) ELSE km
  BY <1>3, <1>4, <1>5, Autoadjusts
<1> QED
  BY <1>3, <1>4, <1>5, <1>6, <1>7, <1>8

LEMMA AdjustedUsual ==
  ASSUME AdjustInv
  PROVE  LeavesTheUsual
<1> SUFFICES ASSUME todo = <<>>, option = "autoadjust", Usual(original)
             PROVE  Same(picture, Expose(original, stops))
  BY DEF LeavesTheUsual, Usual
<1>1. original \in Pictures /\ stops \in -3 .. 3
  BY DEF AdjustInv, Request
<1>2. PICK m \in Factor, q \in Factor : \A im \in Pictures :
        /\ Expose(im, stops) \in Pictures
        /\ IsExposed(im, Expose(im, stops), m, q)
  BY <1>1, ExposeIs
<1>3. PICK am \in Pictures : am = Autoadjusted(original)
  BY <1>1, AutoType
<1>4. PICK jm \in Pictures : jm = Expose(original, stops) /\ IsExposed(original, jm, m, q)
  BY <1>1, <1>2
<1>5. PICK km \in Pictures : km = Expose(am, stops) /\ IsExposed(am, km, m, q)
  BY <1>2
<1>6. Same(Autoadjusted(jm), jm)
  <2>1. TimesAsBright(original, jm, m)
    BY <1>4 DEF IsExposed
  <2>2. Usual(jm)
    BY <1>1, <2>1, UsualExposed
  <2> QED
    BY <2>2, UsualUnchanged
<1>7. Same(km, jm)
  <2>1. Same(am, original)
    BY <1>1, <1>3, UsualUnchanged
  <2> QED
    BY <1>1, <1>4, <1>5, <2>1, SameExposed
<1>8. picture = IF order = "exposure first" THEN Autoadjusted(jm) ELSE km
  BY <1>3, <1>4, <1>5, Autoadjusts
<1> QED
  BY <1>4, <1>6, <1>7, <1>8

LEMMA AdjustInductive ==
  AdjustSpec => []AdjustInv
<1>1. AdjustInit => AdjustInv
  BY AdjustStarts
<1>2. AdjustInv /\ [AdjustNext]_adjustVars => AdjustInv'
  BY AdjustSteps
<1> QED
  BY <1>1, <1>2, PTL DEF AdjustSpec

(* The range options map the values onto the whole of the new range in a   *)
(* straight line, upwards or downwards, and a picture of one value onto    *)
(* its middle, in pictures of any size and any values.                     *)
THEOREM AdjustRange ==
  AdjustSpec => []RangeUsed
<1>1. AdjustInv => RangeUsed
  BY AdjustedRange
<1> QED
  BY <1>1, AdjustInductive, PTL

(* Whether a converter exposes a picture before or after --autoadjust, the *)
(* same picture comes out.                                                 *)
THEOREM AdjustOrder ==
  AdjustSpec => []OrderIrrelevant
<1>1. AdjustInv => OrderIrrelevant
  BY AdjustedOrder
<1> QED
  BY <1>1, AdjustInductive, PTL

(* --autoadjust leaves a picture with no glare and with black in it as it  *)
(* is, but for the exposure that was asked for.                            *)
THEOREM AdjustUsual ==
  AdjustSpec => []LeavesTheUsual
<1>1. AdjustInv => LeavesTheUsual
  BY AdjustedUsual
<1> QED
  BY <1>1, AdjustInductive, PTL
=============================================================================
