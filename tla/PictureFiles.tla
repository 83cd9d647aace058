----------------------------- MODULE PictureFiles ----------------------------
(***************************************************************************)
(* A picture in a file of one of the three kinds, written and read back.   *)
(***************************************************************************)
EXTENDS RadianceFiles, JpegFiles, PngFiles

CONSTANTS
  RadiancePicture, FragileRadiance,   \* pictures; those written to a device
  JpegPicture, FragileJpeg,           \* that may be full
  PngPicture, FragilePng

(* Descriptions, rows and the bytes of profiles are sequences.             *)
Array(s) == s \in Seq({s[i] : i \in DOMAIN s})

(* A line of a description, as headline may see it in a header; -1 is no   *)
(* angle of a view.                                                        *)
DescriptionLine(l) ==
  /\ l.kind \in {"text", "blank", "format", "exposure", "view", "indented view"}
  /\ l.kind = "exposure" => l.arg \in Int
  /\ l.kind \in {"view", "indented view"} /\ "horiz" \in DOMAIN l.arg => l.arg.horiz # NoFOV

Describable(p) ==
  /\ Array(p.rows) /\ Array(p.text) /\ p.exposure_set \in BOOLEAN /\ p.exposure \in Int
  /\ p.view = [o \in DOMAIN NullView |-> p.view[o]]
  /\ \A i \in 1 .. Len(p.text) : DescriptionLine(p.text[i])

ASSUME NullViewAssumption ==
  /\ {"type", "horiz"} \subseteq DOMAIN NullView
  /\ NullView = [o \in DOMAIN NullView |-> NullView[o]]
  /\ NullView.type # "v" /\ NullView.horiz # NoFOV

ASSUME PictureAssumption ==
  /\ \A p \in RadiancePicture \cup FragileRadiance : Describable(p)
  /\ \A p \in JpegPicture \cup FragileJpeg :
       Array(p.profile) /\ Array(p.rows) /\ p.comment # Unassigned
  /\ \A p \in PngPicture \cup FragilePng : Array(p.rows)

vars == <<streamvars, radiancevars, jpegvars, wanted>>

Given(p, items) ==
  /\ picture = p /\ todo = items /\ status = "writing"
  /\ buf = <<>> /\ ferror = FALSE /\ disk = <<>> /\ got = Nothing

Init ==
  /\ fragile \in BOOLEAN /\ suffix \in {".hdr", ".jpg", ".png"}
  /\ generation = 1 /\ profile = Nothing /\ edited = <<>>
  /\ tt \in (IF suffix = ".hdr" THEN BOOLEAN ELSE {FALSE})
  /\ wanted \in (IF suffix = ".png" THEN {GRAY, RGB} ELSE {RGB})
  /\ \/ /\ suffix = ".hdr"
        /\ \E p \in IF fragile THEN FragileRadiance ELSE RadiancePicture :
             Given(p, RadianceItems(p))
     \/ /\ suffix = ".jpg"
        /\ \E p \in IF fragile THEN FragileJpeg ELSE JpegPicture :
             Given(p, JpegItems(p))
     \/ /\ suffix = ".png"
        /\ \E p \in IF fragile THEN FragilePng ELSE PngPicture :
             Given(p, PngItems(p))

Finished ==
  /\ status = "failure" \/ got # Nothing
  /\ suffix = ".hdr" => generation = 2 \/ got \in {Nothing, Refused}
  /\ UNCHANGED vars

Next ==
  \/ suffix = ".hdr" /\ RadianceNext /\ UNCHANGED <<jpegvars, wanted>>
  \/ suffix = ".jpg" /\ JpegNext /\ UNCHANGED <<radiancevars, wanted>>
  \/ suffix = ".png" /\ PngNext /\ UNCHANGED <<radiancevars, jpegvars>>
  \/ Killed /\ UNCHANGED <<radiancevars, jpegvars, wanted>>
  \/ Finished

Spec == Init /\ [][Next]_vars

-----------------------------------------------------------------------------
(* A picture that a reader returns has the rows of the one that was        *)
(* written, all of them: what is left of a file after a kill, or after     *)
(* an error that its writer did not report, is refused.  (A Radiance       *)
(* header that ends early by its own description is the exception.)        *)
WholeOrRefused ==
  got \notin {Nothing, Refused} /\ (suffix = ".hdr" => Plain(picture)) =>
    got.rows = picture.rows

=============================================================================
