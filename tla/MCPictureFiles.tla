---------------------------- MODULE MCPictureFiles ---------------------------
(* Descriptions of up to two lines of every kind, views with and without a *)
(* type, exposures that lose digits; profiles of up to more markers than   *)
(* can be numbered; every kind of PNG picture.                             *)
EXTENDS PictureFiles

CONSTANTS r1, r2

NoView == [type |-> "none", horiz |-> 0]
NoAngle == -1

Described == {Line("text", "a"), Line("text", "-Y 1 +X 4"), Line("blank", ""),
              Line("exposure", 200), Line("format", "rgbe"),
              Line("view", [horiz |-> 60]),
              Line("indented view", [type |-> "h", horiz |-> 20])}

Descriptions == {<<>>} \cup {<<l>> : l \in Described}
                  \cup {<<k, l>> : k \in Described, l \in Described}

Views == {NoView, [type |-> "none", horiz |-> 30], [type |-> "h", horiz |-> 30],
          [type |-> "none", horiz |-> NoAngle]}

Radiance(texts, views, exposures, rowses, flats) ==
  {[text |-> t, view |-> v, exposure_set |-> e # 0,
    exposure |-> IF e = 0 THEN 100 ELSE e, rows |-> r, flat |-> f] :
     t \in texts, v \in views, e \in exposures, r \in rowses, f \in flats}

Rows == {<<r1>>, <<r1, r2>>}

RadiancePictures == Radiance(Descriptions, Views, {0, 4, 36, 200}, Rows, {FALSE})

FragileRadiances ==
  Radiance({<<>>, <<Line("text", "a")>>}, {[type |-> "h", horiz |-> 30]}, {200},
           Rows, BOOLEAN)

Jpeg(comments, sizes, rowses) ==
  {[comment |-> c, profile |-> [i \in 1 .. n |-> i], rows |-> r] :
     c \in comments, n \in sizes, r \in rowses}

Short == [kind |-> "comment", length |-> 5]
Long  == [kind |-> "comment", length |-> 8]
Empty == [kind |-> "comment", length |-> 0]

JpegPictures == Jpeg({NULL, Empty, Short, Long}, 0 .. 12, {<<r1>>})
FragileJpegs == Jpeg({Short, Long}, {3}, Rows)

Png(formats) == {[format |-> f, rows |-> r] : f \in formats, r \in Rows}

PngPictures == Png({GRAY, RGB, {"ALPHA"}, {"COLOR", "ALPHA"}, {"COLOR", "COLORMAP"},
                    {"COLOR", "LINEAR"}})
FragilePngs == Png({GRAY, RGB})
=============================================================================
