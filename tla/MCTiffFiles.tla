---------------------------- MODULE MCTiffFiles ----------------------------
(* Two files without tags, one of them of a type that goes through the     *)
(* scanline buffers, or one file with tags and compression.                *)
EXTENDS TiffFiles

CONSTANTS fileA, fileB, fileC

F(s, e, m) == [s |-> s, e |-> e, m |-> m]

(* 1; ties of half and of triple; a carry into the exponent; a half and a  *)
(* triple that overflow; denormalized halves; infinity; NaN; 0.            *)
MCSamples == <<
  F(0, 127, 0), F(1, 127, 2 ^ 12), F(0, 127, 2 ^ 6), F(0, 130, 2 ^ 23 - 1),
  F(0, 142, 2 ^ 23 - 1), F(1, 190, 2 ^ 23 - 1), F(0, 112, 2 ^ 22 + 2 ^ 13),
  F(1, 103, 1), F(0, 102, 5), F(1, 255, 0), F(0, 255, 1), F(0, 0, 0), F(0, 64, 3) >>

AllTypes == {"Gray", "RGB", "RGBA", "XYZ", "LogLuv", "LogL", "Gray16", "RGB16",
             "Float", "Float16", "Float24", "RGBf", "RGBf16", "RGBf24"}
TaggedTypes == {"Gray", "RGB", "RGBA", "LogLuv", "Float24", "RGBf16"}
MCTypes == (fileA :> AllTypes) @@ (fileB :> {"Float16", "RGBf24"}) @@ (fileC :> TaggedTypes)
MCWidths == (fileA :> {1, 6}) @@ (fileB :> {4}) @@ (fileC :> {1})
MCSessions == {{fileA, fileB}, {fileC}}
MCFocals == {-10, 327674}
MCWords == {<<"w">>}
=============================================================================
