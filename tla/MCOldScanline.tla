---------------------------- MODULE MCOldScanline ----------------------------
(***************************************************************************)
(* Pixels for bytes 0 .. 5.  The narrow pictures cannot be encoded; the    *)
(* widest have a count of two digits in their first row, and one colour in *)
(* the second.                                                             *)
(***************************************************************************)
EXTENDS OldScanline

Pix(r, g, b, e) == [RED |-> r, GRN |-> g, BLU |-> b, EXP |-> e]

LikeHeader == Pix(2, 2, 3, 4)       \* begins like an encoded scanline
LikeMarker == Pix(1, 1, 3, 1)
MCPixel == {LikeHeader, LikeMarker, Pix(0, 0, 0, 0),
            Pix(2, 2, 2, 3), Pix(1, 1, 2, 1)}    \* largest mantissa Half - 1

Pictures(w) ==
  IF w <= MinELen
  THEN [Row -> [0 .. w - 1 -> PixelOf(w)]]
  ELSE {[r \in Row |-> IF r = 0 THEN first ELSE [x \in 0 .. w - 1 |-> p]] :
          first \in [0 .. w - 1 -> {LikeHeader, LikeMarker}], p \in {LikeHeader}}

MCInit == len \in Widths /\ img \in Pictures(len) /\ Init

MCSpec == MCInit /\ [][Next]_vars
=============================================================================
