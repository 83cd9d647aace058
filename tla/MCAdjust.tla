------------------------------ MODULE MCAdjust ------------------------------
(* Values below zero come from pictures with colours out of gamut. *)
EXTENDS Adjust

SomeValues == {-1, 0, 1, 2, 6}
Programs   == {"exposure first", "adjust first"}
SomeStops  == {-1, 0, 2}
=============================================================================
