------------------------------- MODULE MCRgbe -------------------------------
(* Every value of one channel; a middle scale, the darkest two, and the     *)
(* brightest.                                                               *)
EXTENDS Rgbe

AllValues == -1 .. LargestValue
Others    == {-1, 0, 1, 5, 127, 256, 511, 800}
Scales    == {21, 22, 128, 255}
=============================================================================
