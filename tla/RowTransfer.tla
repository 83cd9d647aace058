----------------------------- MODULE RowTransfer -----------------------------
(***************************************************************************)
(* What a reader of pictures promises: the rows of the picture that was    *)
(* written, in order and unchanged, up to the end of the picture or to the *)
(* point where the transfer breaks off.  The readers of radianceIO.c and   *)
(* radiance-tiff.c call freadscan row by row and give up at the first      *)
(* error.                                                                  *)
(***************************************************************************)
EXTENDS Integers, Sequences

CONSTANTS
  NRows,     (* the rows of a picture                                      *)
  Picture    (* the pictures: functions on 0 .. NRows - 1                  *)

VARIABLES img, delivered, status

vars == <<img, delivered, status>>

Init == /\ img \in Picture
        /\ delivered = <<>>
        /\ status = "open"

Deliver == /\ status = "open"
           /\ delivered' = Append(delivered, img[Len(delivered)])
           /\ status' = IF Len(delivered) + 1 < NRows THEN "open" ELSE "complete"
           /\ UNCHANGED img

BreakOff == /\ status = "open"
            /\ status' = "broken"
            /\ UNCHANGED <<img, delivered>>

Next == Deliver \/ BreakOff

Spec == Init /\ [][Next]_vars

FairSpec == Spec /\ WF_vars(Next)
=============================================================================
