--------------------------- MODULE MCRadianceHeader --------------------------
(* Views of two options, set by one line or by two. *)
EXTENDS RadianceHeader

NoView    == [type |-> "none", horiz |-> 0]
ViewLines == {[horiz |-> 30], [type |-> "h", horiz |-> 60]}
=============================================================================
