---------------------------- MODULE MCRleForeign ----------------------------
(***************************************************************************)
(* Files for the decoder: the right header, a header cut short, the length *)
(* of another picture, and first pixels of the old format.                 *)
(***************************************************************************)
EXTENDS RleForeign

MCHeaders ==
  { Header, <<>>, SubSeq(Header, 1, 2),
    <<Magic, Magic, HighByte, LowByte + 1>>,
    <<Magic, Magic, Half, LowByte>>,
    <<Magic, 1, HighByte, LowByte>> }
=============================================================================
