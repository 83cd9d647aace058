---------------------------- MODULE MCHeaderLines ----------------------------
(* A buffer of six bytes, four of which are a piece; files of up to three *)
(* lines, of up to eleven bytes each.                                      *)
EXTENDS HeaderLines, FiniteSets

CONSTANTS MaxLen, MaxLines

UnixLines  == [len : 1 .. MaxLen, cr : {FALSE}]
BothLines  == UnixLines \cup [len : 2 .. MaxLen, cr : {TRUE}]

MCInit == /\ line = 1 /\ pos = 0 /\ nul = FALSE /\ got = <<>> /\ state = "read"
          /\ lines \in UNION {[1 .. n -> Lines] : n \in 0 .. MaxLines}

MCSpec == MCInit /\ [][LinesNext]_linesVars
=============================================================================
