---------------------------- MODULE HeaderMeaning ----------------------------
(***************************************************************************)
(* What the lines of a Radiance header say (radiance-header.c), read off   *)
(* the whole header at once.  RadianceHeader shows that the reader, which  *)
(* goes from line to line, arrives at the same (OwnHeader, OwnText);       *)
(* RadianceFiles then uses it as the reader.                               *)
(***************************************************************************)
EXTENDS Integers, Sequences

CONSTANTS
  NullView,    (* DeVAS_null_view: the options of a VIEW with their values *)
  One          (* the exposure 1 in the fixed point of the module          *)

OfKind(f, k) == {i \in 1 .. Len(f) : f[i].kind = k}
Least(S) == CHOOSE i \in S : \A j \in S : i <= j
Greatest(S) == CHOOSE i \in S : \A j \in S : i >= j

(* The value of an option after the lines of S: each line changes the      *)
(* options it has (sscanview).  The distance 1 that -vd sets with the      *)
(* direction, and nothing else reads, is a part of its value.              *)
Option(f, S, o) ==
  LET set == {i \in S : o \in DOMAIN f[i].arg}
  IN  IF set = {} THEN NullView[o] ELSE f[Greatest(set)].arg[o]

(* pcomb leaves the VIEWs of its inputs indented: the first of them counts *)
(* if no other does.                                                       *)
ViewOf(f) ==
  LET plain == OfKind(f, "view")
      first == IF OfKind(f, "indented view") = {} THEN {}
               ELSE {Least(OfKind(f, "indented view"))}
  IN  [o \in DOMAIN NullView |-> Option(f, IF plain # {} THEN plain ELSE first, o)]

(* Several EXPOSUREs multiply.                                             *)
ExposureOf(f) ==
  LET P[i \in 0 .. Len(f)] ==
        IF i = 0 THEN One
        ELSE IF f[i].kind = "exposure" THEN (P[i - 1] * f[i].arg) \div One
        ELSE P[i - 1]
  IN  P[Len(f)]

(* Mutated form: an EXPOSURE stays in the text.                            *)
BugTextLines(f) == SelectSeq(f, LAMBDA l : l.kind \in {"text", "exposure"})

(* The description: what is left.                                          *)
TextLines(f) ==
  LET T[i \in 0 .. Len(f)] ==
        IF i = 0 THEN <<>>
        ELSE IF f[i].kind = "text" THEN Append(T[i - 1], f[i])
        ELSE T[i - 1]
  IN  T[Len(f)]
=============================================================================
