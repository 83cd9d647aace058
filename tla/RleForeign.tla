------------------------------ MODULE RleForeign ------------------------------
(***************************************************************************)
(* freadcolrs on any file: pictures of other programs, and files that were *)
(* cut or damaged.  The reader sees a whole row of bytes; what it should   *)
(* make of them is defined here over the sequence of bytes as a whole,     *)
(* without the reader's state.                                             *)
(***************************************************************************)
EXTENDS RleReader

CONSTANTS
  Headers,      (* what the row may begin with                             *)
  PayloadByte,  (* the bytes after it                                      *)
  MaxPayload    (* the longest sequence of bytes after the header          *)

ASSUME ForeignAssumption ==
  /\ MaxPayload \in Nat
  /\ Headers \subseteq Seq(Byte) /\ PayloadByte \subseteq Byte

fvars == <<img, stream, readerVars>>

ForeignInit ==
  /\ \E h \in Headers, n \in 0 .. MaxPayload :
       \E p \in [1 .. n -> PayloadByte] : stream = h \o p
  /\ img = <<>>
  /\ ReaderInit

ForeignNext ==
  \/ ReadMagic \/ ReadCode \/ ReadRunValue \/ ReadLiteral
  \/ ReadEOF
  \/ rpc \in {"done", "failed", "old"} /\ UNCHANGED fvars

ForeignSpec == ForeignInit /\ [][ForeignNext]_fvars

-----------------------------------------------------------------------------
(* The packets that bytes k, k+1, ... of s hold: where the next packet     *)
(* begins, and the values it stands for.                                   *)
Whole(s, k) ==
  k <= Len(s) /\ k + (IF s[k] > Half THEN 1 ELSE s[k]) <= Len(s)
After(s, k)   == k + 1 + (IF s[k] > Half THEN 1 ELSE s[k])
Values(s, k)  ==
  IF s[k] > Half THEN [d \in 1 .. s[k] - Half |-> s[k + 1]]
                 ELSE SubSeq(s, k + 1, k + s[k])

(* All values from byte k on, and the numbers of values at which a packet  *)
(* ends.                                                                   *)
Expansion(s) ==
  LET E[k \in 1 .. Len(s) + 1] ==
        IF Whole(s, k) THEN Values(s, k) \o E[After(s, k)] ELSE <<>>
  IN  E[1]
PacketEnds(s) ==
  LET P[k \in 1 .. Len(s) + 1] ==
        IF Whole(s, k)
        THEN {0} \cup {Len(Values(s, k)) + n : n \in P[After(s, k)]} ELSE {0}
  IN  P[1]

EncodedRow == Len(stream) >= 4 /\ SubSeq(stream, 1, 4) = Header
Payload    == SubSeq(stream, 5, Len(stream))

(* The row is well formed: each component ends where a packet ends.        *)
WellFormed ==
  EncodedRow /\ \A c \in 1 .. NComp : c * Width \in PacketEnds(Payload)

(* freadcolrs accepts the well-formed rows, all of them and no others, and *)
(* the pixels it returns are the values the packets stand for, every pixel *)
(* set.  Runs that overrun a component, rows that end early and lengths    *)
(* that do not match are refused; a row goes to the reader of the old      *)
(* format only when it cannot be an encoded row of any length.             *)
AcceptsTheWellFormed ==
  /\ rpc \in {"failed", "old"} => ~WellFormed
  /\ rpc = "old" => \/ stream[1] # Magic
                    \/ Len(stream) >= 4 /\ (stream[2] # Magic \/ stream[3] >= Half)
  /\ rpc = "done" =>
       /\ WellFormed
       /\ delivered = << [c \in Comp |-> [x \in Col |->
                            Expansion(Payload)[c * Width + x + 1]]] >>

(* No packet, run or not, is stored beyond the end of the component it     *)
(* began in: whenever the next byte is a code, and when the row is done,   *)
(* the place that the reader has reached is one at which a packet ends (a  *)
(* packet cut off at the end of a component would leave it at another),    *)
(* and the pixels before it hold the values of the packets up to there,    *)
(* none of them written over.  The rest of a non-run always fits.          *)
StaysInRow ==
  /\ rpc = "lit" => rj + code <= Width
  /\ rpc = "code" =>
       /\ rj < Width
       /\ ri * Width + rj \in PacketEnds(Payload)
       /\ \A c \in Comp, x \in Col : c < ri \/ (c = ri /\ x < rj) =>
            buf[c][x] = Expansion(Payload)[c * Width + x + 1]
  /\ rpc = "done" => NComp * Width \in PacketEnds(Payload)
=============================================================================
