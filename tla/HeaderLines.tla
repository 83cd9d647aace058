----------------------------- MODULE HeaderLines -----------------------------
(***************************************************************************)
(* getheader of radiance/header.c: a file is read line by line with fgets  *)
(* into a buffer of MaxLine bytes, and every line is handed to a callback, *)
(* up to the first empty one.  A line that does not fit comes in pieces.   *)
(*                                                                         *)
(* fgets does not say whether it saw the end of the line.  getheader sets  *)
(* the byte MaxLine - 2 of the buffer to a newline beforehand and looks at *)
(* it afterwards: anything else there is put back with ungetc, so that the *)
(* rest of the line has two bytes at least and does not look empty.        *)
(***************************************************************************)
EXTENDS Integers, Sequences

CONSTANTS
  MaxLine,    (* MAXLINE: 2048 in the code                                 *)
  Lines       (* the lines a file may have: their length with the newline, *)
              (* and whether a carriage return precedes it                 *)

ASSUME HeaderLinesAssumption ==
  /\ MaxLine \in Nat /\ MaxLine >= 5
  /\ Lines \subseteq [len : Nat \ {0}, cr : BOOLEAN]
  /\ \A l \in Lines : l.cr => l.len >= 2

VARIABLES
  lines,   (* the lines of the file                                        *)
  line,    (* the line the stream is in                                    *)
  pos,     (* the bytes of it that are behind the stream's position        *)
  nul,     (* ungetc has put a NUL back that was not in the file           *)
  got,     (* what the callback was given: the bytes from .. to of a line  *)
  state    (* "read", "done" or "failed"                                   *)

linesVars == <<lines, line, pos, nul, got, state>>

IsBlank(l) == l.len = IF l.cr THEN 2 ELSE 1

(* The byte at place p of the current line, from 1. *)
Char(p) == CASE p = lines[line].len                       -> "LF"
             [] p = lines[line].len - 1 /\ lines[line].cr  -> "CR"
             [] OTHER                                    -> "text"

LinesInit ==
  /\ line = 1 /\ pos = 0 /\ nul = FALSE /\ got = <<>> /\ state = "read"
  /\ lines \in Seq(Lines)

-----------------------------------------------------------------------------
InFile == line <= Len(lines)
Nuls   == IF nul THEN 1 ELSE 0
Avail  == lines[line].len - pos

(* The bytes that fgets stores, and how many of them are of the file.      *)
Stored == IF Avail + Nuls < MaxLine - 1 THEN Avail + Nuls ELSE MaxLine - 1
Taken  == Stored - Nuls

(* Mutated form: nothing is put back.                                      *)
BugSentinel == CASE Stored < MaxLine - 2 -> "LF"
                 [] Stored = MaxLine - 2 -> "NUL"
                 [] OTHER                -> "LF"

(* buf[MAXLINE-2] after fgets: the newline set before, the NUL that ends   *)
(* the string, or the last byte read.                                      *)
Sentinel == CASE Stored < MaxLine - 2 -> "LF"
              [] Stored = MaxLine - 2 -> "NUL"
              [] OTHER                -> Char(pos + Taken)

(* buf[buf[0]=='\r'] == '\n' *)
LooksBlank == ~nul /\ (Avail = 1 \/ (Avail = 2 /\ Char(pos + 1) = "CR"))

(* Mutated forms: the end of a line is not noticed; the string given to    *)
(* the callback still has the byte that was put back.                      *)
BugAdvance(n) ==
  IF pos + n <= lines[line].len THEN pos' = pos + n /\ UNCHANGED line
                               ELSE pos' = 0 /\ line' = line + 1
BugShown(n) == IF nul THEN pos ELSE pos + Taken

(* The stream goes on n bytes further. *)
Advance(n) ==
  IF pos + n < lines[line].len THEN pos' = pos + n /\ UNCHANGED line
                              ELSE pos' = 0 /\ line' = line + 1

(* The callback is given a string, which a NUL in front makes empty.       *)
Shown(n) == IF nul THEN pos ELSE pos + n

GetLine ==
  /\ state = "read" /\ InFile /\ ~LooksBlank
  /\ LET n == IF Sentinel \in {"text", "CR"} THEN Taken - 1 ELSE Taken
     IN  /\ Advance(n)
         /\ got' = Append(got, [line |-> line, from |-> pos + 1, to |-> Shown(n)])
  /\ nul' = (Sentinel = "NUL")
  /\ UNCHANGED <<lines, state>>

BlankLine ==
  /\ state = "read" /\ InFile /\ LooksBlank
  /\ Advance(Avail)
  /\ state' = "done"
  /\ UNCHANGED <<lines, nul, got>>

(* The callback returns a negative value (headline: no "#?RADIANCE").      *)
CallbackRefuses ==
  /\ state = "read" /\ InFile /\ ~LooksBlank
  /\ state' = "failed"
  /\ UNCHANGED <<lines, line, pos, nul, got>>

(* A NUL that was put back at the end of the file is an empty string to    *)
(* the callback; then fgets returns NULL.                                  *)
EndOfFile ==
  /\ state = "read" /\ ~InFile
  /\ nul' = FALSE
  /\ state' = IF nul THEN "read" ELSE "failed"
  /\ UNCHANGED <<lines, line, pos, got>>

LinesFinished == state # "read" /\ UNCHANGED linesVars

LinesNext == GetLine \/ BlankLine \/ CallbackRefuses \/ EndOfFile \/ LinesFinished

LinesSpec == LinesInit /\ [][LinesNext]_linesVars

-----------------------------------------------------------------------------
TypeOK ==
  /\ lines \in Seq(Lines)
  /\ line \in 1 .. Len(lines) + 1
  /\ pos \in Nat /\ (InFile => pos < lines[line].len)
  /\ nul \in BOOLEAN
  /\ got \in Seq([line : Nat, from : Nat, to : Nat])
  /\ state \in {"read", "done", "failed"}

(* The bytes given to the callback, piece after piece, are those of the    *)
(* file up to the stream's position: none is skipped or repeated.          *)
Start(i) ==            \* where the piece behind the i-th begins
  IF got[i].to = lines[got[i].line].len
  THEN [line |-> got[i].line + 1, from |-> 1]
  ELSE [line |-> got[i].line, from |-> got[i].to + 1]
Here == [line |-> line, from |-> pos + 1]
Tiled ==
  /\ got # <<>> => got[1].line = 1 /\ got[1].from = 1
  /\ \A i \in 1 .. Len(got) - 1 :
       Start(i) = [line |-> got[i + 1].line, from |-> got[i + 1].from]
  /\ state = "read" => Here = IF got = <<>> THEN [line |-> 1, from |-> 1]
                                            ELSE Start(Len(got))

(* Where a piece ends that has filled the buffer. *)
Cuts(l) == {k * (MaxLine - 2) : k \in 1 .. l.len}

(* A line that ends exactly there, or just behind it with CR LF. *)
Awkward(l) == l.len \in Cuts(l) \/ (l.cr /\ l.len - 2 \in Cuts(l))

(* The end of the header is the first empty line of the file. *)
EndsAtBlank ==
  /\ \A k \in 1 .. line - 1 : state # "done" \/ k < line - 1 => ~IsBlank(lines[k])
  /\ state = "done" => pos = 0 /\ line > 1 /\ IsBlank(lines[line - 1])

Tame == \A k \in 1 .. Len(lines) : ~Awkward(lines[k])

(* In a file without awkward lines getheader passes every line on whole,   *)
(* however long, although it reads it in pieces that overlap by a byte.    *)
WholeLines == Tame => Tiled

(* In such a file the header ends at its first empty line: no piece of a   *)
(* long line is taken for one, and none is missed.                         *)
HeaderEnd == Tame => EndsAtBlank

(* "getheader(fp,f,p) read header from fp, calling f(s,p) on each line".   *)
EachLine == Tiled
=============================================================================
