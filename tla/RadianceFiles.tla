---------------------------- MODULE RadianceFiles ----------------------------
(***************************************************************************)
(* Radiance pictures written and read back: DeVAS_write_radiance_header    *)
(* with the loops over rows of radianceIO.c and radiance-tiff.c, and the   *)
(* readers with DeVAS_read_radiance_header, whose meaning is that of       *)
(* HeaderMeaning.  A picture that has been read may be written again, by a *)
(* program like the one that read it.                                      *)
(*                                                                         *)
(* Lines are records; that the writer ends the last line of a description  *)
(* and rad2tiff takes its end off again is left out.                       *)
(***************************************************************************)
EXTENDS FileStream, HeaderMeaning

CONSTANTS
  Grain,       (* a unit of the last decimal of %f, in the fixed point     *)
  NoFOV,       (* NO_TIFF_35MM_EQUIV                                       *)
  LikeResolution,  (* a line of text with the shape of a resolution line   *)
  Garbage      (* a row read from what was not written as one              *)

ASSUME GrainAssumption == One \in Nat \ {0} /\ Grain \in Nat \ {0}

VARIABLES
  generation,  (* how often the picture has been written                   *)
  tt           (* the program uses radiance-tiff.c, not radianceIO.c       *)

Line(kind, arg) == [kind |-> kind, arg |-> arg]

(* set_fov_in_view: a picture of radiance-tiff.c has no more of the view   *)
(* than its angles.                                                        *)
set_fov_in_view(view) ==
  IF view.horiz # NoFOV THEN [NullView EXCEPT !.type = "v", !.horiz = view.horiz]
  ELSE NullView

(* set_header *)
set_header(view) == IF tt THEN [NullView EXCEPT !.horiz = view.horiz] ELSE view

(* An exposure printed with %f and read again.                             *)
Printed(e) == ((e + Grain \div 2) \div Grain) * Grain

ViewWritten(p) == IF tt THEN set_fov_in_view(p.view) ELSE p.view

ViewLines(p) ==
  IF ViewWritten(p).type = NullView.type THEN <<>>
  ELSE <<Line("view", ViewWritten(p))>>

ExposureLines(p) ==
  IF p.exposure_set THEN <<Line("exposure", Printed(p.exposure))>> ELSE <<>>

(* DeVAS_write_radiance_header: the description goes into the header as it *)
(* is.                                                                     *)
HeaderRecords(p) ==
  p.text \o ExposureLines(p) \o ViewLines(p) \o <<Line("format", "rgbe")>>

write_radiance_header(p) ==
  <<Line("magic", "RADIANCE")>> \o HeaderRecords(p)
    \o <<Line("blank", ""), Line("resolution", Len(p.rows))>>

RadianceItems(p) == write_radiance_header(p) \o RowItems(p.rows)

-----------------------------------------------------------------------------
radiancevars == <<generation, tt>>

(* Nobody looks whether the lines of the header have been written.         *)
WriteHeaderLine ==
  /\ Writing /\ Head(todo).kind # "row"
  /\ \E failed \in BOOLEAN : Put(failed)
  /\ UNCHANGED <<suffix, fragile, picture, status, got, radiancevars>>

(* Mutated form: rows are not looked at either.                            *)
BugRowRefused(failed) == FALSE

(* fwritescan: a row that is encoded looks at the error indicator, one of  *)
(* less than MINELEN pixels at what fwrite has written.                    *)
RowRefused(failed) == failed \/ (ferror /\ ~picture.flat)

WriteRow ==
  /\ Writing /\ Head(todo).kind = "row"
  /\ \E failed \in BOOLEAN :
       /\ Put(failed)
       /\ status' = IF RowRefused(failed) THEN "failure" ELSE status
  /\ UNCHANGED <<suffix, fragile, picture, got, radiancevars>>

(* fclose, whose result is not looked at, or the end of a program that     *)
(* writes to standard output.                                              *)
CloseRadiance ==
  /\ Written /\ status' = "success"
  /\ \E failed \in BOOLEAN : Drain(failed)
  /\ UNCHANGED <<suffix, fragile, picture, got, radiancevars>>

-----------------------------------------------------------------------------
HeaderOf(f) == SubSeq(f, 2, Least(OfKind(f, "blank")) - 1)
BehindHeader(f) == SubSeq(f, Least(OfKind(f, "blank")) + 1, Len(f))

(* str2resolu: the number of rows, 0 if the line is no resolution line.    *)
str2resolu(l) ==
  IF l.kind = "resolution" THEN l.arg
  ELSE IF l.kind = "text" /\ l.arg = LikeResolution THEN 1 ELSE 0

(* getheader, headline and fgetresolu find no fault: the magic line, an    *)
(* end of the header, one FORMAT that is known, and a resolution line with *)
(* the pixels in standard order.                                           *)
GoodHeader(f) ==
  /\ f # <<>> /\ f[1].kind = "magic" /\ OfKind(f, "blank") # {}
  /\ \E k \in 1 .. Len(HeaderOf(f)) :
       OfKind(HeaderOf(f), "format") = {k} /\ HeaderOf(f)[k].arg # "other"
  /\ BehindHeader(f) # <<>> /\ str2resolu(BehindHeader(f)[1]) > 0

(* Mutated form: a picture may end early.                                  *)
BugRowsRead(f, n) ==
  {[i \in 1 .. n |-> IF i <= Len(f) /\ f[i].kind = "row" THEN f[i].row ELSE Garbage]}

(* freadscan, n times: rows are read as they were written (RlePipe,        *)
(* OldScanline) and a row that is not whole is refused; what was not       *)
(* written as a row may be taken for one or not.                           *)
RowsRead(f, n) ==
  LET odd == \E i \in 1 .. Len(f) : i <= n /\ f[i].kind \notin {"row", "torn"}
  IN  (IF odd THEN {[i \in 1 .. n |-> Garbage]} ELSE {})
        \cup (IF Len(f) >= n /\ \A i \in 1 .. n : f[i].kind = "row"
              THEN {[i \in 1 .. n |-> f[i].row]} ELSE {<<>>})

ReadRadiance ==
  /\ Closed
  /\ \/ ~GoodHeader(disk) /\ got' = Refused
     \/ /\ GoodHeader(disk)
        /\ \E rows \in RowsRead(Tail(BehindHeader(disk)), str2resolu(BehindHeader(disk)[1])) :
             got' = IF rows = <<>> THEN Refused
                    ELSE [text |-> TextLines(HeaderOf(disk)),
                          view |-> set_header(ViewOf(HeaderOf(disk))),
                          exposure_set |-> OfKind(HeaderOf(disk), "exposure") # {},
                          exposure |-> ExposureOf(HeaderOf(disk)),
                          rows |-> rows, flat |-> picture.flat]
  /\ UNCHANGED <<suffix, fragile, picture, todo, status, stream, radiancevars>>

(* The picture is written to a second file.                                *)
Rewrite ==
  /\ generation = 1 /\ got \notin {Nothing, Refused}
  /\ Open(got, RadianceItems(got)) /\ generation' = 2
  /\ UNCHANGED <<suffix, fragile, tt>>

RadianceNext ==
  WriteHeaderLine \/ WriteRow \/ CloseRadiance \/ ReadRadiance \/ Rewrite

-----------------------------------------------------------------------------
(* A description without lines that mean something in a header.            *)
Plain(p) == \A i \in 1 .. Len(p.text) : p.text[i].kind = "text"

(* Distance of the exposures of two pictures. *)
Near(p, q) == LET d == p.exposure - q.exposure IN 2 * d <= Grain /\ 2 * d >= -Grain

(* A picture comes back from its file with its text, its rows, the view as *)
(* far as the writer keeps it (none without a type) and its exposure       *)
(* within half a unit of the last decimal, also if the file has been cut   *)
(* off by a full device or a kill and its writer claimed success; unless   *)
(* the description has an empty line or a record of its own.  (A flat      *)
(* picture of which part of the header was lost is the exception.)         *)
ReadBack ==
  suffix = ".hdr" /\ got \notin {Nothing, Refused} /\ Plain(picture) /\ ~(picture.flat /\ ferror) =>
    /\ got.rows = picture.rows /\ got.text = picture.text
    /\ IF tt
       THEN got.view.horiz = (IF picture.view.horiz = NoFOV THEN NullView.horiz
                              ELSE picture.view.horiz)
       ELSE got.view = IF picture.view.type = NullView.type THEN NullView
                       ELSE picture.view
    /\ got.exposure_set = picture.exposure_set
    /\ picture.exposure_set => Near(got, picture)

(* What a reader has returned can be written and read again, whatever the  *)
(* first file said: it is not refused, and nothing of it changes more.     *)
Settled ==
  generation = 2 /\ ~fragile =>
    /\ Plain(picture)
    /\ got # Refused
    /\ got # Nothing =>
         /\ [got EXCEPT !.view = picture.view, !.exposure = picture.exposure] = picture
         /\ tt \/ picture.view.type # NullView.type => got.view = picture.view
=============================================================================
