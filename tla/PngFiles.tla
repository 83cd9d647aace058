------------------------------- MODULE PngFiles ------------------------------
(***************************************************************************)
(* PNG pictures through the simplified interface of libpng (devas-png.c).  *)
(* The kind of a picture is its set of PNG_FORMAT_FLAG_...: none is gray,  *)
(* 8 bits; pixels are handed over in the layout of a kind.                 *)
(***************************************************************************)
EXTENDS FileStream

GRAY == {}
RGB  == {"COLOR"}

VARIABLE wanted   \* what the reader is for: GRAY or RGB

PngItems(p) ==
  <<[kind |-> "IHDR", format |-> p.format, rows |-> Len(p.rows)]>>
    \o RowItems(p.rows) \o <<[kind |-> "IEND"]>>

(* png_default_write_data: an error ends the writing.  The writer of RGB   *)
(* pictures reports it, that of gray ones does not look.                   *)
WritePng ==
  /\ Writing
  /\ \/ Put(FALSE) /\ UNCHANGED status
     \/ /\ Put(TRUE)
        /\ status' = IF picture.format = GRAY THEN "success" ELSE "failure"
  /\ UNCHANGED <<suffix, fragile, picture, got, wanted>>

(* fclose, whose result is not looked at. *)
ClosePng ==
  /\ Written /\ status' = "success"
  /\ \E failed \in BOOLEAN : Drain(failed)
  /\ UNCHANGED <<suffix, fragile, picture, got, wanted>>

(* png_image_begin_read_from_stdio sets the format to that of the file,    *)
(* whatever the program has put there.                                     *)
begin_read(f) == f[1].format

(* The reader of gray pictures sets it again ("has to come after").        *)
FormatAsked(f) == IF wanted = GRAY THEN GRAY ELSE begin_read(f)

(* The rows are complete; IEND is not looked for.                          *)
AllRows(f) ==
  /\ Len(f) > f[1].rows
  /\ \A i \in 1 .. f[1].rows : f[i + 1].kind = "row"

(* png_image_finish_read: no colour map was given.                         *)
ReadPng ==
  /\ Closed
  /\ got' = IF disk # <<>> /\ disk[1].kind = "IHDR" /\ AllRows(disk)
               /\ "COLORMAP" \notin FormatAsked(disk)
            THEN [rows |-> [i \in 1 .. disk[1].rows |-> disk[i + 1].row],
                  layout |-> FormatAsked(disk)]
            ELSE Refused
  /\ UNCHANGED <<suffix, fragile, picture, todo, status, stream, wanted>>

PngNext == WritePng \/ ClosePng \/ ReadPng

=============================================================================
