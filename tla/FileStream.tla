----------------------------- MODULE FileStream ------------------------------
(***************************************************************************)
(* A picture written to a file through a stdio stream and read back by     *)
(* another program, as far as Radiance, JPEG and PNG files have it in      *)
(* common.  What is written is kept in a buffer that may be written out at *)
(* any call; the device may be full then (and have room again later), and  *)
(* the writer may be killed.  An item is a line of a header, a marker, a   *)
(* row: the unit that a reader takes in.                                   *)
(***************************************************************************)
EXTENDS Integers, Sequences

VARIABLES
  suffix,      (* the kind of the file: ".hdr", ".jpg" or ".png"          *)
  fragile,     (* the device may be full and the writer killed             *)
  picture,     (* the picture the writer was given                         *)
  todo,        (* the items that the writer has still to write             *)
  status,      (* "writing"; then what the writer reports, or its death    *)
  buf,         (* the items in the buffer of the stream                    *)
  ferror,      (* the error indicator: once set, it stays                  *)
  disk,        (* the items that have reached the file                     *)
  got          (* what the reader returned: a picture, Refused or Nothing  *)

stream == <<buf, ferror, disk>>
streamvars == <<suffix, fragile, picture, todo, status, stream, got>>

Refused == [kind |-> "refused"]
Nothing == [kind |-> "nothing"]

(* An item of which the beginning only is there.                           *)
Torn == [kind |-> "torn"]

RowItems(rows) == [i \in 1 .. Len(rows) |-> [kind |-> "row", row |-> rows[i]]]

Open(p, items) ==
  /\ picture' = p /\ todo' = items /\ status' = "writing"
  /\ buf' = <<>> /\ ferror' = FALSE /\ disk' = <<>> /\ got' = Nothing

Writing == status = "writing" /\ todo # <<>>
Written == status = "writing" /\ todo = <<>>

(* The file is there to be read.                                           *)
Closed == status \in {"success", "killed"} /\ got = Nothing

(* What may be left of items written to a device that has room for some.   *)
PartsOf(items) ==
  LET Beginnings == {SubSeq(items, 1, k) : k \in 0 .. Len(items) - 1}
  IN  Beginnings \cup {Append(b, Torn) : b \in Beginnings}

(* fwrite, fputs or putc of the next item: into the buffer, or with all    *)
(* that is in it to the device.  What cannot be written is dropped.        *)
Put(failed) ==
  LET items == Append(buf, Head(todo)) IN
  /\ todo' = Tail(todo)
  /\ \/ ~failed /\ buf' = items /\ UNCHANGED <<disk, ferror>>
     \/ ~failed /\ buf' = <<>> /\ disk' = disk \o items /\ UNCHANGED ferror
     \/ /\ failed /\ fragile /\ buf' = <<>> /\ ferror' = TRUE
        /\ \E part \in PartsOf(items) : disk' = disk \o part

(* fflush, or the fclose of a stream. *)
Drain(failed) ==
  /\ buf' = <<>> /\ UNCHANGED todo
  /\ \/ ~failed /\ disk' = disk \o buf /\ UNCHANGED ferror
     \/ /\ failed /\ fragile /\ buf # <<>> /\ ferror' = TRUE
        /\ \E part \in PartsOf(buf) : disk' = disk \o part

Killed ==
  /\ status = "writing" /\ fragile /\ status' = "killed"
  /\ buf' = <<>> /\ todo' = <<>>
  /\ \E part \in {buf, <<>>} \cup PartsOf(buf) : disk' = disk \o part
  /\ UNCHANGED <<suffix, fragile, picture, ferror, got>>
=============================================================================
