------------------------------ MODULE RleReader ------------------------------
(***************************************************************************)
(* freadcolrs of radiance/color.c, one action per getc.  The bytes of a    *)
(* row are put into the buffer that tempbuffer() hands out, the same one   *)
(* for every row, and a finished row is passed on: freadscan is called     *)
(* once for each row and the programs give up at the first row that fails. *)
(***************************************************************************)
EXTENDS RleFormat

CONSTANT Garbage   (* what malloc'ed memory holds: no value of the picture *)

VARIABLES
  rpc,        (* what the reader does next                                 *)
  rpos,       (* the bytes it has taken from the stream                    *)
  hdr,        (* the header bytes of this row read so far                  *)
  ri,         (* i: the component                                          *)
  rj,         (* j: the next pixel to fill                                 *)
  code,       (* the count of the packet being read                        *)
  buf,        (* the scanline buffer                                       *)
  delivered   (* the rows that freadcolrs has returned 0 for               *)

readerVars == <<rpc, rpos, hdr, ri, rj, code, buf, delivered>>

ReaderInit ==
  /\ rpc = "magic" /\ rpos = 0 /\ hdr = <<>>
  /\ ri = 0 /\ rj = 0 /\ code = 0
  /\ buf = [c \in Comp |-> [x \in Col |-> Garbage]]
  /\ delivered = <<>>

(* getc has a byte to return. *)
ByteReady == rpos < Len(stream)
getc      == stream[rpos + 1]

(* Mutated forms: the last pixel of a packet stays unset; EOF ends the      *)
(* picture as if it were complete; EOF is asked for again and again.       *)
BugFill(c, x, n, v) ==
  [buf EXCEPT ![c] = [y \in Col |->
     IF x <= y /\ y < x + n - 1 THEN v ELSE buf[c][y]]]
BugReadEOF ==
  /\ rpc \in {"magic", "code", "runval", "lit"} /\ ~ByteReady
  /\ rpc' = "done"
  /\ UNCHANGED <<img, stream, rpos, hdr, ri, rj, code, buf, delivered>>
BugReadEOFForever ==
  /\ rpc \in {"magic", "code", "runval", "lit"} /\ ~ByteReady
  /\ UNCHANGED <<img, stream, readerVars>>

(* Pixels x .. x+n-1 of component c take the value v. *)
Fill(c, x, n, v) ==
  [buf EXCEPT ![c] = [y \in Col |->
     IF x <= y /\ y < x + n THEN v ELSE buf[c][y]]]

Reject == /\ rpc' = "failed"                             \* return(-1)
          /\ UNCHANGED <<hdr, ri, rj, code, delivered>>

(* The pixels before x of component ri are filled, the buffer becomes b.   *)
Filled(x, b) ==
  /\ buf' = b
  /\ code' = 0
  /\ IF x < Width
     THEN rpc' = "code" /\ rj' = x /\ UNCHANGED <<ri, hdr, delivered>>
     ELSE /\ rj' = 0
          /\ IF ri < NComp - 1
             THEN rpc' = "code" /\ ri' = ri + 1 /\ UNCHANGED <<hdr, delivered>>
             ELSE /\ ri' = 0
                  /\ hdr' = <<>>
                  /\ delivered' = Append(delivered, b)
                  /\ rpc' = IF Len(delivered) + 1 < NRows THEN "magic" ELSE "done"

-----------------------------------------------------------------------------
(* The scanline type is decided by four bytes.  A first byte that is not 2 *)
(* is put back (ungetc) and the row is read by oldreadcolrs; so is a row   *)
(* whose four bytes turn out to be a pixel of the old format.  That format *)
(* is the subject of module OldScanline.  The second and third byte are    *)
(* kept in pixel 0 of the buffer, from where nobody takes them after the   *)
(* header: here they are in hdr.                                           *)
ReadMagic ==
  /\ rpc = "magic" /\ ByteReady
  /\ UNCHANGED buf
  /\ IF hdr = <<>> /\ getc # Magic
     THEN /\ rpc' = "old"
          /\ UNCHANGED <<rpos, hdr, ri, rj, code, delivered>>
     ELSE /\ rpos' = rpos + 1
          /\ IF Len(hdr) < 3
             THEN /\ hdr' = Append(hdr, getc)
                  /\ UNCHANGED <<rpc, ri, rj, code, delivered>>
             ELSE IF hdr[2] # Magic \/ hdr[3] >= Half
             THEN rpc' = "old" /\ UNCHANGED <<hdr, ri, rj, code, delivered>>
             ELSE IF hdr[3] * 2 * Half + getc # Width
             THEN Reject                                 \* length mismatch
             ELSE rpc' = "code" /\ UNCHANGED <<hdr, ri, rj, code, delivered>>
  /\ UNCHANGED <<img, stream>>

(* Mutated forms: a packet is not checked against the end of the scanline. *)
BugReadRunValue ==
  /\ rpc = "runval" /\ ByteReady
  /\ rpos' = rpos + 1
  /\ Filled(rj + code, Fill(ri, rj, code, getc))
  /\ UNCHANGED <<img, stream>>
BugReadCode ==
  /\ rpc = "code" /\ ByteReady
  /\ rpos' = rpos + 1
  /\ IF getc > Half THEN rpc' = "runval" /\ code' = getc % Half
     ELSE rpc' = (IF getc = 0 THEN "code" ELSE "lit") /\ code' = getc
  /\ UNCHANGED <<img, stream, hdr, ri, rj, buf, delivered>>

(* A code above Half announces a run, whose value is read before the check *)
(* against the end of the scanline; any other a non-run, checked at once.  *)
ReadCode ==
  /\ rpc = "code" /\ ByteReady
  /\ rpos' = rpos + 1
  /\ \/ /\ getc > Half
        /\ rpc' = "runval" /\ code' = getc % Half
        /\ UNCHANGED <<hdr, ri, rj, buf, delivered>>
     \/ /\ getc <= Half /\ rj + getc > Width             \* overrun
        /\ Reject /\ UNCHANGED buf
     \/ /\ getc <= Half /\ rj + getc <= Width
        /\ rpc' = IF getc = 0 THEN "code" ELSE "lit"
        /\ code' = getc
        /\ UNCHANGED <<hdr, ri, rj, buf, delivered>>
  /\ UNCHANGED <<img, stream>>

ReadRunValue ==
  /\ rpc = "runval" /\ ByteReady
  /\ rpos' = rpos + 1
  /\ IF rj + code > Width
     THEN Reject /\ UNCHANGED buf                        \* overrun
     ELSE Filled(rj + code, Fill(ri, rj, code, getc))
  /\ UNCHANGED <<img, stream>>

ReadLiteral ==
  /\ rpc = "lit" /\ ByteReady
  /\ rpos' = rpos + 1
  /\ IF code > 1
     THEN /\ buf' = Fill(ri, rj, 1, getc)
          /\ rj' = rj + 1 /\ code' = code - 1
          /\ UNCHANGED <<rpc, hdr, ri, delivered>>
     ELSE Filled(rj + 1, Fill(ri, rj, 1, getc))
  /\ UNCHANGED <<img, stream>>

(* getc returns EOF: the row cannot be completed. *)
ReadEOF ==
  /\ rpc \in {"magic", "code", "runval", "lit"} /\ ~ByteReady
  /\ rpc' = "failed"
  /\ UNCHANGED <<img, stream, rpos, hdr, ri, rj, code, buf, delivered>>

ReadStep == ReadMagic \/ ReadCode \/ ReadRunValue \/ ReadLiteral

ReaderTypeOK ==
  /\ rpc \in {"magic", "code", "runval", "lit", "done", "failed", "old"}
  /\ rpos \in 0 .. Len(stream)
  /\ hdr \in Seq(Byte) /\ Len(hdr) <= 3
  /\ ri \in Comp /\ rj \in 0 .. Width /\ code \in 0 .. MaxLit
  /\ buf \in Scanline(Byte \cup {Garbage})
  /\ delivered \in Seq(Scanline(Byte \cup {Garbage})) /\ Len(delivered) <= NRows
=============================================================================
