------------------------------ MODULE JpegFiles ------------------------------
(***************************************************************************)
(* JPEG pictures: the writer and the reader of devas-jpeg.c, the ICC       *)
(* profile in APP2 markers (iccjpeg.c), and what libjpeg does around them. *)
(* Before the picture is read, other programs may lose, double or reorder  *)
(* markers or put in an EXIF record.  A profile is the sequence of the     *)
(* positions of its bytes; a file is its markers, a frame header, its rows *)
(* and the EOI.                                                            *)
(***************************************************************************)
EXTENDS FileStream, SequencesExt

CONSTANTS
  ByteRange,   (* 256: markers are numbered in a byte                      *)
  MaxData,     (* MAX_DATA_BYTES_IN_MARKER, 65519                          *)
  MaxComment,  (* what a marker holds, 65533                               *)
  MaxEdits     \* bound of the exploration

ASSUME JpegAssumption ==
  ByteRange \in Nat \ {0, 1} /\ MaxData \in Nat \ {0}
    /\ MaxComment \in Nat /\ MaxEdits \in Nat

VARIABLES
  profile,     (* what jpeg_read_icc_profile returned, or Nothing          *)
  edited       (* what other programs have done to the markers             *)

jpegvars == <<profile, edited>>

NULL       == [kind |-> "NULL"]        \* no comment: a null pointer
Unassigned == [kind |-> "unassigned"]  \* *comment is what it was
NoProfile  == [found |-> FALSE, data |-> <<>>]

NumMarkers(n) == IF n % MaxData = 0 THEN n \div MaxData ELSE n \div MaxData + 1

(* jpeg_write_icc_profile: the numbers are written with jpeg_write_m_byte. *)
IccMarkers(data) ==
  LET n == NumMarkers(Len(data)) IN
  [i \in 1 .. n |->
     [kind |-> "APP2", seq |-> i % ByteRange, num |-> n % ByteRange,
      data |-> SubSeq(data, (i - 1) * MaxData + 1,
                      IF i = n THEN Len(data) ELSE i * MaxData)]]

CommentMarker(p) ==
  IF p.comment = NULL \/ p.comment.length = 0 THEN <<>>
  ELSE <<[kind |-> "COM", comment |-> p.comment]>>

(* The comment stands before the profile; the frame header is put off      *)
(* until the first row.                                                    *)
JpegItems(p) ==
  <<[kind |-> "SOI"]>> \o CommentMarker(p) \o IccMarkers(p.profile)
    \o <<[kind |-> "SOS", rows |-> Len(p.rows)]>> \o RowItems(p.rows)
    \o <<[kind |-> "EOI"]>>

TooLong(item) == item.kind = "COM" /\ item.comment.length > MaxComment

(* jpeg_write_marker and the empty_output_buffer of libjpeg: an error ends *)
(* the program (jpeg_DeVAS_error_exit).                                    *)
WriteJpeg ==
  /\ Writing
  /\ \/ ~TooLong(Head(todo)) /\ Put(FALSE) /\ UNCHANGED status
     \/ ~TooLong(Head(todo)) /\ Put(TRUE) /\ status' = "failure"
     \/ TooLong(Head(todo)) /\ status' = "failure" /\ UNCHANGED <<todo, stream>>
  /\ UNCHANGED <<suffix, fragile, picture, got, jpegvars>>

(* Mutated form: the buffer is left to fclose.                             *)
BugFinishStatus(failed) == "success"

(* term_destination flushes the stream and looks at its error indicator.   *)
FinishStatus(failed) == IF failed \/ ferror THEN "failure" ELSE "success"

FinishJpeg ==
  /\ Written
  /\ \E failed \in BOOLEAN : Drain(failed) /\ status' = FinishStatus(failed)
  /\ UNCHANGED <<suffix, fragile, picture, got, jpegvars>>

-----------------------------------------------------------------------------
(* Where the image begins, at the first SOS, and what stands before it.    *)
ScanBegin(f) ==
  CHOOSE i \in 1 .. Len(f) : f[i].kind = "SOS" /\ \A j \in 1 .. i - 1 : f[j].kind # "SOS"

(* What other programs do to the markers of a whole file.                  *)
Markers == SubSeq(disk, 2, ScanBegin(disk) - 1)
Behind == SubSeq(disk, ScanBegin(disk), Len(disk))

Edit(what, markers) ==
  /\ edited' = Append(edited, what)
  /\ disk' = <<[kind |-> "SOI"]>> \o markers \o Behind
  /\ UNCHANGED <<suffix, fragile, picture, todo, status, buf, ferror, got, profile>>

EditMarkers ==
  /\ status = "success" /\ got = Nothing /\ profile = Nothing /\ Len(edited) < MaxEdits
  /\ \/ \E i \in 1 .. Len(Markers) : Edit("lost", RemoveAt(Markers, i))
     \/ \E i \in 1 .. Len(Markers) : Edit("doubled", InsertAt(Markers, i, Markers[i]))
     \/ \E i \in 1 .. Len(Markers), j \in 1 .. Len(Markers) :
          i # j /\ Edit("moved", InsertAt(RemoveAt(Markers, i), j, Markers[i]))
     \/ \E i \in 1 .. Len(Markers) + 1 :
          Edit("EXIF", InsertAt(Markers, i, [kind |-> "APP1"]))

-----------------------------------------------------------------------------
(* jpeg_read_header finds a SOI and, before the file ends, an image.       *)
HeaderRead(f) == f # <<>> /\ f[1].kind = "SOI" /\ \E i \in 1 .. Len(f) : f[i].kind = "SOS"

(* A row that is missing or cut off, or the end of the file before EOI, is *)
(* a warning to libjpeg, and a warning is the end of the program.          *)
NoWarnings(f) ==
  LET scan == ScanBegin(f) IN
  /\ Len(f) = scan + f[scan].rows + 1 /\ f[Len(f)].kind = "EOI"
  /\ \A i \in scan + 1 .. Len(f) - 1 : f[i].kind = "row"

(* Mutated form: APP2 is saved as well.                                    *)
BugSaved(f) == {i \in 1 .. Len(f) : f[i].kind \in {"COM", "APP1", "APP2"}}

(* jpeg_save_markers: where the comments and EXIF records are.             *)
Saved(f) == {i \in 1 .. Len(f) : f[i].kind \in {"COM", "APP1"}}

(* The loop over the saved markers: each of them sets *comment.            *)
CommentRead(f) ==
  IF Saved(f) = {} THEN Unassigned
  ELSE LET last == CHOOSE i \in Saved(f) : \A j \in Saved(f) : j <= i
       IN  IF f[last].kind = "COM" THEN f[last].comment ELSE NULL

ReadJpeg ==
  /\ Closed
  /\ got' = IF HeaderRead(disk) /\ NoWarnings(disk)
            THEN [rows |-> [i \in 1 .. disk[ScanBegin(disk)].rows |->
                              disk[ScanBegin(disk) + i].row],
                  comment |-> CommentRead(disk)]
            ELSE Refused
  /\ UNCHANGED <<suffix, fragile, picture, todo, status, stream, jpegvars>>

(* The markers of a profile; their numbers agree, and each comes once.     *)
IccPlaces(f) == {i \in 1 .. Len(f) : f[i].kind = "APP2"}

NumberedRight(f) ==
  /\ {f[i].num : i \in IccPlaces(f)} = {Cardinality(IccPlaces(f))}
  /\ {f[i].seq : i \in IccPlaces(f)} = 1 .. Cardinality(IccPlaces(f))

(* Mutated form: the markers are taken as they come.                       *)
BugPieces(f) ==
  LET icc == SetToSortSeq(IccPlaces(f), <) IN [s \in 1 .. Len(icc) |-> f[icc[s]].data]

(* The data, each at the offset that the numbers give it.                  *)
Pieces(f) ==
  [s \in 1 .. Cardinality(IccPlaces(f)) |->
     f[CHOOSE i \in IccPlaces(f) : f[i].seq = s].data]

(* jpeg_read_icc_profile, in a program that has saved the APP2 markers.    *)
read_icc_profile(f) ==
  IF NumberedRight(f) THEN [found |-> TRUE, data |-> FlattenSeq(Pieces(f))]
  ELSE NoProfile

ReadProfile ==
  /\ status \in {"success", "killed"} /\ profile = Nothing
  /\ HeaderRead(disk)
  /\ profile' = read_icc_profile(disk)
  /\ UNCHANGED <<streamvars, edited>>

JpegNext ==
  WriteJpeg \/ FinishJpeg \/ EditMarkers \/ ReadJpeg \/ ReadProfile

-----------------------------------------------------------------------------
(* A JPEG picture of which a writer says that it has been written is there *)
(* with all its markers and rows: unlike those of Radiance and PNG files   *)
(* the writer knows of every loss.                                         *)
JpegSuccess ==
  suffix = ".jpg" /\ status = "success" /\ edited = <<>> =>
    disk = JpegItems(picture)

Fits == NumMarkers(Len(picture.profile)) < ByteRange

(* "rather than assuming that the APP2 markers appear in the correct       *)
(* sequence": a profile that can be numbered is returned as it was written *)
(* or not at all, whatever has become of its markers, and it is returned   *)
(* if they have only been moved.  One of too many markers is not returned, *)
(* although their numbers look right one by one (unless markers have been  *)
(* lost).                                                                  *)
OwnProfile ==
  profile # Nothing =>
    /\ Fits /\ profile.found => profile.data = picture.profile
    /\ ToSet(edited) \subseteq {"moved", "EXIF"} =>
         profile.found = (Fits /\ picture.profile # <<>>)

(* The comment read is the one written or none, and it is the one written  *)
(* if no other program was at work, although the markers of the profile    *)
(* follow it.  An EXIF record behind the comment hides it; *comment is     *)
(* left alone only if the file has neither.                                *)
OwnComment ==
  suffix = ".jpg" /\ got \notin {Nothing, Refused} =>
    /\ got.comment \notin {NULL, Unassigned} => got.comment = picture.comment
    /\ (got.comment = Unassigned) = (Saved(disk) = {})
    /\ CommentMarker(picture) # <<>> /\ ToSet(edited) \subseteq {"doubled", "moved"} =>
         got.comment = picture.comment
=============================================================================
