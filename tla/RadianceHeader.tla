--------------------------- MODULE RadianceHeader ---------------------------
(***************************************************************************)
(* DeVAS_read_radiance_header of radiance-header.c in a process that reads *)
(* several pictures.  getheader calls headline for each line (module       *)
(* HeaderLines), and headline leaves what it finds in variables of the     *)
(* file: they outlive the call, and so does the text of the header, a heap *)
(* block of which the caller gets the address (the DeVAS readers of        *)
(* radianceIO.c) or a copy (the TT readers of radiance-tiff.c).  The       *)
(* programs here read one picture each; only the second kind of reader     *)
(* can be called again before the image is deleted (see MaxUncopied).      *)
(*                                                                         *)
(* The lines of a file are chosen as they are read.                        *)
(***************************************************************************)
EXTENDS HeaderMeaning

CONSTANTS
  Text,        (* lines with no meaning to headline                        *)
  Factor,      (* values of EXPOSURE                                       *)
  ViewLine,    (* what a VIEW line sets: options with their values         *)
  MaxUncopied, (* pictures read by the DeVAS readers, MaxReads by the TT   *)
  MaxLines, MaxReads        \* bounds of the exploration

ASSUME HeaderAssumption ==
  /\ Factor \subseteq Nat \ {0} /\ One \in Nat \ {0}
  /\ NullView = [o \in DOMAIN NullView |-> NullView[o]]
  /\ \A v \in ViewLine : DOMAIN v \subseteq DOMAIN NullView
  /\ MaxUncopied \in Nat /\ MaxLines \in Nat /\ MaxReads \in Nat

(* FORMAT= without a value is no format to formatval, but text.            *)
Line == [kind : {"text"}, arg : Text]
   \cup [kind : {"format"}, arg : {"rgbe", "xyze", "other"}]
   \cup [kind : {"exposure"}, arg : Factor]
   \cup [kind : {"view", "indented view"}, arg : ViewLine]

VARIABLES
  copies,   (* the program's reader copies the text: set_header            *)
  pc,       (* "idle", "lines" or "exit"                                   *)
  file,     (* the lines of the file being read, as far as they are read   *)
  color_format, view, view_set, indented_view, indented_view_set,
  exposure, exposure_set,
  header_text,   (* a block of the heap, 0 for NULL                        *)
  heap,     (* the blocks allocated: live or not, and the text in them     *)
  images,   (* the pictures read: what the reader got, and from which file *)
  misfree   (* free was called on a block that was not live                *)

found == <<color_format, view, view_set, indented_view, indented_view_set,
           exposure, exposure_set>>
vars == <<copies, pc, file, found, header_text, heap, images, misfree>>

Init ==
  /\ copies \in BOOLEAN
  /\ pc = "idle" /\ file = <<>> /\ images = <<>>
  /\ color_format = "unknown" /\ exposure = One /\ exposure_set = FALSE
  /\ view = NullView /\ view_set = FALSE
  /\ indented_view = NullView /\ indented_view_set = FALSE
  /\ header_text = 0 /\ heap = <<>> /\ misfree = FALSE

Free(p) ==
  /\ misfree' = (misfree \/ (p # 0 /\ ~heap[p].live))
  /\ heap' = IF p = 0 THEN heap ELSE [heap EXCEPT ![p].live = FALSE]


-----------------------------------------------------------------------------
(* Mutated form: the exposure of the last file remains.                    *)
Buginitialize_headline ==
  /\ color_format' = "unknown" /\ UNCHANGED exposure /\ exposure_set' = FALSE
  /\ view' = NullView /\ view_set' = FALSE
  /\ indented_view' = NullView /\ indented_view_set' = FALSE
  /\ Free(header_text)
  /\ header_text' = 0

initialize_headline ==
  /\ color_format' = "unknown" /\ exposure' = One /\ exposure_set' = FALSE
  /\ view' = NullView /\ view_set' = FALSE
  /\ indented_view' = NullView /\ indented_view_set' = FALSE
  /\ Free(header_text)
  /\ header_text' = 0

Pictures == IF copies THEN MaxReads ELSE MaxUncopied

StartRead ==
  /\ pc = "idle" /\ Len(images) < Pictures
  /\ initialize_headline
  /\ pc' = "lines" /\ file' = <<>>
  /\ UNCHANGED <<copies, images>>

(* The next line of the file. *)
Reads(kind, l) ==
  /\ pc = "lines" /\ Len(file) < MaxLines
  /\ l.kind = kind /\ file' = Append(file, l)
  /\ UNCHANGED <<copies, images, misfree>>

FormatLine(l) ==
  /\ Reads("format", l)
  /\ IF color_format # "unknown" \/ l.arg = "other"
     THEN pc' = "exit" /\ UNCHANGED color_format
     ELSE color_format' = l.arg /\ UNCHANGED pc
  /\ UNCHANGED <<view, view_set, indented_view, indented_view_set,
                 exposure, exposure_set, header_text, heap>>

(* sscanview changes the options that the line has. *)
sscanview(v, arg) ==
  [o \in DOMAIN v |-> IF o \in DOMAIN arg THEN arg[o] ELSE v[o]]

UnindentedView(l) ==
  /\ Reads("view", l)
  /\ view' = sscanview(view, l.arg) /\ view_set' = TRUE
  /\ UNCHANGED <<pc, color_format, indented_view, indented_view_set,
                 exposure, exposure_set, header_text, heap>>

(* pcomb leaves the VIEWs of its inputs indented: the first one counts.    *)
IndentedView(l) ==
  /\ Reads("indented view", l)
  /\ IF indented_view_set
     THEN UNCHANGED <<indented_view, indented_view_set>>
     ELSE indented_view' = sscanview(indented_view, l.arg) /\ indented_view_set' = TRUE
  /\ UNCHANGED <<pc, color_format, view, view_set, exposure, exposure_set,
                 header_text, heap>>

ExposureLine(l) ==
  /\ Reads("exposure", l)
  /\ exposure' = (exposure * l.arg) \div One /\ exposure_set' = TRUE
  /\ UNCHANGED <<pc, color_format, view, view_set, indented_view,
                 indented_view_set, header_text, heap>>

(* strcat_safe: strdup the first time, realloc then.                       *)
TextLine(l) ==
  /\ Reads("text", l)
  /\ IF header_text = 0
     THEN /\ heap' = Append(heap, [live |-> TRUE, text |-> <<l.arg>>])
          /\ header_text' = Len(heap) + 1
     ELSE /\ heap' = [heap EXCEPT ![header_text].text = Append(@, l.arg)]
          /\ UNCHANGED header_text
  /\ UNCHANGED <<pc, found>>

(* No "#?RADIANCE", no end of the header, no resolution line or one with   *)
(* the pixels in another order.                                            *)
InvalidHeader ==
  /\ pc = "lines" /\ pc' = "exit"
  /\ UNCHANGED <<copies, file, found, header_text, heap, images, misfree>>

(* Mutated form: no reader copies the text.                                *)
BugDuplicated == FALSE

Duplicated == copies /\ header_text # 0

(* The header ends and its results are returned.                           *)
ReturnHeader ==
  /\ pc = "lines"
  /\ view' = IF indented_view_set /\ ~view_set THEN indented_view ELSE view
  /\ heap' = IF Duplicated THEN Append(heap, heap[header_text]) ELSE heap
  /\ images' = Append(images,
       [file |-> file, view |-> view', format |-> color_format,
        exposure |-> exposure, exposure_set |-> exposure_set,
        text |-> IF Duplicated THEN Len(heap) + 1 ELSE header_text,
        deleted |-> FALSE])
  (* A picture of no format makes the reader of its pixels exit.           *)
  /\ pc' = IF color_format = "unknown" THEN "exit" ELSE "idle"
  /\ UNCHANGED <<copies, file, color_format, view_set, indented_view,
                 indented_view_set, exposure, exposure_set, header_text, misfree>>

(* The image is deleted, and its description with it.                      *)
DeleteImage(i) ==
  /\ pc = "idle" /\ ~images[i].deleted
  /\ Free(images[i].text)
  /\ images' = [images EXCEPT ![i].deleted = TRUE]
  /\ UNCHANGED <<copies, pc, file, found, header_text>>

Finished ==
  /\ pc = "exit" \/ (pc = "idle" /\ Len(images) = Pictures)
  /\ UNCHANGED vars

HeaderLine ==
  \E l \in Line : \/ FormatLine(l) \/ UnindentedView(l) \/ IndentedView(l)
                  \/ ExposureLine(l) \/ TextLine(l)

Next ==
  \/ StartRead \/ HeaderLine \/ InvalidHeader \/ ReturnHeader
  \/ \E i \in 1 .. Len(images) : DeleteImage(i)
  \/ Finished

Spec == Init /\ [][Next]_vars

-----------------------------------------------------------------------------
TextOf(f) ==
  LET text == TextLines(f)
  IN  [i \in 1 .. Len(text) |-> text[i].arg]

(* Of every picture read, view, format and exposure are those of its own   *)
(* file, although the lines were collected in variables that the pictures  *)
(* before have used: whichever lines these had and wherever VIEWs, plain   *)
(* and indented, stand.                                                    *)
OwnHeader ==
  \A i \in 1 .. Len(images) :
    LET im == images[i] IN
    /\ im.view = ViewOf(im.file)
    /\ im.exposure = ExposureOf(im.file)
    /\ im.exposure_set = (OfKind(im.file, "exposure") # {})
    /\ im.format # "unknown" =>
         \E k \in OfKind(im.file, "format") :
           OfKind(im.file, "format") = {k} /\ im.file[k].arg = im.format

(* An image that has not been deleted has the text of its own file, in a   *)
(* block that is its own to free: "value should be malloc'ed".             *)
OwnText ==
  /\ ~misfree
  /\ \A i \in 1 .. Len(images) :
       LET im == images[i] IN
       ~im.deleted =>
         IF im.text = 0 THEN TextOf(im.file) = <<>>
         ELSE heap[im.text] = [live |-> TRUE, text |-> TextOf(im.file)]
=============================================================================
