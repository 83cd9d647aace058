------------------------------ MODULE RleWriter ------------------------------
(***************************************************************************)
(* fwritecolrs of radiance/color.c on a scanline that is encoded: the      *)
(* search for runs and the four ways a packet comes about.  Every action   *)
(* is one putc, or the search that decides on the next one.  A writer that *)
(* is given a picture calls fwritecolrs once for each row.                 *)
(***************************************************************************)
EXTENDS RleFormat

VARIABLES
  wpc,    (* what the writer does next                                     *)
  wrow,   (* the row it is in                                              *)
  wi,     (* i: the component                                              *)
  wj,     (* j: the first pixel not yet written                            *)
  wbeg,   (* beg: where the search for a run stands                        *)
  wcnt,   (* cnt: the pixels equal to the one at beg                       *)
  wleft   (* c2: pixels of the non-run still to be written, and the        *)
          (* count of header bytes written while wpc = "magic"             *)

writerVars == <<wpc, wrow, wi, wj, wbeg, wcnt, wleft>>

scan == img[wrow][wi]

(* putc keeps the low eight bits. *)
putc(b) == stream' = Append(stream, b % (2 * Half))

WriterInit ==
  /\ stream = <<>>
  /\ wpc = "magic"
  /\ wrow = 0 /\ wi = 0 /\ wj = 0 /\ wbeg = 0 /\ wcnt = 1 /\ wleft = 0

(* Mutated forms: no limit on a run; no comparison of the pixels before a  *)
(* run; non-runs kept shorter than MinRun.                                  *)
BugRunCap(b) == Width - b
BugIsShortRun(s, j, beg) == 1 < beg - j /\ beg - j < MinRun
BugWriteNonRun ==
  /\ wpc = "nonrun"
  /\ wleft' = IF wbeg - wj >= MinRun THEN MinRun - 1 ELSE wbeg - wj
  /\ putc(wleft')
  /\ wpc' = "lit"
  /\ UNCHANGED <<img, wrow, wi, wj, wbeg, wcnt>>

(* The limit on the length of a run that starts at b. *)
RunCap(b) == IF MaxRun < Width - b THEN MaxRun ELSE Width - b

(* n pixels from b on have the same value, and no more that may be counted *)
IsRun(s, b, n) ==
  /\ \A d \in 0 .. n - 1 : s[b + d] = s[b]
  /\ n < RunCap(b) => s[b + n] # s[b]

RunLength(s, b) == CHOOSE n \in 1 .. RunCap(b) : IsRun(s, b, n)

(* The pixels j .. beg-1 before a run, too few for MinRun but all equal.   *)
IsShortRun(s, j, beg) ==
  /\ 1 < beg - j /\ beg - j < MinRun
  /\ \A k \in j + 1 .. beg - 1 : s[k] = s[j]

-----------------------------------------------------------------------------
(* Where the writer goes when all pixels before x are written and the      *)
(* search for the next run has not begun.                                  *)
NextSearch(x) ==
  IF x < Width
  THEN /\ wpc' = "find" /\ wj' = x /\ wbeg' = x
       /\ UNCHANGED <<wrow, wi, wleft>>
  ELSE /\ wj' = 0 /\ wbeg' = 0 /\ wleft' = 0
       /\ IF wi < NComp - 1
          THEN wi' = wi + 1 /\ wpc' = "find" /\ UNCHANGED wrow
          ELSE /\ wi' = 0
               /\ IF wrow < NRows - 1
                  THEN wrow' = wrow + 1 /\ wpc' = "magic"
                  ELSE wpc' = "done" /\ UNCHANGED wrow

(* What follows a search that ended at beg: a short run, a non-run, or at  *)
(* once the run found.                                                     *)
AfterSearch(beg) ==
  IF IsShortRun(scan, wj, beg) THEN "short"
  ELSE IF wj < beg THEN "nonrun" ELSE "run"

(* The pixels before beg are written and j = beg: the run found at beg     *)
(* comes next; at the end of the scanline there is none.                   *)
AfterPrefix ==
  IF wcnt >= MinRun
  THEN /\ wpc' = "run" /\ wj' = wbeg
       /\ UNCHANGED <<wrow, wi, wbeg, wleft>>
  ELSE NextSearch(wbeg)

WriteMagic ==
  /\ wpc = "magic"
  /\ putc(Header[wleft + 1])
  /\ IF wleft < 3
     THEN wleft' = wleft + 1 /\ UNCHANGED wpc
     ELSE wleft' = 0 /\ wpc' = "find"
  /\ UNCHANGED <<img, wrow, wi, wj, wbeg, wcnt>>

(* One step of "for (beg = j; beg < len; beg += cnt)". *)
FindRun ==
  /\ wpc = "find"
  /\ LET n == RunLength(scan, wbeg)
         beg == IF n >= MinRun THEN wbeg ELSE wbeg + n
     IN  /\ wcnt' = n
         /\ wbeg' = beg
         /\ wpc' = IF n >= MinRun \/ beg = Width
                   THEN AfterSearch(beg) ELSE "find"
  /\ UNCHANGED <<img, stream, wrow, wi, wj, wleft>>

WriteShortRun ==
  /\ wpc = "short"
  /\ putc(Half + wbeg - wj)
  /\ wpc' = "shortval"
  /\ UNCHANGED <<img, wrow, wi, wj, wbeg, wcnt, wleft>>

WriteShortValue ==
  /\ wpc = "shortval"
  /\ putc(scan[wj])
  /\ AfterPrefix
  /\ UNCHANGED <<img, wcnt>>

WriteNonRun ==
  /\ wpc = "nonrun"
  /\ wleft' = IF wbeg - wj > MaxLit THEN MaxLit ELSE wbeg - wj
  /\ putc(wleft')
  /\ wpc' = "lit"
  /\ UNCHANGED <<img, wrow, wi, wj, wbeg, wcnt>>

WriteLiteral ==
  /\ wpc = "lit"
  /\ putc(scan[wj])
  /\ \/ /\ wleft > 1
        /\ wj' = wj + 1 /\ wleft' = wleft - 1
        /\ UNCHANGED <<wpc, wrow, wi, wbeg>>
     \/ /\ wleft = 1 /\ wj + 1 < wbeg
        /\ wj' = wj + 1 /\ wleft' = 0 /\ wpc' = "nonrun"
        /\ UNCHANGED <<wrow, wi, wbeg>>
     \/ /\ wleft = 1 /\ wj + 1 = wbeg
        /\ AfterPrefix
  /\ UNCHANGED <<img, wcnt>>

WriteRun ==
  /\ wpc = "run"
  /\ putc(Half + wcnt)
  /\ wpc' = "runval"
  /\ UNCHANGED <<img, wrow, wi, wj, wbeg, wcnt, wleft>>

WriteRunValue ==
  /\ wpc = "runval"
  /\ putc(scan[wbeg])
  /\ NextSearch(wj + wcnt)
  /\ UNCHANGED <<img, wcnt>>

WriteStep ==
  \/ WriteMagic \/ FindRun
  \/ WriteShortRun \/ WriteShortValue
  \/ WriteNonRun \/ WriteLiteral
  \/ WriteRun \/ WriteRunValue

(* The writing program exits, is killed or runs out of disk: what it has   *)
(* written up to here is all that the stream will ever hold.               *)
WriterStops ==
  /\ wpc \notin {"done", "dead"}
  /\ wpc' = "dead"
  /\ UNCHANGED <<img, stream, wrow, wi, wj, wbeg, wcnt, wleft>>

WriterTypeOK ==
  /\ wpc \in {"magic", "find", "short", "shortval", "nonrun", "lit", "run",
              "runval", "done", "dead"}
  /\ wrow \in Row /\ wi \in Comp
  /\ wj \in 0 .. Width /\ wbeg \in 0 .. Width
  /\ wcnt \in 1 .. MaxRun /\ wleft \in 0 .. MaxLit + 3
=============================================================================
