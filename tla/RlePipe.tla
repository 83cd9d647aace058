------------------------------- MODULE RlePipe -------------------------------
(***************************************************************************)
(* A picture on its way from fwritecolrs to freadcolrs: the two programs   *)
(* run at their own pace (tiff2rad ... | rad2tiff -), or one after the     *)
(* other on a file, which is one of the interleavings.  The writer may     *)
(* stop at any byte.                                                       *)
(***************************************************************************)
EXTENDS RleWriter, RleReader

(***************************************************************************)
(* mark is a history variable: mark[k] says what the k-th byte of the      *)
(* stream was written as.  It restricts no action; the proofs need it to   *)
(* relate the place of the reader to what the writer did there.            *)
(***************************************************************************)
VARIABLE mark

vars == <<img, stream, wpc, wrow, wi, wj, wbeg, wcnt, wleft,
          rpc, rpos, hdr, ri, rj, code, buf, delivered, mark>>

Place(k, r, c, x, n) == [k |-> k, r |-> r, c |-> c, x |-> x, n |-> n]

(* What the next byte of the writer is. *)
WriterPlace ==
  CASE wpc = "magic"                  -> Place("magic", wrow, 0, 0, wleft)
    [] wpc = "shortval"               -> Place("run", wrow, wi, wj, wbeg - wj)
    [] wpc = "runval"                 -> Place("run", wrow, wi, wj, wcnt)
    [] wpc = "lit"                    -> Place("lit", wrow, wi, wj, wleft)
    [] wpc \in {"find", "short", "nonrun", "run"} -> Place("code", wrow, wi, wj, 0)
    [] OTHER                          -> Place("end", NRows, 0, 0, 0)

(* What the reader takes the next byte for. *)
ReaderPlace ==
  CASE rpc = "magic"  -> Place("magic", Len(delivered), 0, 0, Len(hdr))
    [] rpc = "code"   -> Place("code", Len(delivered), ri, rj, 0)
    [] rpc = "runval" -> Place("run", Len(delivered), ri, rj, code)
    [] rpc = "lit"    -> Place("lit", Len(delivered), ri, rj, code)
    [] OTHER          -> Place("end", NRows, 0, 0, 0)

Init ==
  /\ PictureOK
  /\ WriterInit
  /\ ReaderInit
  /\ mark = <<>>

Write ==
  /\ WriteStep
  /\ mark' = IF stream' = stream THEN mark ELSE Append(mark, WriterPlace)
  /\ UNCHANGED readerVars

Stop == WriterStops /\ UNCHANGED <<readerVars, mark>>

Read == ReadStep /\ UNCHANGED <<writerVars, mark>>

(* The stream ends where the writer has finished or stopped; until then    *)
(* getc waits.                                                             *)
EndOfFile ==
  /\ wpc \in {"done", "dead"}
  /\ ReadEOF
  /\ UNCHANGED <<writerVars, mark>>

Finished ==
  /\ wpc \in {"done", "dead"} /\ rpc \in {"done", "failed", "old"}
  /\ UNCHANGED vars

Next == Write \/ Stop \/ Read \/ EndOfFile \/ Finished

Spec == Init /\ [][Next]_vars

(* Both programs keep running while they can: nothing in them waits but    *)
(* getc.                                                                   *)
FairSpec == Spec /\ WF_vars(Write) /\ WF_vars(Read \/ EndOfFile)

-----------------------------------------------------------------------------
TypeOK ==
  PictureOK /\ StreamOK /\ WriterTypeOK /\ ReaderTypeOK

(* Every row that freadcolrs returns 0 for is the row that fwritecolrs was *)
(* given: packets of any kind, cut at any limit, put the same values back, *)
(* and nothing of the previous row or of fresh memory is left in the       *)
(* buffer that both programs reuse for every row.                          *)
DeliveredIsWritten ==
  \A r \in 1 .. Len(delivered) : delivered[r] = img[r - 1]

(* freadcolrs takes every byte for what fwritecolrs meant by it: no value  *)
(* is taken for a code, no run for a non-run, no row starts early or late, *)
(* although nothing in the stream separates the packets.                   *)
ReadAsMeant ==
  rpc \in {"magic", "code", "runval", "lit"} /\ rpos < Len(stream) =>
    mark[rpos + 1] = ReaderPlace

(* freadcolrs refuses a row only where the stream breaks off: none of its  *)
(* checks (length mismatch, overrun) fires on what fwritecolrs wrote, and  *)
(* no encoded row is handed to the reader of the old format.               *)
RefusedOnlyIfCut ==
  /\ rpc # "old"
  /\ rpc = "failed" => wpc = "dead" /\ rpos = Len(stream)

(* A picture that is read to the end has been read whole, and nothing is   *)
(* left in the stream behind its last row.                                 *)
NothingLeftOver ==
  rpc = "done" => Len(delivered) = NRows /\ wpc = "done" /\ rpos = Len(stream)

(* The price of the encoding: a component never takes more than its pixels *)
(* and one byte for every full or last non-run.  fwritecolrs leaves pixels *)
(* that do not pay out of runs to keep this.                               *)
NeverExpands ==
  \A r \in Row, c \in Comp :
    Cardinality({k \in 1 .. Len(mark) :
                   mark[k].k # "magic" /\ mark[k].r = r /\ mark[k].c = c})
      <= Width + (Width + Half - 1) \div Half

Transfer == INSTANCE RowTransfer
  WITH Picture <- [Row -> Scanline(Value)],
       status  <- CASE rpc = "done" -> "complete"
                    [] rpc \in {"failed", "old"} -> "broken"
                    [] OTHER -> "open"

(* The codec implements the transfer of rows.                              *)
RefinesTransfer == Transfer!Spec

(* A picture whose writer is not cut off is read to its end, and no reader *)
(* waits for ever.                                                         *)
ReadToTheEnd == /\ <>(rpc = "done" \/ wpc = "dead")
                /\ <>(rpc \in {"done", "failed", "old"})
=============================================================================
