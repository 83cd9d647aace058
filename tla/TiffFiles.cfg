CONSTANTS
  fileA = fileA
  fileB = fileB
  fileC = fileC
  Files = {fileA, fileB, fileC}
  Types <- MCTypes
  Widths <- MCWidths
  Height = 3
  StripBytes = 12
  Samples <- MCSamples
  Starts = {0}
  Tagged = {fileC}
  Sessions <- MCSessions
  Words <- MCWords
  MaxWords = 2
  Focals <- MCFocals
  Stonits = {179}
SPECIFICATION Spec
INVARIANTS TypeOK RowsReadBack RowsFit TagsReadBack ReadAsWritten
CHECK_DEADLOCK FALSE
