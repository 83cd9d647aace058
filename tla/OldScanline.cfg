SPECIFICATION MCSpec
CONSTANTS
  Half = 3
  MinELen = 3
  Widths = {2, 3, 7}
  NRows = 2
  Pixel <- MCPixel
INVARIANTS RowsAsWritten 
PROPERTY RefinesTransfer
