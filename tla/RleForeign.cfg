SPECIFICATION ForeignSpec
CONSTANTS
  Half = 3
  MinRun = 2
  MinELen = 2
  NComp = 2
  Width = 2
  NRows = 1
  Value = {0}
  Garbage = Garbage
  MaxPayload = 7
  PayloadByte = {0, 1, 2, 5}
  Headers <- MCHeaders
INVARIANTS AcceptsTheWellFormed StaysInRow
