SPECIFICATION MCSpec
CONSTANTS
  MaxLine = 6
  MaxLen = 11
  MaxLines = 3
  Lines <- BothLines
INVARIANTS TypeOK WholeLines HeaderEnd
