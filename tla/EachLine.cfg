SPECIFICATION MCSpec
CONSTANTS
  MaxLine = 6
  MaxLen = 9
  MaxLines = 3
  Lines <- UnixLines
INVARIANT EachLine
