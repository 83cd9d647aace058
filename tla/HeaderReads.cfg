SPECIFICATION Spec
CONSTANTS
  Text = {"a"}
  Factor = {2}
  ViewLine <- ViewLines
  NullView <- NoView
  One = 1
  MaxUncopied = 1
  MaxLines = 3
  MaxReads = 2
INVARIANTS OwnHeader OwnText
