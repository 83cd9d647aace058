SPECIFICATION FairSpec
CONSTANTS
  Half = 4
  MinRun = 3
  MinELen = 2
  NComp = 1
  Width = 5
  NRows = 2
  Value = {2, 5}
  Garbage = Garbage
INVARIANTS TypeOK DeliveredIsWritten ReadAsMeant RefusedOnlyIfCut NothingLeftOver NeverExpands
PROPERTIES RefinesTransfer ReadToTheEnd
