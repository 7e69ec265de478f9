SPECIFICATION FairSpec
CONSTANTS
  LastSecond = 3
  MinGap = 1
  MaxGap = 2
  Duration = 4
  MaxTime = 14
  MaxStarts = 2
INVARIANTS
  StableIsWholeWindow
  OneTimerChain
  ChangeIsFinal
PROPERTIES
  WindowEnds
