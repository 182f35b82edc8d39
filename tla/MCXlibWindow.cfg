SPECIFICATION FairSpec
CONSTANTS
  label = label
  log = log
  Specs = {label, log}
  Scrolls = {log}
  LineCount <- MCLineCount
  Fits <- MCFits
  MaxBoxes = 2
  MaxScroll = 3
  MaxQueue = 3
INVARIANTS WindowInv ScreenIsCurrent
PROPERTY ClosesOnRequest
CHECK_DEADLOCK FALSE
