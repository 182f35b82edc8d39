SPECIFICATION FairSpec
CONSTANTS
  main = main
  handler = handler
  renderer = renderer
  nobody = nobody
  fsm = fsm
  net = net
  e1 = e1
  e2 = e2
  Owner = main
  Detached = {handler}
  Render = renderer
  Nobody = nobody
  Panels = {fsm, net}
  Entries = {e1, e2}
  MaxEntries = 2
  Rows <- MCRows
INVARIANTS TuiInv CleanMeansCurrent DrawsIntoLiveWindows
PROPERTIES ImplementsBoard CatchesUp DestructorReturns
CHECK_DEADLOCK FALSE
