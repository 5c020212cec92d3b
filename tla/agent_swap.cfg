SPECIFICATION FairSpec
CONSTANTS
  r1 = r1
  r2 = r2
  p1 = p1
  p2 = p2
  p3 = p3
  c1 = c1
  c2 = c2
  NoProc = NoProc
  NoTask = NoTask
  NoSlot = NoSlot
  Requests <- OneRequest
  Procs <- ThreeProcs
  Configured <- TwoSlots
  Environment <- NoEvents
  MaxOrphans = 0
  Routes <- AllRoutes
  Calls <- OneCall
  MaxIterations = 1
PROPERTIES
  FirstSwapIsRetried
