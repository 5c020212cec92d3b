SPECIFICATION Spec
CONSTANTS
  r1 = r1
  r2 = r2
  p1 = p1
  p2 = p2
  p3 = p3
  p4 = p4
  NoProc = NoProc
  NoTask = NoTask
  NoSlot = NoSlot
  Requests <- TwoRequests
  Procs <- FourProcs
  Configured <- AllSlots
  Environment <- DeadlineOnly
  MaxOrphans = 1
INVARIANT AtMostOneServer
