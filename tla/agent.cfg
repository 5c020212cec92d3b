SPECIFICATION ScenarioSpec
CONSTANTS
  r1 = r1
  r2 = r2
  p1 = p1
  p2 = p2
  p3 = p3
  c1 = c1
  c2 = c2
  NoProc = NoProc
  NoTask = NoTask
  NoSlot = NoSlot
  Requests <- TwoRequests
  Procs <- ThreeProcs
  Configured <- TwoSlots
  Environment <- AllEvents
  MaxOrphans = 0
  Routes <- CodingOrTwoPhase
  Calls <- TwoCalls
  MaxIterations = 2
ACTION_CONSTRAINT LowestFreeProc
INVARIANTS
  TypeOK
  RepeatsOnlyInNewLoop
  AnsweredByOwnModel
PROPERTIES
  EveryTurnEnds
  HeavyEventuallyUnloaded
