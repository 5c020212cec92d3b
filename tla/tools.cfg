SPECIFICATION Spec
CONSTANTS
  c1 = c1
  c2 = c2
  mine = mine
  other = other
  trunk = trunk
  dev = dev
  p1 = p1
  v1 = v1
  v2 = v2
  notes = notes
  secret = secret
  a = a
  b = b
  NoFile = NoFile
  NoBranch = NoBranch
  NoMsg = NoMsg
  NoArgs = NoArgs
  Missing = Missing
  Capacity = 2
  MaxStarts = 2
  Calls <- TwoCalls
  Asks <- AllCalls
  Repos <- TwoRepos
  Listed <- ListedRepos
  HasToken = TRUE
  Branches <- TwoBranches
  Paths <- OnePath
  Contents <- TwoContents
  InitialTrees <- SomeTrees
  MaxPushes = 1
  Names <- TwoNames
  Usable <- UsableNames
  Lines <- TwoLines
  InitialDisks <- NoFiles
SYMMETRY Symmetry
ACTION_CONSTRAINT Constraint
INVARIANTS
  TypeOK
  FileInOrder
  NothingElseLost
  CommitsInOrder
  OkMeansDone
PROPERTIES
  ImplementsJournal
  ReplacesOnlyWhatItSaw
  PatchesLandWhole
