SPECIFICATION FairSpec
CONSTANTS
  t1 = t1
  t2 = t2
  exe = exe
  lib = lib
  Tasks <- TwoTasks
  Files <- TwoFiles
  Exe = exe
  MaxBuild = 3
  PathBuild = 1
  Archive <- Archives
  Settings <- AllSettings
  MaxStarts = 2
INVARIANTS
  TypeOK
  InstalledWhole
PROPERTIES
  InstallsOffered
  DowngradesOnlyByOverlap
  EveryCheckEnds
CHECK_DEADLOCK FALSE
