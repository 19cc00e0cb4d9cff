SPECIFICATION FatSpec
CONSTANTS
  task1 = task1 task2 = task2 a = a b = b None = None
  Tasks <- MCTasks
  Names <- MCNames
  Size = 4
  FatSector <- MCFatSector
  DirSector <- MCDirSector
  DirSectors <- MCDirSectors
  Units = 2
  Volumes <- MCVolumes
  Lengths = {1, 2}
  Gaps = {0, 2}
  Exclusive = TRUE
  MaxCalls = 5
  MaxFaults = 2
INVARIANTS NoCrossLink SyncedSurvives
CHECK_DEADLOCK FALSE
