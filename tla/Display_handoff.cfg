SPECIFICATION FairSpec
CONSTANTS
  WB_COMMIT_FAILS = 1
  Faults = TRUE
  StorageHangs = TRUE
  MaxFrames = 2
  MaxChanges = 2
INVARIANTS NoSleepOnWork ResourcesAlive
PROPERTIES FramesInOrder ExitRestoresDisplay
