SPECIFICATION Spec
CONSTANTS
  Writeback = TRUE
  Slots = {s1, s2, s3, s4}
  NoSlot = NoSlot
  MAX_PENDING_FRAMES = 1
  MAX_INIT_ATTEMPTS = 2
  MAX_FRAME_ERROR_STREAK = 2
  WB_COMMIT_FAILS = 2
  Geometries = {1, 2}
  MaxFrames = 4
  MaxEvents = 1
SYMMETRY SlotSymmetry
INVARIANTS SlotsOwned PoolSuffices PtsPaired KeyframeOwed
PROPERTY GivesUpForGood
