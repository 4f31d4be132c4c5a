SPECIFICATION FairSpec
CONSTANTS
  Writeback = FALSE
  Slots = {}
  NoSlot = NoSlot
  MAX_PENDING_FRAMES = 2
  MAX_INIT_ATTEMPTS = 2
  MAX_FRAME_ERROR_STREAK = 2
  WB_COMMIT_FAILS = 2
  Geometries = {1, 2}
  MaxFrames = 3
  MaxEvents = 3
INVARIANT SessionFitsFrame
PROPERTY JoinReturns
