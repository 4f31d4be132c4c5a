SPECIFICATION Spec
CONSTANTS
  Displays <- Offered
  wb_bufs <- Buffers
  frames <- Groups
  MaxFailures = 4
CHECK_DEADLOCK FALSE
INVARIANTS ReleasedOnce CommitsLive WritebackWhole
