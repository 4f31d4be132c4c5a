SPECIFICATION Spec
CONSTANTS
  Displays <- Picky
  wb_bufs <- Buffers
  frames <- Groups
  MaxFailures = 0
CHECK_DEADLOCK FALSE
INVARIANT DisplayPreserved
