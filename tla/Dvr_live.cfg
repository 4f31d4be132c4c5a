SPECIFICATION FairSpec
CONSTANTS
  MAX_QUEUE_BYTES = 1
  MAX_OPEN_ATTEMPTS = 1
  MAX_CONSECUTIVE_WRITE_FAILURES = 1
  AuLens = {1}
  Restreaming = FALSE
  Faults = {"stall", "storage", "open", "write", "encoder"}
  MaxAUs = 1
  MaxCommands = 1
  MaxEncoderEvents = 1
PROPERTIES ShutdownCompletes DisabledStops StallDetected
