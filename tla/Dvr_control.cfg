SPECIFICATION Spec
CONSTANTS
  MAX_QUEUE_BYTES = 2
  MAX_OPEN_ATTEMPTS = 1
  MAX_CONSECUTIVE_WRITE_FAILURES = 2
  AuLens = {1}
  Restreaming = FALSE
  Faults = {"stall", "storage", "open", "write", "encoder"}
  MaxAUs = 2
  MaxCommands = 2
  MaxEncoderEvents = 1
INVARIANTS QueueBytesExact StateAgrees DoneMeansClosed
PROPERTY DisabledLatch
