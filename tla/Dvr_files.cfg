SPECIFICATION Spec
CONSTANTS
  MAX_QUEUE_BYTES = 1
  MAX_OPEN_ATTEMPTS = 2
  MAX_CONSECUTIVE_WRITE_FAILURES = 2
  AuLens = {1}
  Restreaming = FALSE
  Faults = {}
  MaxAUs = 3
  MaxCommands = 2
  MaxEncoderEvents = 2
INVARIANTS SegmentContiguous SegmentSingleSession
