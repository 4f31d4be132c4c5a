SPECIFICATION LinkSpec
CONSTANTS
  RTP_SEQMOD = 64
  RTP_DROPOUT = 7
  RTP_MISORDER = 6
  RTP_SEQUENTIAL = 2
  MAX_PACKET = 20
  RTP_PAYLOAD_MAX_SIZE = 100
  Ssrcs = {0, 1, 2}
  RTP_PROBATION = 2
  MEMBER_DROPOUT = 3
  MEMBER_MISORDER = 2
  PACKET_SIZE = 18
  JITTER = 2
  Scenarios <- Numbers
  MaxEvents = 2
CHECK_DEADLOCK FALSE
INVARIANTS MemoryExact ReportSound RestartRecovers
PROPERTY HandsOverUnits
