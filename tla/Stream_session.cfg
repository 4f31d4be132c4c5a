SPECIFICATION FairSpec
CONSTANTS
  Codecs = {"H264", "H265"}
  CODEC_MISMATCH_CONFIRM = 2
  NO_VIDEO_TIMEOUT = 2
  Wrap = 16
  MaxPackets = 5
  MaxTime = 8
INVARIANTS
  ChangeNotLost
  DataFitsDecoder
  PacketExclusive
PROPERTIES
  LossReported
  SessionEnds
