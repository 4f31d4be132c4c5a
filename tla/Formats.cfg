SPECIFICATION Spec
CHECK_DEADLOCK FALSE
CONSTANTS
  Messages <- MCMessages
  MaxLoops = 2
  Lengths = {1, 162, 345, 2900}
  PtsSteps <- MCPtsSteps
  MaxUnits = 3
  MaxFails = 1
  MaxCut = 2
  TIMESTAMPS = 8192
  nominal_fps = 60
INVARIANTS
  FileReadsBack
  TablesLead
  TimelineTracks
  FeedbackReadsBack
