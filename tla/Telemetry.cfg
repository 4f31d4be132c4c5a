SPECIFICATION Spec
CONSTANTS
  Publishers = {"wfb", "main", "dvr"}
  Matchers <- Widgets
  Scripts <- Sessions
  MaxDvrFacts = 1
CHECK_DEADLOCK FALSE
INVARIANTS PublishersSafe WholeMessages LossClears
PROPERTY ExitCompletes
