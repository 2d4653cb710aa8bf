SPECIFICATION QuerySpec
CONSTANTS
  Names = {"n1", "n2", "n3"}
  VBs = {"v1", "v2"}
  Feeds = {1, 2, 3, 4, 5}
  MaxSeq = 3
  MaxUuid = 3
  WireCap = 1
  Scenarios <- StoppedScenarios
INVARIANT StoppedFeedsAreSilent
CHECK_DEADLOCK FALSE
