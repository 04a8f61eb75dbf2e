SPECIFICATION Spec
CONSTANTS
  PR = {1, 2, 3}
  Branch = {"v1", "v2"}
  Default = "v1"
  Manifest = {"old", "new"}
  BaseOf <- MCBaseOf
  ChannelOf <- MCChannel
  MaxBuilds = 2
  MaxChanges = 1
INVARIANTS TypeOK OnlyTestedImages MainFollowsChannel
PROPERTIES RollbackOnlyByOverlap
CHECK_DEADLOCK FALSE
