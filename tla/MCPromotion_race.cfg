SPECIFICATION Spec
CONSTANTS
  PR = {1, 2}
  Branch = {"v1", "v2"}
  Default = "v1"
  Manifest = {"old", "new"}
  BaseOf <- MCBaseOf
  ChannelOf <- MCChannel
  MaxBuilds = 2
  MaxChanges = 1
PROPERTIES NoRollback
CHECK_DEADLOCK FALSE
