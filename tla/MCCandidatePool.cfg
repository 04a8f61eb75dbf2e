SPECIFICATION Spec
CONSTANTS
  Job = {1, 2}
  Host = {1, 2}
  Labelings <- MCLabelings
  MaxFaults = 2
INVARIANTS TypeOK OneRegistrationPerJob OnlyLatePostsLeak OneRunnerPerLabel WorkerAccounted
PROPERTIES Settles
