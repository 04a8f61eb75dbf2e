SPECIFICATION Spec
CONSTANTS
  a1 = a1
  a2 = a2
  a3 = a3
  j1 = j1
  j2 = j2
  Alloc <- MCAlloc
  Job <- MCJob
  JobOf <- MCJobOf
  NoAlloc = NoAlloc
  MaxAborts = 2
INVARIANTS TypeOK NothingForgotten SingleWorker OneAllocationPerJob WorkspaceOutlivesWorker
PROPERTIES NoLiveKill SlotSafety SlotSpec
