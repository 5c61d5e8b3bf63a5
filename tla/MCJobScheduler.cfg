\* Safety of the threads and of getInfo(): three jobs, one scheduler.
CONSTANTS
  Job = {j1, j2, j3}
  Scheduler = {s1}
  NoJob = NoJob
  NoScheduler = NoScheduler
SYMMETRY Symmetry
SPECIFICATION Spec
INVARIANTS
  OneRunnerAtATime
  AtMostOneLateTake
  SnapshotRunningNotWaiting
  SnapshotKeepsBegun
  SnapshotMissesAtMostOne
CHECK_DEADLOCK FALSE
