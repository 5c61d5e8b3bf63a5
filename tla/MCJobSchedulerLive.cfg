\* Refinement of JobQueue and liveness: two jobs, two schedulers.
CONSTANTS
  Job = {j1, j2}
  Scheduler = {s1, s2}
  NoJob = NoJob
  NoScheduler = NoScheduler
SPECIFICATION FairSpec
INVARIANTS
  NothingLost
  OrphanIsSignalled
PROPERTIES
  ImplementsJobQueue
  AcceptedIsFinished
  StopEndsThread
CHECK_DEADLOCK FALSE
