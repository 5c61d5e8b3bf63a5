\* Two jobs, each with one simulator on two members.
CONSTANTS
  s1 = s1
  m1 = m1
  m2 = m2
  Consumer = consumer
  NumOfJobs = 2
  Simulator = {s1}
  Member = {m1, m2}
SPECIFICATION FairSpec
INVARIANTS
  DownIsAccounted
  CleanupHitsOnePerJob
  AtMostOneLateStop
PROPERTIES
  OutageEnds
CHECK_DEADLOCK FALSE
