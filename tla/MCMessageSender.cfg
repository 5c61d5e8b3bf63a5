\* Three continuous tasks on two workers; a send() may hang for ever.
CONSTANTS
  NumOfTasks = 3
  NumOfProcesses = 2
  MaxNumOfMessage = 2
  MaxDuration = 1
  SendPeriod = 0
  SleepTime = 1
  MaxLag = 0
SPECIFICATION MainFairSpec
INVARIANTS
  ClosedIffDone
  TerminatedRanAll
PROPERTIES
  RunReturns
CHECK_DEADLOCK FALSE
