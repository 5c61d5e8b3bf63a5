\* Two tasks send more than the limit the option documents.
CONSTANTS
  NumOfTasks = 2
  NumOfProcesses = 2
  MaxNumOfMessage = 2
  MaxDuration = 1
  SendPeriod = 0
  SleepTime = 1
  MaxLag = 0
SPECIFICATION Spec
INVARIANTS
  TotalWithinMax
CHECK_DEADLOCK FALSE
