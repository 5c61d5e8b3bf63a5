\* Two periodic tasks on one worker: the timers, the stop of the pool.
CONSTANTS
  NumOfTasks = 2
  NumOfProcesses = 1
  MaxNumOfMessage = 2
  MaxDuration = 2
  SendPeriod = 1
  SleepTime = 1
  MaxLag = 1
SPECIFICATION FairSpec
PROPERTIES
  ImplementsSendCommand
  NoFireAfterClose
  TasksEnd
CHECK_DEADLOCK FALSE
