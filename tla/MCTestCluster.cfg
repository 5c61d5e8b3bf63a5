SPECIFICATION TestSpec
CONSTANTS
  Deployment = {"local", "min", "minimum"}
  Tested = {"min"}
  MaxFailed = 1
  MayFail = {"Zookeeper", "Kafka", "RingBearer"}
  MaxInstalls = 2
  r1 = r1
  r2 = r2
  r3 = r3
  a = a
  b = b
  Request = {r1, r2, r3}
  Client = {a, b}
  Calls <- MCCalls
  Given <- MCGiven
  Param = {"file", "words", "description", "MAX_DURATION"}
  Nothing = Nothing
INVARIANTS
  LocationsAnswer
  CallsAreComplete
  JobIsLastGiven
  ScriptOrder
  TrueIsKept
CHECK_DEADLOCK FALSE
