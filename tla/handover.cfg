SPECIFICATION FairSpec
CONSTANTS
  Instances <- FourProcesses
  Messages <- TwoMessages
  KindOf <- UpdateThenText
  MaxFaults = 2
INVARIANTS Alone NoneSkipped AnswersCarried
PROPERTIES Served
CHECK_DEADLOCK FALSE
