SPECIFICATION FairSpec
CONSTANTS
  first = first  second = second  third = third
  NoJob = NoJob
  Tasks = {first, second}
  Jobs = {1, 2, 3}
  KindOf <- KindOfTwo
  DepsOf <- ChainOfTwo
  NewDeps = {}
  NewKinds = {}
  Scripted = {second}
  MaxCommands = 2
  MaxTicks = 0
  MaxCrashes = 1
PROPERTIES OneShotServed
CHECK_DEADLOCK FALSE
