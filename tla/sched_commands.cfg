SPECIFICATION Spec
CONSTANTS
  first = first  second = second  third = third
  NoJob = NoJob
  Tasks = {first, third}
  Jobs = {1, 2, 3}
  KindOf <- KindOfMixed
  DepsOf <- NoDeps
  NewDeps <- OnThird
  NewKinds = {"cron", "bad"}
  Scripted = {first, third}
  MaxCommands = 2
  MaxTicks = 2
  MaxCrashes = 1
INVARIANTS NoGhostEntry NoStuckOneShot OneFirePerArming NeverRemovedUnfired
CHECK_DEADLOCK FALSE
