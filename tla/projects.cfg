SPECIFICATION Spec
CONSTANTS
  t1 = t1  t2 = t2
  Turns = {t1, t2}
  Names = {1, 2}
  NoName = NoName
  NoConv = NoConv
  MaxId = 3
  MaxEvents = 2
INVARIANT TopicsWhole
PROPERTIES RecordsKept LineageKept
CHECK_DEADLOCK FALSE
SYMMETRY TurnSymmetry
