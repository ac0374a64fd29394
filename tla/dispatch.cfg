SPECIFICATION FairSpec
CONSTANTS
  tg = tg  w1 = w1  w2 = w2
  a1 = a1  a2 = a2  b1 = b1  c1 = c1
  Msgs = {a1, a2, b1, c1}
  Lanes = {tg, w1, w2}
  LaneOf <- LanesOfFour
  Steerable = {}
  Caps = {1, 2, 3}
  Slots = 3
INVARIANTS InOrder LoadIsExact
PROPERTIES HandsOver CapRespected ImplementsService
CHECK_DEADLOCK FALSE
