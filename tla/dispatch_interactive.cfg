SPECIFICATION FairSpec
CONSTANTS
  tg = tg  w1 = w1
  a1 = a1  a2 = a2  a3 = a3  b1 = b1
  Msgs = {a1, a2, a3, b1}
  Lanes = {tg, w1}
  LaneOf <- LanesOfFour
  Steerable = {w1}
  Caps = {1}
INVARIANTS TypeOK BooksSound NothingDropped CancelSparesBacklog
PROPERTIES NeverRestarted EventuallyAnswered
CHECK_DEADLOCK FALSE
