SPECIFICATION FairSpec
CONSTANTS
  t1 = t1  t2 = t2  tg = tg  w1 = w1
  Turns = {t1, t2}
  Stream = tg
  TargetOf <- StreamAndTopic
  Telegram = telegram
  Conns <- TwoConns
  Capacity = 1
  MaxCalls = 10
INVARIANTS Separate
PROPERTIES NoGap TurnsGetOut IndicatorClears
CHECK_DEADLOCK FALSE
