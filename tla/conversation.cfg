SPECIFICATION FairSpec
CONSTANTS
  tg = tg  a1 = a1  a2 = a2  b1 = b1  b2 = b2
  Nothing = Nothing
  Turns = {a1, a2}
  Convs = {tg}
  Telegram = tg
  ConvOf <- StreamAndWeb
  Steered = {}
  MaxHistory = 1
  MaxEdits = 2
  MaxLosses = 1
  MaxCrashes = 1
INVARIANTS TypeOK OneProcessPerSession
PROPERTIES AnswersKept TurnsEnd
CHECK_DEADLOCK FALSE
