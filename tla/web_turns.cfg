SPECIFICATION Spec
CONSTANTS
  tg = tg  a1 = a1  a2 = a2  b1 = b1  b2 = b2
  Nothing = Nothing
  Turns = {b1, b2}
  Convs = {tg, 1}
  Telegram = tg
  ConvOf <- StreamAndWeb
  Steered = {1}
  MaxHistory = 2
  MaxEdits = 2
  MaxLosses = 1
  MaxCrashes = 0
INVARIANTS OneEntryPerTurn
PROPERTIES SavedSessionLives
CHECK_DEADLOCK FALSE
