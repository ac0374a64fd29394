SPECIFICATION FairSpec
CONSTANTS
  NoSession = NoSession
  Unarmed = Unarmed
  Turns = {t1, t2}
  MaxOutput = 2
INVARIANTS RepliesDisjoint ReapSparesTurns NoOrphan
PROPERTIES QueueMoves
CHECK_DEADLOCK FALSE
