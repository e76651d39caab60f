SPECIFICATION FairSpec
CONSTANTS
  w1 = w1
  w2 = w2
  Worker = {w1, w2}
  MaxMessage = 2
  BatchSize = 2
  MaxAttempts = 2
  StuckAfter = 1
  Strangers = {2}
  Invites = {}
  WhatsApp = {1}
  MaxLosses = 2
  Prompt = TRUE
INVARIANTS
  TypeOK
  OneOwner
  DuplicateOnlyAfterLoss
PROPERTIES
  OptOutHonoured
  KeepsPromise
  EveryMessageEnds
