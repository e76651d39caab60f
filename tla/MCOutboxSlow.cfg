SPECIFICATION Spec
CONSTANTS
  w1 = w1
  w2 = w2
  Worker = {w1, w2}
  MaxMessage = 1
  BatchSize = 1
  MaxAttempts = 2
  StuckAfter = 2
  Strangers = {}
  Invites = {}
  WhatsApp = {}
  MaxLosses = 0
  Prompt = FALSE
SYMMETRY Symmetry
INVARIANT DuplicateOnlyAfterLoss
