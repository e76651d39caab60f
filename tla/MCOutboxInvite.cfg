SPECIFICATION Spec
CONSTANTS
  w1 = w1
  w2 = w2
  Worker = {w1, w2}
  MaxMessage = 1
  BatchSize = 1
  MaxAttempts = 2
  StuckAfter = 2
  Strangers = {}
  Invites = {1}
  WhatsApp = {}
  MaxLosses = 0
  Prompt = TRUE
SYMMETRY Symmetry
INVARIANT InviteNeverSkipped
