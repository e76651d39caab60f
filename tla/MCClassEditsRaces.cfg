SPECIFICATION EditsSpec
CONSTANTS
  c1 = c1
  c2 = c2
  judo = judo
  p1 = p1
  p2 = p2
  a1 = a1
  a2 = a2
  Child = {c1, c2}
  Class = {judo}
  Process = {p1, p2}
  Pk <- Keys
  Calls = {"register", "approve_request", "offer_seat", "cancel_class"}
  Editor = {a1}
  Edits = {"form", "upsert", "publish", "archive"}
  MaxRows = 2
  MaxTime = 2
  Capacities = {0, 1}
  OfferTtls = {0}
  Windows = {1}
SYMMETRY Symmetry
INVARIANTS
  FreedSeatNeverSilent
  NoAccidentalOversubscription
PROPERTY AdmittedWhilePublished
