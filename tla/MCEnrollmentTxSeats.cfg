SPECIFICATION TxSpec
CONSTANTS
  c1 = c1
  c2 = c2
  judo = judo
  chess = chess
  p1 = p1
  p2 = p2
  Process = {p1, p2}
  Pk <- Keys
  Child = {c1, c2}
  Class = {judo}
  Calls = {"register", "approve_request", "reject_request", "offer_seat", "confirm_offer", "decline_offer", "cancel", "parent_cancel", "confirm_cancellation", "decline_cancellation", "expire_offers", "cancel_class"}
  MaxRows = 2
  MaxTime = 2
  Capacities = {1}
  OfferTtls = {0}
  Windows = {1}
SYMMETRY Symmetry
PROPERTY AtomicServices
