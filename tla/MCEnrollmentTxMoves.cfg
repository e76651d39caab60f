SPECIFICATION FairTxSpec
CONSTANTS
  c1 = c1
  c2 = c2
  judo = judo
  chess = chess
  p1 = p1
  p2 = p2
  Process = {p1, p2}
  Pk <- Keys
  Child = {c1}
  Class = {judo, chess}
  Calls = {"register", "admin_register", "transfer", "reject_request"}
  MaxRows = 3
  MaxTime = 1
  Capacities = {1}
  OfferTtls = {0}
  Windows = {1}
INVARIANT NoDeadlock
PROPERTIES
  AtomicServices
  CallsEnd
