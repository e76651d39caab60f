SPECIFICATION OneClassFairSpec
CONSTANTS
  c1 = c1
  c2 = c2
  judo = judo
  Child = {c1, c2}
  Class = {judo}
  MaxRows = 2
  MaxTime = 3
  Capacities = {0, 1}
  OfferTtls = {1}
  Windows = {1}
INVARIANTS
  TypeOK
  
  
  FamilyCanAlwaysLeave
  EveryPageAgrees
PROPERTIES
  CancelledIsFinal
  LapsedOfferIsRemoved
  PagesForetell
