SPECIFICATION DeskSpec
CONSTANTS
  c1 = c1
  c2 = c2
  judo = judo
  chess = chess
  ann = ann
  Office = {ann}
  Child = {c1, c2}
  Class = {judo, chess}
  MaxRows = 2
  MaxTime = 1
  Capacities = {0, 1}
  OfferTtls = {0}
  Windows = {0}
SYMMETRY Symmetry
INVARIANTS
  NewsMatchesPlace
  OneActiveRegistration
  
  RosterListsOnce
  OneQueue
PROPERTY NobodyOvertaken
