SPECIFICATION Spec
CONSTANTS
  Person = {head, rita, ann}
  Child = {kid}
  Provider = {academy, club}
  Class = {judo}
  Founder = head
  Deputy = ann
  Organiser = rita
  Academy = academy
  MaxInvites = 1
  MaxOffice = 1
INVARIANTS AlertsReachTheOffice RemovedStaysRemoved NobodyLockedOut
PROPERTIES StrangersByMovesOnly HistoryKeepsTeachers
