SPECIFICATION Spec
CONSTANTS
  d1 = d1
  d2 = d2
  d3 = d3
  d4 = d4
  d5 = d5
  r1 = r1
  r2 = r2
  r3 = r3
  NoDoc = NoDoc
  Docs = {d1, d2, d3, d4, d5}
  Requests = {r1, r2, r3}
  MaxDocuments = 2
SYMMETRY Sym
CHECK_DEADLOCK FALSE
INVARIANTS
  LiveHasObject
  LimitPassedByRacersOnly
  NoOrphans
