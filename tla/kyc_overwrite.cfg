SPECIFICATION Spec
CONSTANTS
  c1 = c1
  c2 = c2
  u1 = u1
  officer = officer
  r1 = r1
  r2 = r2
  NoCase = NoCase
  Users = {u1}
  Cases = {c1, c2}
  Owner <- OneOwner
  Reviewers = {u1, officer}
  MaxChecks = 2
  t1 = t1
  t2 = t2
  NoStamp = NoStamp
  Stamps = {t1, t2}
  MaxEvents = 2
  Requests = {r1, r2}
  RequestedTiers = {1}
  AdminTiers = {0}
  Finals = {"APPROVED", "REJECTED", "NEEDS_REVIEW", "ERROR"}
  Faults = TRUE
SYMMETRY Sym2
CHECK_DEADLOCK FALSE
PROPERTY StatusFollowsMachine
