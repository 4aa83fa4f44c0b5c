\* The components that wait for the answers of others, one per behaviour.
CONSTANTS
  Calls = {"c1", "c2"}
  OpOf <- MCOpOf
  Tokens = {"t1", "t2"}
  NoToken = "no token"
  Clients = {"web", "mobile"}
  DocTypes = {"terms"}
  MaxVersion = 2
  MaxFailures = 1
  Users = {"u1", "u2"}
  NoUser = "nobody"
  MaxFetches = 2
  MaxCases = 1
  MaxFlights = 2
  Outcomes = {"MORE_INFO_REQUIRED", "EXPIRED"}
  Files = {"d1"}
SPECIFICATION ClientsSpec
INVARIANTS
  ClientsTypeOK
  AuditedOnce
  OwnProfileShown
  PageHeals
PROPERTIES
  StaleTokenHeals
  WaitingEnds
  OnboardingEnds
