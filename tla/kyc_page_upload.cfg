\* The verification page, and what the client library declares of its answers.
CONSTANTS
  MaxCases = 1
  MaxFlights = 2
  Outcomes = {"MORE_INFO_REQUIRED", "EXPIRED"}
  Files = {"d1"}
SPECIFICATION PageSpec
INVARIANT ShownIsACase
