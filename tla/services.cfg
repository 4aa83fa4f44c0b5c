\* The API's smaller components, one per behaviour.
CONSTANTS
  Keys = {"k1", "k2"}
  Payloads = {"h1", "h2"}
  Callers = {"a", "b"}
  NoKey = "no key"
  NoPayload = "no payload"
  NoCaller = "nobody"
  Prices <- MCPrices
  Quantities <- MCQuantities
  Rates <- MCRates
  Caps <- MCCaps
  Activations <- MCActivations
  TermValues <- MCTermValues
  ListRows <- MCListRows
  FirstRows <- MCFirstRows
  FirstTag <- MCFirstTag
  Moves <- MCMoves
  Tags = {"a", "b"}
  AnyTag = "any"
  PageLimit = 1
  MaxLoads = 2
  Requests = {"r1", "r2"}
  Subjects = {"s1", "s2"}
  EmailsOf <- MCEmailsOf
  NameOf <- MCNameOf
  Names = {"Ann", "ann"}
  NoName = "no name"
  Base <- MCBase
  MaxSuffix = 1
  Randoms = {7}
  NoSubject = "nobody"
  NoEmail = "no e-mail"
  Officers = {"o1", "o2"}
  MaxActions <- MCMaxActions
  MaxDecisions = 1
SPECIFICATION ServicesSpec
INVARIANTS
  ServicesTypeOK
  NeverReexecuted
  ReplayIsOwn
  MoneyMovesOnce
  MoneyIsExact
  MaturityKeepsOrder
  ListIsExact
  ReviewIsKept
  KnownUserServed
PROPERTIES
  ConflictsAreReal
\* Terminal states of the domain machines, and pure computations, go no further.
CHECK_DEADLOCK FALSE
