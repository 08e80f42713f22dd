\* Mock adapter, one process lifetime: the demo and CI configuration.
SPECIFICATION Spec
CONSTANTS
  Addresses = {a1}
  Payments = {p1, p2}
  LeftOver = {}
  Prices = {2}
  Amounts = {1, 2}
  Hooks = {TRUE, FALSE}
  Ttl = 1
  RequestTimes = {1, 2, 3}
  Adapter = "mock"
  StoreFaults = FALSE
  MaxTime = 3
  MaxRefunds = 2
  MaxCrashes = 0
SYMMETRY PaymentSymmetry
INVARIANTS
  TypeOK
  StatusMatchesMoney
  NoPoisonEvent
  MoneyOutIsVisible
  PageTellsTheMoney
PROPERTIES
  ConfirmOnlyWhenSettled
