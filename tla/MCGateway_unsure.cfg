\* A Tachi refund that outlives the wait for its commit.
SPECIFICATION Spec
CONSTANTS
  Addresses = {a1}
  Payments = {p1}
  LeftOver = {}
  Prices = {2}
  Amounts = {1, 2}
  Hooks = {FALSE}
  Ttl = 1
  RequestTimes = {1, 2}
  Adapter = "tachi"
  StoreFaults = FALSE
  MaxTime = 2
  MaxRefunds = 1
  MaxCrashes = 0
INVARIANTS
  RevertedMeansUnsent
