\* Tachi adapter: an invoice and a left-over address, crashes, lost sends, failing transactions.
SPECIFICATION Spec
CONSTANTS
  Addresses = {a1, a2}
  Payments = {p1, p2}
  LeftOver = {a2}
  Prices = {1, 2}
  Amounts = {1}
  Hooks = {TRUE}
  Ttl = 1
  RequestTimes = {1, 2}
  Adapter = "tachi"
  StoreFaults = TRUE
  MaxTime = 2
  MaxRefunds = 1
  MaxCrashes = 1
SYMMETRY PaymentSymmetry
INVARIANTS
  PaidIsCreditedSum
  PaidAwaitsCommit
  OutboxTellsTheStory
  CursorNeverAhead
  HandlerHoldsRefund
PROPERTIES
  ImplementsLifecycle
  ReplayMutatesNothing
