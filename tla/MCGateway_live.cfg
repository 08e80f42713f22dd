\* Commits reach the ledger, due invoices are decided, settled ones confirmed.
SPECIFICATION LiveSpec
CONSTANTS
  Addresses = {a1}
  Payments = {p1, p2}
  LeftOver = {}
  Prices = {2}
  Amounts = {1}
  Hooks = {FALSE}
  Ttl = 1
  RequestTimes = {0, 1}
  Adapter = "tachi"
  StoreFaults = TRUE
  MaxTime = 2
  MaxRefunds = 0
  MaxCrashes = 0
PROPERTIES
  CommitsReachTheLedger
  DueInvoiceIsDecided
  PaidIsConfirmed
