\* A refund paid from the key of another invoice.
SPECIFICATION Spec
CONSTANTS
  Refunds = {r1}
  Sums = {1, 3}
  Float <- NoFloat
  Fee = 1
  Losses = {}
  MaxInvoices = 2
  MaxCoins = 2
  MaxStops = 0
INVARIANTS
  CreditedIsReceived
