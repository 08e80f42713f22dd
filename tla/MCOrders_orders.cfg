\* An order of either shop, two attempts to pay it, four changes of each invoice, two faults.
SPECIFICATION LiveOrders
CONSTANTS
  MaxInvoices = 2
  MaxChanges = 4
  MaxFaults = 2
INVARIANTS
  PaidWasConfirmed
  OrderFollowsInvoice
PROPERTIES
  CancelMeansExpired
  PaymentIsHonoured
CHECK_DEADLOCK FALSE
