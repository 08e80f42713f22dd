\* An open panel is switched to another invoice in the middle of a refund.
SPECIFICATION Spec
CONSTANTS
  Keys = {k1, k2}
  Invoices = {i1, i2}
  None = None
  Requests = {r1, r2}
  MaxOpens = 2
  MaxFaults = 2
INVARIANTS
  RefundsWhatIsConfirmed
CHECK_DEADLOCK FALSE
