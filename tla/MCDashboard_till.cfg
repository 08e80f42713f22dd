\* Two invoices, two keys, two requests under way, two panels and two faults.
SPECIFICATION LiveDashboard
CONSTANTS
  Keys = {k1, k2}
  Invoices = {i1, i2}
  None = None
  Requests = {r1, r2}
  MaxOpens = 2
  MaxFaults = 2
INVARIANTS
  RefundPaidOnce
PROPERTIES
  StaleKeyIsDropped
  PanelCatchesUp
CHECK_DEADLOCK FALSE
