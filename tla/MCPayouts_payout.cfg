\* Two payouts, a short timelock, failing transactions and a crash.
SPECIFICATION LivePayouts
CONSTANTS
  PayoutIds = {y1, y2}
  Timelock = 2
  Opening = 1
  Sums = {1}
  Hook = TRUE
  StoreFaults = TRUE
  MaxLag = 2
  MaxReceipts = 1
  MaxCrashes = 1
INVARIANTS
  OneExit
  SatsConserved
  NewsTellsTheRow
PROPERTIES
  VaultLockedDuringExit
  ImplementsPayoutLifecycle
  PayoutsEndOnDisk
