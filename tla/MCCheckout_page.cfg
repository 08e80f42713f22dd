\* A page, two fetches, two changes and two faults.
SPECIFICATION LivePage
CONSTANTS
  ADAPTER_MODE = "mock"
  OPENTILL_DEV_PUBLIC_SIMULATE = TRUE
  Fetches = {f1, f2}
  MaxChanges = 2
  MaxFaults = 2
INVARIANTS
  NeverWithoutSource
  StreamHasNoGap
PROPERTIES
  NewsArrives
CHECK_DEADLOCK FALSE
