\* Three deliveries, sweeps of two, a manual retry and a crash.
SPECIFICATION LiveWebhooks
CONSTANTS
  Deliveries = {d1, d2, d3}
  Limit = 2
  Backoff <- ShortBackoff
  StoreFaults = TRUE
  MaxOverdue = 0
  MaxChain = 2
  MaxRetries = 1
  MaxCrashes = 1
INVARIANTS
  OneAttemptAtATime
  AttemptsAsAllowed
PROPERTIES
  BackoffIsWaited
  KeepsPromise
