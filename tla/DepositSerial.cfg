SPECIFICATION FairSpec
CONSTANTS
  Intents = {i1}
  MaxHooks = 2
  PollMaxRetry = 1
  HookMaxRetry = 1
  Concurrency = 1
  Amount = 2
  Payments <- MCPayments
  RetryableCharge = FALSE
  Refusals = FALSE
  MaxFaults = 3
CHECK_DEADLOCK FALSE
INVARIANTS PayoutCovered
PROPERTIES KeepsPromise PaidIsCredited
